--------------------------- MODULE WebSessionProofs ---------------------------
(***************************************************************************)
(* What holds of a tab of the dashboard for any users, organizations and   *)
(* bounds: the types, that the workspace is shown only to a user whose own *)
(* organization has been confirmed to have access, and that a session that *)
(* rests is that of the account signed in.                                 *)
(***************************************************************************)
EXTENDS WebSession, TLAPS

USE DEF observed

Calls == [nr : Nat, by : {"listener", "refresh"}, uid : Users, org : Orgs \union {None}]
Loads == [for : AppUsers, attempt : 0..Attempts, as : Users \union {None}, sent : BOOLEAN]

(* The types of the parts, so that each action need show only its own.     *)
CloudOK ==
  /\ auth \in Users \union {None}
  /\ profile \in [Users -> Orgs \union {None}] /\ member \subseteq Users /\ paid \subseteq Orgs
SessionOK ==
  /\ user \in AppUsers /\ identity \in Users \union {None}
  /\ onboarding \in BOOLEAN /\ loading \in BOOLEAN /\ error \in BOOLEAN
CallsOK == calls \subseteq Calls /\ latest \in Nat /\ missed \in BOOLEAN /\ lost \in BOOLEAN
BillingOK ==
  /\ subscription \in [org : Orgs \union {None}, active : BOOLEAN]
  /\ loadedUser \in AppUsers /\ subscriptionError \in BOOLEAN
LoadOK == load \in Loads
PageOK == page \in Pages /\ leaving \in BOOLEAN /\ submitting \in {"no", "founding", "refreshing"}
DataOK == organization \in Orgs \union {None} /\ fetching \in Orgs \union {None}
BoundsOK == changes \in Nat /\ failures \in Nat

LEMMA Parts ==
  TypeOK <=> /\ CloudOK /\ SessionOK /\ CallsOK /\ BillingOK
             /\ LoadOK /\ PageOK /\ DataOK /\ BoundsOK
BY DEF TypeOK, CloudOK, SessionOK, CallsOK, BillingOK, LoadOK, PageOK, DataOK, BoundsOK,
       Calls, Loads

LEMMA PartsNext ==
  TypeOK' <=> /\ CloudOK' /\ SessionOK' /\ CallsOK' /\ BillingOK'
              /\ LoadOK' /\ PageOK' /\ DataOK' /\ BoundsOK'
BY DEF TypeOK, CloudOK, SessionOK, CallsOK, BillingOK, LoadOK, PageOK, DataOK, BoundsOK,
       Calls, Loads

LEMMA SubscriptionRecord ==
  ASSUME NEW o \in Orgs \union {None}, NEW b \in BOOLEAN
  PROVE  [org |-> o, active |-> b] \in [org : Orgs \union {None}, active : BOOLEAN]
OBVIOUS

(* A call begins: the last number is one more, and nothing is missed. *)
LEMMA NextNumber ==
  ASSUME latest \in Nat, latest' = latest + 1, missed' = FALSE, lost' = FALSE
  PROVE  latest' \in Nat /\ missed' \in BOOLEAN /\ lost' \in BOOLEAN
<1>1. latest' \in Nat
  OBVIOUS
<1>2. missed' \in BOOLEAN /\ lost' \in BOOLEAN
  OBVIOUS
<1>. QED BY <1>1, <1>2

LEMMA NoUserIsUser == NoUser \in AppUsers
BY DEF NoUser, AppUsers

LEMMA NoLoadIsLoad == NoLoad \in Loads
BY NoUserIsUser, AttemptsAssumption DEF NoLoad, Loads

(* What a render leaves well typed. *)
LEMMA RenderTypes ==
  ASSUME LoadOK, DataOK, user' \in AppUsers, auth' \in Users \union {None}, Render
  PROVE  LoadOK' /\ DataOK'
<1>1. user'.org \in Orgs \union {None}
  BY DEF AppUsers
<1>2. [for |-> user', attempt |-> 1, as |-> auth', sent |-> TRUE] \in Loads
  BY AttemptsAssumption DEF Loads
<1>3. LoadOK'
  BY <1>2, NoLoadIsLoad DEF LoadOK, Render, StartLoad
<1>4. DataOK'
  BY <1>1 DEF DataOK, Render, Mount, data
<1>. QED BY <1>3, <1>4

LEMMA MountTypes ==
  ASSUME DataOK, user' \in AppUsers, Mount
  PROVE  DataOK'
<1>1. user'.org \in Orgs \union {None}
  BY DEF AppUsers
<1>. QED BY <1>1 DEF DataOK, Mount, data

-----------------------------------------------------------------------------
(* The listener, whoever it is called for. *)
LEMMA ListenTypes ==
  ASSUME SessionOK, CallsOK, NEW u \in Users \union {None}, Listen(u)
  PROVE  SessionOK' /\ CallsOK'
<1>1. CASE u = None
  <2>1. SessionOK'
    BY <1>1, NoUserIsUser DEF Listen, NobodySignedIn, SessionOK
  <2>2. CallsOK'
    BY <1>1, NextNumber DEF Listen, NobodySignedIn, CallsOK
  <2>. QED BY <2>1, <2>2
<1>2. CASE u # None
  <2>1. Resolve(u, "listener") /\ u \in Users
    BY <1>2 DEF Listen
  <2>2. [nr |-> latest + 1, by |-> "listener", uid |-> u, org |-> None] \in Calls
    BY <2>1 DEF CallsOK, Calls
  <2>3. SessionOK'
    BY <2>1 DEF Resolve, SessionOK
  <2>4. CallsOK'
    BY <2>1, <2>2, NextNumber DEF Resolve, CallsOK
  <2>. QED BY <2>3, <2>4
<1>. QED BY <1>1, <1>2

LEMMA ChangeTypes == BoundsOK /\ (Change \/ Failure \/ UNCHANGED bounds) => BoundsOK'
BY DEF BoundsOK, Change, Failure, bounds

(* The end of a call, once what it found is typed. *)
LEMMA EndTypes ==
  ASSUME TypeOK, NEW c \in calls, EndCall(c), SessionOK'
  PROVE  CloudOK' /\ CallsOK' /\ BillingOK' /\ LoadOK' /\ DataOK' /\ leaving' \in BOOLEAN /\
         submitting' \in {"no", "founding", "refreshing"}
<1>. USE Parts DEF EndCall
<1>1. CloudOK' /\ BillingOK'
  BY DEF CloudOK, BillingOK, cloud, billing
<1>2. CallsOK'
  BY DEF CallsOK
<1>3. LoadOK' /\ DataOK'
  BY <1>1, RenderTypes DEF SessionOK, CloudOK
<1>4. leaving' \in BOOLEAN /\ submitting' \in {"no", "founding", "refreshing"}
  BY DEF PageOK
<1>. QED BY <1>1, <1>2, <1>3, <1>4

LEMMA ReadyTypes ==
  ASSUME TypeOK, NEW c \in calls, NEW o \in Orgs \union {None}, Ready(c, o), BoundsOK'
  PROVE  TypeOK'
<1>1. c \in Calls
  BY Parts, PartsNext DEF CallsOK
<1>2. [nr |-> c.nr, uid |-> c.uid, org |-> o] \in AppUsers
  BY <1>1 DEF Calls, AppUsers
<1>3. loading' = FALSE
  BY DEF Ready, EndCall
<1>4. SessionOK'
  BY <1>1, <1>2, <1>3, Parts, PartsNext DEF Ready, SessionOK, Calls
<1>5. EndCall(c)
  BY DEF Ready
<1>6. page' \in Pages
  BY Parts, PartsNext DEF Ready, PageOK, Pages
<1>. QED BY <1>4, <1>5, <1>6, EndTypes, Parts, PartsNext DEF PageOK

LEMMA CallFailsTypes ==
  ASSUME TypeOK, NEW c \in calls, CallFails(c), BoundsOK'
  PROVE  TypeOK'
<1>1. loading' = FALSE /\ EndCall(c)
  BY DEF CallFails, EndCall
<1>2. SessionOK'
  BY <1>1, NoUserIsUser, Parts, PartsNext DEF CallFails, SessionOK
<1>. QED BY <1>1, <1>2, EndTypes, Parts, PartsNext DEF CallFails, PageOK

LEMMA ReadProfileTypes ==
  ASSUME TypeOK, NEW c \in calls, ReadProfile(c)
  PROVE  TypeOK'
<1>1. c \in Calls /\ c.uid \in Users /\ profile[c.uid] \in Orgs \union {None}
  BY Parts, PartsNext DEF CallsOK, Calls, CloudOK
<1>2. BoundsOK'
  BY Parts, PartsNext DEF ReadProfile, BoundsOK, bounds
<1>3. CASE Ready(c, profile[c.uid])
  BY <1>1, <1>2, <1>3, ReadyTypes
<1>4. CASE /\ user' = NoUser /\ identity' = c.uid /\ onboarding' = TRUE
           /\ UNCHANGED <<error, page>>
           /\ EndCall(c)
  <2>1. SessionOK'
    BY <1>1, <1>4, NoUserIsUser, Parts, PartsNext DEF EndCall, SessionOK
  <2>. QED BY <1>2, <1>4, <2>1, EndTypes, Parts, PartsNext DEF PageOK
<1>5. CASE /\ calls' = (calls \ {c}) \union {[c EXCEPT !.org = profile[c.uid]]}
           /\ UNCHANGED <<auth, cloud, session, latest, billing, load, page, leaving, submitting,
                          data, observed>>
  <2>1. [c EXCEPT !.org = profile[c.uid]] \in Calls
    BY <1>1 DEF Calls
  <2>2. CallsOK'
    BY <1>5, <2>1, Parts, PartsNext DEF CallsOK
  <2>. QED BY <1>2, <1>5, <2>2, Parts, PartsNext
           DEF CloudOK, SessionOK, BillingOK, LoadOK, PageOK, DataOK, cloud, session, billing, data
<1>. QED BY <1>3, <1>4, <1>5 DEF ReadProfile

-----------------------------------------------------------------------------
(* Every step keeps the types.                                             *)
LEMMA TypeStep == TypeOK /\ [Next]_vars => TypeOK'
<1>. SUFFICES ASSUME TypeOK, [Next]_vars PROVE TypeOK'
  OBVIOUS
<1>t. CloudOK /\ SessionOK /\ CallsOK /\ BillingOK /\ LoadOK /\ PageOK /\ DataOK /\ BoundsOK
  BY Parts, PartsNext
<1>1. CASE Restore
  <2>1. CloudOK' /\ BillingOK' /\ PageOK' /\ BoundsOK'
    BY <1>t, <1>1 DEF Restore, CloudOK, BillingOK, PageOK, BoundsOK, cloud, billing, bounds
  <2>2. SessionOK' /\ CallsOK'
    BY <1>t, <1>1, ListenTypes DEF Restore, CloudOK
  <2>. QED BY <1>t, <1>1, <2>1, <2>2, RenderTypes, Parts, PartsNext DEF Restore, CloudOK, SessionOK
<1>2. ASSUME NEW u \in Users, SignIn(u) PROVE TypeOK'
  <2>1. CloudOK' /\ BillingOK' /\ PageOK' /\ BoundsOK'
    BY <1>t, <1>2, ChangeTypes DEF SignIn, CloudOK, BillingOK, PageOK, cloud, billing
  <2>2. SessionOK' /\ CallsOK'
    BY <1>t, <1>2, ListenTypes DEF SignIn
  <2>. QED BY <1>t, <1>2, <2>1, <2>2, RenderTypes, Parts, PartsNext DEF SignIn, CloudOK, SessionOK
<1>3. CASE SignInFails
  <2>1. SessionOK' /\ BoundsOK'
    BY <1>t, <1>3, ChangeTypes DEF SignInFails, SessionOK
  <2>2. DataOK'
    BY <1>t, <1>3, <2>1, MountTypes DEF SignInFails, SessionOK
  <2>. QED BY <1>t, <1>3, <2>1, <2>2, Parts, PartsNext
           DEF SignInFails, CloudOK, CallsOK, BillingOK, LoadOK, PageOK, cloud, billing
<1>4. CASE SignOut
  <2>1. CloudOK' /\ BillingOK' /\ PageOK' /\ BoundsOK'
    BY <1>t, <1>4, ChangeTypes DEF SignOut, CloudOK, BillingOK, PageOK, Pages, cloud, billing
  <2>2. SessionOK' /\ CallsOK'
    BY <1>t, <1>4, ListenTypes DEF SignOut
  <2>. QED BY <1>t, <1>4, <2>1, <2>2, RenderTypes, Parts, PartsNext DEF SignOut, CloudOK, SessionOK
<1>5. CASE RenewToken
  <2>1. CloudOK' /\ BillingOK' /\ PageOK' /\ BoundsOK'
    BY <1>t, <1>5, ChangeTypes DEF RenewToken, CloudOK, BillingOK, PageOK, cloud, billing
  <2>2. SessionOK' /\ CallsOK'
    BY <1>t, <1>5, ListenTypes DEF RenewToken, CloudOK
  <2>. QED BY <1>t, <1>5, <2>1, <2>2, RenderTypes, Parts, PartsNext DEF RenewToken, CloudOK, SessionOK
<1>6. ASSUME NEW c \in calls, ReadProfile(c) PROVE TypeOK'
  BY <1>6, ReadProfileTypes
<1>7. ASSUME NEW c \in calls, ReadMembership(c) PROVE TypeOK'
  <2>1. BoundsOK'
    BY <1>t, <1>7, ChangeTypes DEF ReadMembership
  <2>2. c.org \in Orgs \union {None}
    BY <1>t DEF CallsOK, Calls
  <2>. QED BY <1>7, <2>1, <2>2, ReadyTypes, CallFailsTypes DEF ReadMembership
<1>8. ASSUME NEW c \in calls, ReadFails(c) PROVE TypeOK'
  <2>1. BoundsOK'
    BY <1>t, <1>8, ChangeTypes DEF ReadFails
  <2>. QED BY <1>8, <2>1, CallFailsTypes DEF ReadFails
<1>9. ASSUME NEW o \in Orgs, Found(o) PROVE TypeOK'
  <2>1. auth \in Users
    BY <1>t, <1>9 DEF Found, CloudOK
  <2>2. CloudOK' /\ PageOK'
    BY <1>t, <1>9, <2>1 DEF Found, CloudOK, PageOK
  <2>. QED BY <1>t, <1>9, <2>2, Parts, PartsNext
           DEF Found, SessionOK, CallsOK, BillingOK, LoadOK, DataOK, BoundsOK, session, billing,
               data, bounds
<1>10. CASE FoundIsLost
  <2>1. BoundsOK'
    BY <1>t, <1>10, ChangeTypes DEF FoundIsLost
  <2>. QED BY <1>t, <1>10, <2>1, Parts, PartsNext
           DEF FoundIsLost, CloudOK, SessionOK, CallsOK, BillingOK, LoadOK, PageOK, DataOK,
               cloud, session, billing, data
<1>11. CASE FoundReturns
  <2>1. CloudOK' /\ BillingOK' /\ PageOK' /\ BoundsOK'
    BY <1>t, <1>11 DEF FoundReturns, CloudOK, BillingOK, PageOK, BoundsOK, cloud, billing, bounds
  <2>2. SessionOK' /\ CallsOK'
    <3>1. CASE auth = None
      <4>1. SessionOK'
        BY <1>t, <1>11, <3>1, NoUserIsUser DEF FoundReturns, NobodySignedIn, SessionOK
      <4>2. CallsOK'
        BY <1>t, <1>11, <3>1, NextNumber DEF FoundReturns, NobodySignedIn, CallsOK
      <4>. QED BY <4>1, <4>2
    <3>2. CASE auth # None
      <4>1. auth \in Users /\ Resolve(auth, "refresh")
        BY <1>t, <1>11, <3>2 DEF FoundReturns, CloudOK
      <4>2. [nr |-> latest + 1, by |-> "refresh", uid |-> auth, org |-> None] \in Calls
        BY <1>t, <4>1 DEF CallsOK, Calls
      <4>3. SessionOK'
        BY <1>t, <4>1 DEF Resolve, SessionOK
      <4>4. CallsOK'
        BY <1>t, <4>1, <4>2, NextNumber DEF Resolve, CallsOK
      <4>. QED BY <4>3, <4>4
    <3>. QED BY <3>1, <3>2
  <2>. QED BY <1>t, <1>11, <2>1, <2>2, RenderTypes, Parts, PartsNext DEF FoundReturns, CloudOK, SessionOK
<1>12. CASE LoadAnswers
  <2>1. load.as \in Users \union {None} /\ load.for \in AppUsers
    BY <1>t DEF LoadOK, Loads
  <2>2. load.for.org \in Orgs \union {None}
    BY <2>1 DEF AppUsers
  <2>3. subscription' = [org |-> load.for.org, active |-> load.for.org \in paid]
    BY <1>12 DEF LoadAnswers, Matches
  <2>6. BillingOK'
    <3>1. (load.for.org \in paid) \in BOOLEAN
      OBVIOUS
    <3>2. subscription' \in [org : Orgs \union {None}, active : BOOLEAN]
      BY <2>2, <2>3, <3>1, SubscriptionRecord
    <3>3. loadedUser' \in AppUsers /\ subscriptionError' \in BOOLEAN
      BY <1>12, <2>1 DEF LoadAnswers
    <3>. QED BY <3>2, <3>3 DEF BillingOK
  <2>4. SessionOK' /\ LoadOK'
    BY <1>t, <1>12, NoLoadIsLoad DEF LoadAnswers, SessionOK, LoadOK, session
  <2>5. DataOK'
    BY <1>t, <1>12, <2>4, MountTypes DEF LoadAnswers, SessionOK
  <2>. QED BY <1>t, <1>12, <2>6, <2>4, <2>5, Parts, PartsNext
           DEF LoadAnswers, CloudOK, CallsOK, PageOK, BoundsOK, cloud, bounds
<1>13. CASE LoadFails
  <2>1. load.for \in AppUsers /\ load.attempt \in 0..Attempts
    BY <1>t DEF LoadOK, Loads
  <2>2. BillingOK'
    BY <1>t, <1>13, <2>1 DEF LoadFails, GivesUp, BillingOK, billing
  <2>3. LoadOK'
    <3>1. CASE load.attempt < Attempts
      <4>1. load.attempt + 1 \in 0..Attempts
        BY <2>1, <3>1, AttemptsAssumption
      <4>. QED BY <1>t, <1>13, <3>1, <4>1 DEF LoadFails, LoadOK, Loads
    <3>2. CASE ~(load.attempt < Attempts)
      BY <1>13, <3>2, NoLoadIsLoad DEF LoadFails, LoadOK
    <3>. QED BY <3>1, <3>2
  <2>4. SessionOK' /\ BoundsOK'
    BY <1>t, <1>13, ChangeTypes DEF LoadFails, SessionOK, session
  <2>5. DataOK'
    BY <1>t, <1>13, <2>4, MountTypes DEF LoadFails, SessionOK
  <2>. QED BY <1>t, <1>13, <2>2, <2>3, <2>4, <2>5, Parts, PartsNext
           DEF LoadFails, CloudOK, CallsOK, PageOK, cloud
<1>14. CASE LoadAgain
  <2>1. LoadOK'
    BY <1>t, <1>14 DEF LoadAgain, LoadOK, Loads, CloudOK
  <2>. QED BY <1>t, <1>14, <2>1, Parts, PartsNext
           DEF LoadAgain, CloudOK, SessionOK, CallsOK, BillingOK, PageOK, DataOK, BoundsOK,
               cloud, session, billing, data, bounds
<1>15. CASE Fetch
  <2>1. DataOK' /\ BoundsOK'
    BY <1>t, <1>15, ChangeTypes DEF Fetch, DataOK
  <2>. QED BY <1>t, <1>15, <2>1, Parts, PartsNext
           DEF Fetch, CloudOK, SessionOK, CallsOK, BillingOK, LoadOK, PageOK, cloud, session,
               billing
<1>16. CASE Redirect
  <2>1. PageOK'
    BY <1>t, <1>16 DEF Redirect, PageOK, Pages, Target, AppTarget, LoginTarget,
                       OnboardingTarget, SubscribeTarget, PlatformTarget
  <2>2. SessionOK'
    BY <1>t, <1>16 DEF Redirect, SessionOK, session
  <2>3. DataOK'
    BY <1>t, <1>16, <2>2, MountTypes DEF Redirect, SessionOK
  <2>. QED BY <1>t, <1>16, <2>1, <2>2, <2>3, Parts, PartsNext
           DEF Redirect, CloudOK, CallsOK, BillingOK, LoadOK, BoundsOK, cloud, billing, bounds
<1>17. ASSUME NEW p \in Pages, Navigate(p) PROVE TypeOK'
  <2>1. SessionOK' /\ BoundsOK'
    BY <1>t, <1>17, ChangeTypes DEF Navigate, SessionOK, session
  <2>2. DataOK'
    BY <1>t, <1>17, <2>1, MountTypes DEF Navigate, SessionOK
  <2>. QED BY <1>t, <1>17, <2>1, <2>2, Parts, PartsNext
           DEF Navigate, CloudOK, CallsOK, BillingOK, LoadOK, PageOK, cloud, billing
<1>18. CASE CloudChanges
  <2>1. CloudOK' /\ BoundsOK'
    BY <1>t, <1>18, ChangeTypes DEF CloudChanges, CloudOK
  <2>. QED BY <1>t, <1>18, <2>1, Parts, PartsNext
           DEF CloudChanges, SessionOK, CallsOK, BillingOK, LoadOK, PageOK, DataOK, session,
               billing, data
<1>19. CASE UNCHANGED vars
  BY <1>t, <1>19, Parts, PartsNext
  DEF vars, cloud, session, billing, data, bounds, CloudOK, SessionOK, CallsOK, BillingOK,
      LoadOK, PageOK, DataOK, BoundsOK
<1>20. CASE PushLogin
  <2>1. SessionOK' /\ PageOK'
    BY <1>t, <1>20 DEF PushLogin, PageOK, Pages, SessionOK, session
  <2>2. DataOK'
    BY <1>t, <1>20, <2>1, MountTypes DEF PushLogin, SessionOK
  <2>. QED BY <1>t, <1>20, <2>1, <2>2, Parts, PartsNext
           DEF PushLogin, CloudOK, CallsOK, BillingOK, LoadOK, BoundsOK, cloud, billing, bounds
<1>. QED
  BY <1>1, <1>2, <1>3, <1>4, <1>5, <1>6, <1>7, <1>8, <1>9, <1>10, <1>11, <1>12, <1>13, <1>14,
     <1>15, <1>16, <1>17, <1>18, <1>19, <1>20
  DEF Next, Proceed

LEMMA TypeInit == Init => TypeOK
<1>. SUFFICES ASSUME Init PROVE TypeOK
  OBVIOUS
<1>1. member \subseteq Users /\ paid \subseteq Orgs
  BY DEF Init
<1>. QED BY <1>1, NoUserIsUser, NoLoadIsLoad
         DEF Init, TypeOK, NoSubscription, Loads

(* The variables of the tab keep their types, for any users, organizations *)
(* and bounds.                                                             *)
THEOREM TabTypes == Spec => []TypeOK
BY TypeInit, TypeStep, PTL DEF Spec

-----------------------------------------------------------------------------
(* The workspace and what it waits on: as long as the provider has no      *)
(* error, its subscription is that of the user it was loaded for, and what *)
(* DataProvider has or reads is for the user who is shown.                 *)
AnswerIsFor == ~subscriptionError => subscription.org = loadedUser.org

DataIsShown ==
  /\ organization # None => Shown /\ organization = user.org
  /\ fetching # None => Shown /\ fetching = user.org

Inv == TypeOK /\ AnswerIsFor /\ DataIsShown

LEMMA MountKeeps == DataIsShown /\ Mount => DataIsShown'
BY DEF DataIsShown, Mount, data

LEMMA ShownStays ==
  UNCHANGED <<session, billing, page>> => user' = user /\ (Shown' <=> Shown)
BY DEF session, billing, Shown, IsAdmin, HasAccess, SubscriptionLoading, Confirmed

LEMMA DataStays == DataIsShown /\ UNCHANGED <<session, billing, page, data>> => DataIsShown'
BY ShownStays DEF DataIsShown, data

LEMMA AnswerStays == AnswerIsFor /\ UNCHANGED billing => AnswerIsFor'
BY DEF AnswerIsFor, billing

LEMMA EndKeeps ==
  ASSUME Inv, NEW c \in calls, EndCall(c)
  PROVE  AnswerIsFor' /\ DataIsShown'
BY MountKeeps, AnswerStays DEF Inv, EndCall, Render

LEMMA InvStep == Inv /\ [Next]_vars => Inv'
<1>. SUFFICES ASSUME Inv, [Next]_vars PROVE AnswerIsFor' /\ DataIsShown'
  BY TypeStep DEF Inv
<1>t. TypeOK /\ AnswerIsFor /\ DataIsShown
  BY DEF Inv
<1>1. CASE Restore
  BY <1>t, <1>1, MountKeeps, AnswerStays DEF Restore, Render
<1>2. ASSUME NEW u \in Users, SignIn(u) PROVE AnswerIsFor' /\ DataIsShown'
  BY <1>t, <1>2, MountKeeps, AnswerStays DEF SignIn, Render
<1>3. CASE SignInFails
  BY <1>t, <1>3, MountKeeps, AnswerStays DEF SignInFails
<1>4. CASE SignOut
  BY <1>t, <1>4, MountKeeps, AnswerStays DEF SignOut, Render
<1>5. CASE RenewToken
  BY <1>t, <1>5, MountKeeps, AnswerStays DEF RenewToken, Render
<1>6. ASSUME NEW c \in calls, ReadProfile(c) \/ ReadMembership(c) \/ ReadFails(c)
      PROVE  AnswerIsFor' /\ DataIsShown'
  <2>1. CASE EndCall(c)
    BY <2>1, EndKeeps
  <2>2. CASE UNCHANGED <<session, billing, page, data>>
    BY <1>t, <2>2, DataStays, AnswerStays
  <2>3. EndCall(c) \/ UNCHANGED <<session, billing, page, data>>
    BY <1>6 DEF ReadProfile, ReadMembership, ReadFails, Ready, CallFails
  <2>. QED BY <2>1, <2>2, <2>3
<1>7. ASSUME NEW o \in Orgs, Found(o) PROVE AnswerIsFor' /\ DataIsShown'
  BY <1>t, <1>7, DataStays, AnswerStays DEF Found
<1>8. CASE FoundIsLost
  BY <1>t, <1>8, DataStays, AnswerStays DEF FoundIsLost
<1>9. CASE FoundReturns
  BY <1>t, <1>9, MountKeeps, AnswerStays DEF FoundReturns, Render
<1>10. CASE LoadAnswers
  <2>1. DataIsShown'
    BY <1>t, <1>10, MountKeeps DEF LoadAnswers
  <2>2. subscription'.org = profile[load.as] /\ profile[load.as] = load.for.org
    BY <1>10 DEF LoadAnswers, Matches
  <2>3. AnswerIsFor'
    BY <1>10, <2>2 DEF LoadAnswers, AnswerIsFor
  <2>. QED BY <2>1, <2>3
<1>11. CASE LoadFails
  <2>1. DataIsShown'
    BY <1>t, <1>11, MountKeeps DEF LoadFails
  <2>2. AnswerIsFor'
    BY <1>t, <1>11, AnswerStays DEF LoadFails, GivesUp, AnswerIsFor
  <2>. QED BY <2>1, <2>2
<1>12. CASE LoadAgain
  BY <1>t, <1>12, DataStays, AnswerStays DEF LoadAgain
<1>13. CASE Fetch
  <2>1. UNCHANGED <<session, billing, page>>
    BY <1>13 DEF Fetch
  <2>2. DataIsShown'
    BY <1>t, <1>13, <2>1, ShownStays DEF Fetch, DataIsShown
  <2>. QED BY <1>t, <2>1, <2>2, AnswerStays
<1>14. CASE Redirect
  BY <1>t, <1>14, MountKeeps, AnswerStays DEF Redirect
<1>15. ASSUME NEW p \in Pages, Navigate(p) PROVE AnswerIsFor' /\ DataIsShown'
  BY <1>t, <1>15, MountKeeps, AnswerStays DEF Navigate
<1>16. CASE CloudChanges
  BY <1>t, <1>16, DataStays, AnswerStays DEF CloudChanges
<1>17. CASE UNCHANGED vars
  BY <1>t, <1>17, DataStays, AnswerStays DEF vars
<1>18. CASE PushLogin
  BY <1>t, <1>18, MountKeeps, AnswerStays DEF PushLogin
<1>. QED
  BY <1>1, <1>2, <1>3, <1>4, <1>5, <1>6, <1>7, <1>8, <1>9, <1>10, <1>11, <1>12, <1>13, <1>14,
     <1>15, <1>16, <1>17, <1>18
  DEF Next, Proceed

LEMMA InvInit == Init => Inv
BY TypeInit DEF Init, Inv, AnswerIsFor, DataIsShown, NoSubscription, NoUser

LEMMA InvShows == Inv => ShownIsConfirmed
<1>. SUFFICES ASSUME Inv PROVE ShownIsConfirmed
  OBVIOUS
<1>1. ASSUME Shown, ~IsAdmin(user)
      PROVE  subscription = [org |-> user.org, active |-> TRUE]
  <2>1. subscription.org = user.org /\ subscription.active
    BY <1>1 DEF Inv, AnswerIsFor, Shown, HasAccess, Confirmed
  <2>2. subscription \in [org : Orgs \union {None}, active : BOOLEAN]
    BY DEF Inv, TypeOK
  <2>3. subscription.active = TRUE
    BY <2>1, <2>2
  <2>. QED BY <2>1, <2>2, <2>3
<1>2. organization # None => Shown /\ organization = user.org
  BY DEF Inv, DataIsShown
<1>. QED BY <1>1, <1>2 DEF ShownIsConfirmed

(* The workspace is shown only to a user whose own organization has been   *)
(* confirmed to have access, with that organization's header, whatever     *)
(* calls overlap and whichever account the token is of.                    *)
THEOREM ShownIsConfirmedAlways == Spec => []ShownIsConfirmed
BY InvInit, InvStep, InvShows, PTL DEF Spec

-----------------------------------------------------------------------------
(* The session of a tab that rests.  The last call to begin is for the     *)
(* account signed in, an organization it has read is still the user's, and *)
(* the onboarding form has one call under way at most (CallsInv,           *)
(* OneRefresh); so when the last call has ended, and no earlier one after  *)
(* it, the session is right (RightInv), although earlier calls may still   *)
(* be under way.                                                           *)
Right ==
  \/ auth = None /\ user = NoUser /\ ~onboarding
  \/ auth # None /\ user.uid = auth /\ user.org = profile[auth]
  \/ auth # None /\ user = NoUser /\ onboarding /\ identity = auth /\ profile[auth] = None

CallsInv == \A c \in calls :
  /\ c.nr <= latest /\ (c.nr = latest => c.uid = auth)
  /\ c.org # None => c.org = profile[c.uid]
  /\ c.by = "refresh" => submitting = "refreshing"
OneRefresh == \A c, d \in calls : c.by = "refresh" /\ d.by = "refresh" => c = d
RightInv ==
  latest > 0 /\ ~missed /\ ~lost /\ ~error /\ submitting = "no" /\
  (\A c \in calls : c.nr # latest) => Right

QuietInv == CallsInv /\ OneRefresh /\ RightInv

LEMMA QuietStays ==
  ASSUME QuietInv,
         UNCHANGED <<auth, profile, user, identity, onboarding, error, calls, latest, observed,
                     submitting>>
  PROVE  QuietInv'
BY DEF QuietInv, CallsInv, OneRefresh, RightInv, Right

LEMMA CallFacts ==
  ASSUME TypeOK, QuietInv, NEW c \in calls
  PROVE  /\ c \in Calls /\ c.nr \in Nat /\ c.uid \in Users /\ c.uid # None
         /\ c.nr <= latest /\ (c.nr = latest => c.uid = auth)
         /\ c.org # None => c.org = profile[c.uid]
         /\ c.by = "refresh" => submitting = "refreshing"
         /\ latest \in Nat
<1>1. c \in Calls /\ latest \in Nat
  BY DEF TypeOK, Calls
<1>2. c.nr \in Nat /\ c.uid \in Users
  BY <1>1 DEF Calls
<1>. QED BY <1>1, <1>2, UsersAssumption DEF QuietInv, CallsInv

(* A call that begins is the last one, for the account signed in.          *)
LEMMA ResolveQuiet ==
  ASSUME TypeOK, QuietInv, NEW u \in Users, NEW by, Resolve(u, by), auth' = u, profile' = profile,
         \/ by # "refresh" /\ submitting' = submitting
         \/ submitting' = "refreshing" /\ \A c \in calls : c.by # "refresh"
  PROVE  QuietInv'
<1>. DEFINE new == [nr |-> latest + 1, by |-> by, uid |-> u, org |-> None]
<1>1. calls' = calls \union {new} /\ latest' = latest + 1 /\ latest \in Nat
  BY DEF Resolve, TypeOK
<1>2. CallsInv'
  <2>1. ASSUME NEW c \in calls
        PROVE  /\ c.nr <= latest' /\ c.nr # latest'
               /\ c.org # None => c.org = profile'[c.uid]
               /\ c.by = "refresh" => submitting' = "refreshing"
    BY <1>1, CallFacts
  <2>2. new.by = "refresh" => submitting' = "refreshing"
    OBVIOUS
  <2>. QED BY <1>1, <2>1, <2>2 DEF CallsInv
<1>3. OneRefresh'
  BY <1>1 DEF QuietInv, OneRefresh
<1>4. RightInv'
  <2>1. new \in calls' /\ new.nr = latest'
    BY <1>1
  <2>. HIDE DEF new
  <2>. QED BY <2>1 DEF RightInv
<1>. QED BY <1>2, <1>3, <1>4 DEF QuietInv

(* A sign-out is heard at once. *)
LEMMA NobodyQuiet ==
  ASSUME TypeOK, QuietInv, NobodySignedIn, auth' = None, profile' = profile,
         submitting' = submitting \/ \A c \in calls : c.by # "refresh"
  PROVE  QuietInv'
<1>1. calls' = calls /\ latest' = latest + 1 /\ latest \in Nat
  BY DEF NobodySignedIn, TypeOK
<1>2. CallsInv'
  BY <1>1, CallFacts DEF CallsInv
<1>3. OneRefresh'
  BY <1>1 DEF QuietInv, OneRefresh
<1>4. RightInv'
  BY DEF NobodySignedIn, RightInv, Right
<1>. QED BY <1>2, <1>3, <1>4 DEF QuietInv

LEMMA ListenQuiet ==
  ASSUME TypeOK, QuietInv, NEW u \in Users \union {None}, Listen(u), auth' = u,
         profile' = profile, submitting' = submitting
  PROVE  QuietInv'
<1>1. CASE u = None
  BY <1>1, NobodyQuiet DEF Listen
<1>2. CASE u # None
  BY <1>2, ResolveQuiet DEF Listen
<1>. QED BY <1>1, <1>2

(* A call that ends has the last word, or another one had it before.       *)
LEMMA EndQuiet ==
  ASSUME TypeOK, QuietInv, NEW c \in calls, EndCall(c), c.nr = latest => Right' \/ error'
  PROVE  QuietInv'
<1>1. /\ calls' = calls \ {c} /\ latest' = latest /\ auth' = auth /\ profile' = profile
      /\ missed' = (c.nr # latest) /\ lost' = (lost /\ c.nr # latest)
      /\ submitting' = IF c.by = "refresh" THEN "no" ELSE submitting
  BY DEF EndCall, cloud
<1>2. CallsInv'
  <2>1. ASSUME NEW d \in calls, d # c
        PROVE  d.by = "refresh" => submitting' = "refreshing"
    BY <1>1, <2>1, CallFacts DEF QuietInv, OneRefresh
  <2>. QED BY <1>1, <2>1, CallFacts DEF CallsInv
<1>3. OneRefresh'
  BY <1>1 DEF QuietInv, OneRefresh
<1>4. RightInv'
  BY <1>1 DEF RightInv
<1>. QED BY <1>2, <1>3, <1>4 DEF QuietInv

LEMMA ReadyQuiet ==
  ASSUME TypeOK, QuietInv, NEW c \in calls, NEW o, o = profile[c.uid], Ready(c, o)
  PROVE  QuietInv'
<1>1. /\ user' = [nr |-> c.nr, uid |-> c.uid, org |-> o]
      /\ auth' = auth /\ profile' = profile /\ EndCall(c)
  BY DEF Ready, EndCall, cloud
<1>2. c.nr = latest => Right'
  BY <1>1, CallFacts DEF Right
<1>. QED BY <1>1, <1>2, EndQuiet

LEMMA ReadProfileQuiet ==
  ASSUME TypeOK, QuietInv, NEW c \in calls, ReadProfile(c)
  PROVE  QuietInv'
<1>1. CASE Ready(c, profile[c.uid])
  BY <1>1, ReadyQuiet
<1>2. CASE /\ profile[c.uid] = None
           /\ user' = NoUser /\ identity' = c.uid /\ onboarding' = TRUE
           /\ EndCall(c)
  <2>1. auth' = auth /\ profile' = profile
    BY <1>2 DEF EndCall, cloud
  <2>2. c.nr = latest => Right'
    BY <1>2, <2>1, CallFacts DEF Right
  <2>. QED BY <1>2, <2>2, EndQuiet
<1>3. CASE /\ calls' = (calls \ {c}) \union {[c EXCEPT !.org = profile[c.uid]]}
           /\ UNCHANGED <<auth, cloud, session, latest, submitting, observed>>
  <2>. DEFINE e == [c EXCEPT !.org = profile[c.uid]]
  <2>1. /\ e.nr = c.nr /\ e.uid = c.uid /\ e.by = c.by /\ e.org = profile[c.uid]
    BY CallFacts DEF Calls
  <2>2. /\ auth' = auth /\ profile' = profile /\ latest' = latest /\ submitting' = submitting
        /\ missed' = missed /\ lost' = lost /\ error' = error /\ user' = user /\ identity' = identity
        /\ onboarding' = onboarding /\ calls' = (calls \ {c}) \union {e}
    BY <1>3 DEF cloud, session
  <2>. HIDE DEF e
  <2>3. CallsInv'
    BY <2>1, <2>2, CallFacts DEF CallsInv
  <2>4. OneRefresh'
    BY <2>1, <2>2 DEF QuietInv, OneRefresh
  <2>5. RightInv'
    <3>1. (\A d \in calls' : d.nr # latest) => (\A d \in calls : d.nr # latest)
      BY <2>1, <2>2
    <3>. QED BY <3>1, <2>2 DEF QuietInv, RightInv, Right
  <2>. QED BY <2>3, <2>4, <2>5 DEF QuietInv
<1>. QED BY <1>1, <1>2, <1>3 DEF ReadProfile

LEMMA QuietStep == TypeOK /\ QuietInv /\ [Next]_vars => QuietInv'
<1>. SUFFICES ASSUME TypeOK, QuietInv, [Next]_vars PROVE QuietInv'
  OBVIOUS
<1>t. auth \in Users \union {None} /\ profile \in [Users -> Orgs \union {None}]
  BY DEF TypeOK
<1>1. CASE Restore
  BY <1>t, <1>1, ListenQuiet DEF Restore, cloud
<1>2. ASSUME NEW u \in Users, SignIn(u) PROVE QuietInv'
  BY <1>t, <1>2, ListenQuiet DEF SignIn, cloud
<1>3. CASE SignInFails
  BY <1>3 DEF SignInFails, cloud, QuietInv, CallsInv, OneRefresh, RightInv
<1>4. CASE SignOut
  BY <1>t, <1>4, ListenQuiet DEF SignOut, cloud
<1>5. CASE RenewToken
  BY <1>t, <1>5, ListenQuiet DEF RenewToken, cloud
<1>6. ASSUME NEW c \in calls, ReadProfile(c) PROVE QuietInv'
  BY <1>6, ReadProfileQuiet
<1>7. ASSUME NEW c \in calls, CallFails(c) PROVE QuietInv'
  BY <1>7, EndQuiet DEF CallFails
<1>8. ASSUME NEW c \in calls, ReadMembership(c) PROVE QuietInv'
  <2>1. c.org = profile[c.uid]
    BY <1>8, CallFacts DEF ReadMembership
  <2>. QED BY <1>7, <1>8, <2>1, ReadyQuiet DEF ReadMembership
<1>9. ASSUME NEW o \in Orgs, Found(o) PROVE QuietInv'
  <2>1. /\ profile' = [profile EXCEPT ![auth] = o] /\ profile[auth] = None
        /\ submitting = "no" /\ submitting' = "founding"
        /\ auth' = auth /\ calls' = calls /\ latest' = latest
    BY <1>9 DEF Found
  <2>2. CallsInv'
    <3>1. ASSUME NEW c \in calls, c.org # None PROVE c.org = profile'[c.uid]
      BY <3>1, <2>1, <1>t, CallFacts
    <3>. QED BY <3>1, <2>1, CallFacts DEF CallsInv
  <2>3. OneRefresh' /\ RightInv'
    BY <2>1 DEF QuietInv, OneRefresh, RightInv
  <2>. QED BY <2>2, <2>3 DEF QuietInv
<1>10. CASE FoundIsLost
  <2>1. /\ submitting = "founding" /\ lost'
        /\ auth' = auth /\ calls' = calls /\ latest' = latest /\ profile' = profile
    BY <1>10 DEF FoundIsLost, cloud
  <2>2. CallsInv'
    BY <2>1, CallFacts DEF CallsInv
  <2>3. OneRefresh' /\ RightInv'
    BY <2>1 DEF QuietInv, OneRefresh, RightInv
  <2>. QED BY <2>2, <2>3 DEF QuietInv
<1>11. CASE FoundReturns
  <2>1. /\ submitting = "founding" /\ auth' = auth /\ profile' = profile
        /\ \A c \in calls : c.by # "refresh"
    BY <1>11, CallFacts DEF FoundReturns, cloud
  <2>2. CASE auth = None
    BY <1>11, <2>1, <2>2, NobodyQuiet DEF FoundReturns
  <2>3. CASE auth # None
    BY <1>t, <1>11, <2>1, <2>3, ResolveQuiet DEF FoundReturns
  <2>. QED BY <2>2, <2>3
<1>12. CASE LoadAnswers \/ LoadFails \/ LoadAgain \/ Fetch \/ Redirect \/ PushLogin
            \/ CloudChanges \/ (\E p \in Pages : Navigate(p)) \/ UNCHANGED vars
  <2>1. UNCHANGED <<auth, profile, session, calls, latest, observed, submitting>>
    BY <1>12 DEF LoadAnswers, LoadFails, LoadAgain, Fetch, Redirect, PushLogin, CloudChanges,
                 Navigate,
                 vars, cloud
  <2>. QED BY <2>1, QuietStays DEF session
<1>. QED
  BY <1>1, <1>2, <1>3, <1>4, <1>5, <1>6, <1>7, <1>8, <1>9, <1>10, <1>11, <1>12
  DEF Next, Proceed, ReadFails

(* When no call is under way, and the last one to end was also the last to *)
(* begin, the session is that of the account signed in (AuthProvider), for *)
(* any accounts and any number of calls that overlapped, in any order.     *)
THEOREM QuietSessionAlwaysRight == Spec => []QuietSessionIsRight
<1>1. Init => QuietInv
  BY DEF Init, QuietInv, CallsInv, OneRefresh, RightInv
<1>2. QuietInv => QuietSessionIsRight
  BY DEF QuietInv, RightInv, Right, QuietSessionIsRight
<1>. QED BY <1>1, <1>2, TabTypes, QuietStep, PTL DEF Spec
=============================================================================
