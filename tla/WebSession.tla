------------------------------ MODULE WebSession ------------------------------
(***************************************************************************)
(* One tab of the dashboard: who it takes the user to be                   *)
(* (lib/auth/auth-provider.tsx), whether the user's organization has paid  *)
(* (lib/billing/subscription-provider.tsx), which page it is on and where  *)
(* the guards of the pages send it (components/protected-app.tsx,          *)
(* components/account-guard.tsx, the login, onboarding and subscribe       *)
(* pages), and the organization the workspace shows                        *)
(* (lib/data/data-provider.tsx).                                           *)
(*                                                                         *)
(* Firebase calls the listener on a sign-in, a sign-out and a new token.   *)
(* The listener awaits two reads of Firestore, so several calls can be     *)
(* under way, and each applies what it found when it ends.  What is set    *)
(* between two awaits is one step, with the effects React runs after it:   *)
(* the load of the subscription starts again when the user object or the   *)
(* loading flag has changed, and the workspace is mounted or unmounted.    *)
(* A redirect of a guard is a step of its own.                             *)
(***************************************************************************)
EXTENDS Naturals

CONSTANTS
  Users, Orgs,
  Admins,           \* users whose token has the claim platformAdmin
  None,             \* no user, no organization
  Attempts,         \* of loading the subscription (3)
  MaxCalls,         \* bound on the calls of resolveProfile
  MaxChanges,       \* bound on what users and the server do
  MaxFailures       \* bound on requests that fail

ASSUME UsersAssumption == Admins \subseteq Users /\ None \notin Users \union Orgs
ASSUME AttemptsAssumption == Attempts \in Nat \ {0}
ASSUME BoundsAssumption == MaxCalls \in Nat /\ MaxChanges \in Nat /\ MaxFailures \in Nat

Pages == {"app", "login", "onboarding", "subscribe", "platform"}

VARIABLES
  \* Firebase, and what the cloud stores
  auth,             \* auth.currentUser
  profile,          \* defaultOrganizationId of each user
  member,           \* users whose membership of it is active
  paid,             \* organizations whose accessStatus is active
  \* AuthProvider
  user, identity, onboarding, loading, error,
  calls,            \* calls of resolveProfile under way
  latest,           \* number of the last one, 0 before the listener is called
  \* SubscriptionProvider
  subscription, loadedUser, subscriptionError,
  load,             \* the load whose effect is active
  \* the page, its form, and DataProvider, mounted with the workspace
  page,
  leaving,          \* a sign-out of the workspace that has yet to push the login page
  submitting,       \* the onboarding form: "no", "founding" or "refreshing"
  organization, fetching,
  \* observation
  missed,           \* the last call to end was not the last to begin
  lost,             \* the answer to the founding was lost, and nothing came after
  changes, failures

cloud == <<profile, member, paid>>
session == <<user, identity, onboarding, loading, error>>
billing == <<subscription, loadedUser, subscriptionError>>
data == <<organization, fetching>>
observed == <<missed, lost>>
bounds == <<changes, failures>>
vars == <<auth, cloud, session, calls, latest, billing, load, page, leaving, submitting,
          data, observed, bounds>>

-----------------------------------------------------------------------------
(* A user object carries the number of the call that made it: React and    *)
(* SubscriptionProvider compare objects, not what is in them.              *)
NoUser == [nr |-> 0, uid |-> None, org |-> None]
NoLoad == [for |-> NoUser, attempt |-> 0, as |-> None, sent |-> FALSE]
NoSubscription == [org |-> None, active |-> FALSE]

IsAdmin(u) == u.uid \in Admins

Init ==
  /\ profile \in [Users -> Orgs \union {None}]
  /\ \A u, v \in Users : profile[u] = profile[v] /\ u # v => profile[u] = None
  /\ member = {u \in Users : profile[u] # None}
  /\ paid \in SUBSET {profile[u] : u \in member}
  /\ auth \in Users \union {None}           \* as the browser has persisted it
  /\ user = NoUser /\ identity = None /\ onboarding = FALSE
  /\ loading = TRUE /\ error = FALSE
  /\ calls = {} /\ latest = 0
  /\ subscription = NoSubscription /\ loadedUser = NoUser /\ subscriptionError = FALSE
  /\ load = NoLoad
  /\ page \in Pages /\ leaving = FALSE /\ submitting = "no"
  /\ organization = None /\ fetching = None
  /\ missed = FALSE /\ lost = FALSE /\ changes = 0 /\ failures = 0

Change == changes < MaxChanges /\ changes' = changes + 1 /\ UNCHANGED failures
Failure == failures < MaxFailures /\ failures' = failures + 1 /\ UNCHANGED changes

-----------------------------------------------------------------------------
(* What the providers say after a render.                                  *)

Confirmed == user.org # None /\ loadedUser = user

HasAccess == Confirmed /\ subscription.active
SubscriptionLoading == loading \/ (user.org # None /\ ~Confirmed)

(* ProtectedApp returns its children. *)
Shown ==
  /\ page = "app"
  /\ ~loading /\ ~error /\ ~onboarding
  /\ user.org # None /\ ~SubscriptionLoading /\ ~subscriptionError
  /\ IsAdmin(user) \/ HasAccess

(* SubscriptionProvider's effect: the cleanup silences the load under way. *)
StartLoad ==
  load' = IF user' = user /\ loading' = loading THEN load
          ELSE IF loading' \/ user'.org = None THEN NoLoad
          ELSE [for |-> user', attempt |-> 1, as |-> auth', sent |-> TRUE]

(* DataProvider is a child of ProtectedApp, so it begins anew each time.   *)
Mount ==
  IF ~Shown' THEN organization' = None /\ fetching' = None
  ELSE IF Shown /\ user' = user THEN UNCHANGED data
  ELSE organization' = None /\ fetching' = user'.org

Render == StartLoad /\ Mount

-----------------------------------------------------------------------------
(* The listener of AuthProvider, and refreshProfile.                       *)

Resolve(u, by) ==
  /\ latest < MaxCalls
  /\ latest' = latest + 1 /\ missed' = FALSE /\ lost' = FALSE
  /\ calls' = calls \union {[nr |-> latest + 1, by |-> by, uid |-> u, org |-> None]}
  /\ loading' = TRUE /\ error' = FALSE
  /\ UNCHANGED <<user, identity, onboarding>>

NobodySignedIn ==
  /\ latest < MaxCalls
  /\ latest' = latest + 1 /\ missed' = FALSE /\ lost' = FALSE
  /\ user' = NoUser /\ identity' = None /\ onboarding' = FALSE
  /\ UNCHANGED calls

(* Mutant: a sign-out clears the identity and not the user. *)
ListenKeepsUser(u) ==
  IF u = None
    THEN /\ latest < MaxCalls
         /\ latest' = latest + 1 /\ missed' = FALSE /\ lost' = FALSE
         /\ identity' = None /\ onboarding' = FALSE
         /\ loading' = FALSE /\ error' = FALSE
         /\ UNCHANGED <<user, calls>>
    ELSE Resolve(u, "listener")

Listen(u) ==
  IF u = None THEN NobodySignedIn /\ loading' = FALSE /\ error' = FALSE
  ELSE Resolve(u, "listener")

(* The first call of the listener, once Firebase has restored the session. *)
Restore ==
  /\ latest = 0
  /\ UNCHANGED <<auth, cloud, billing, page, leaving, submitting, bounds>>
  /\ Listen(auth) /\ Render

SignIn(u) ==
  /\ page = "login" /\ latest > 0 /\ u # auth
  /\ Change
  /\ auth' = u
  /\ UNCHANGED <<cloud, billing, page, leaving, submitting>>
  /\ Listen(u) /\ Render

SignInFails ==
  /\ page = "login" /\ latest > 0
  /\ Failure
  /\ error' = TRUE
  /\ UNCHANGED <<auth, cloud, user, identity, onboarding, loading, calls, latest, billing,
                 load, page, leaving, submitting, observed>>
  /\ Mount

(* Here or in another tab.  The listener is called first; the workspace    *)
(* then pushes the login page, wherever the guards have sent the tab by    *)
(* then, and the other pages leave it to their guard.                      *)
SignOut ==
  /\ auth # None /\ latest > 0
  /\ Change
  /\ auth' = None
  /\ leaving' \in {leaving, leaving \/ Shown}
  /\ UNCHANGED <<cloud, billing, page, submitting>>
  /\ Listen(None) /\ Render

PushLogin ==
  /\ leaving
  /\ leaving' = FALSE /\ page' = "login"
  /\ UNCHANGED <<auth, cloud, session, calls, latest, billing, load, submitting, observed, bounds>>
  /\ Mount

(* Firebase renews the token of the user, about every hour. *)
RenewToken ==
  /\ auth # None /\ latest > 0
  /\ Change
  /\ UNCHANGED <<auth, cloud, billing, page, leaving, submitting>>
  /\ Listen(auth) /\ Render

-----------------------------------------------------------------------------
(* The end of a call: what it found is applied, whatever came after it.    *)

EndCall(c) ==
  /\ calls' = calls \ {c}
  /\ loading' = FALSE
  /\ missed' = (c.nr # latest) /\ lost' = (lost /\ c.nr # latest)
  /\ submitting' = IF c.by = "refresh" THEN "no" ELSE submitting
  /\ UNCHANGED <<auth, cloud, latest, billing, leaving>>
  /\ Render

(* The form of the onboarding page goes on to the packages, while the      *)
(* guard of that page sends a user who is ready to the workspace.          *)
Ready(c, o) ==
  /\ user' = [nr |-> c.nr, uid |-> c.uid, org |-> o]
  /\ identity' = c.uid /\ onboarding' = FALSE
  /\ \/ c.by = "listener" /\ UNCHANGED page
     \/ c.by = "refresh" /\ page' = "subscribe"
     \/ c.by = "refresh" /\ page = "onboarding" /\ page' = "app"
  /\ UNCHANGED error
  /\ EndCall(c)

ReadProfile(c) ==
  /\ c.org = None
  /\ UNCHANGED bounds
  /\ \/ c.uid \in Admins /\ Ready(c, profile[c.uid])
     \/ /\ c.uid \notin Admins /\ profile[c.uid] = None
        /\ user' = NoUser /\ identity' = c.uid /\ onboarding' = TRUE
        /\ UNCHANGED <<error, page, leaving>>
        /\ EndCall(c)
     \/ /\ c.uid \notin Admins /\ profile[c.uid] # None
        /\ calls' = (calls \ {c}) \union {[c EXCEPT !.org = profile[c.uid]]}
        /\ UNCHANGED <<auth, cloud, session, latest, billing, load, page, leaving, submitting, data,
                       observed>>

CallFails(c) ==
  /\ user' = NoUser /\ onboarding' = FALSE /\ error' = TRUE
  /\ UNCHANGED <<identity, page, leaving>>
  /\ EndCall(c)

ReadMembership(c) ==
  /\ c.org # None
  /\ UNCHANGED bounds
  /\ IF c.uid \in member THEN Ready(c, c.org) ELSE CallFails(c)

ReadFails(c) == Failure /\ CallFails(c)

-----------------------------------------------------------------------------
(* The onboarding form: bootstrapOrganization, then refreshProfile.        *)

Found(o) ==
  /\ page = "onboarding" /\ submitting = "no"
  /\ ~loading /\ ~error /\ user = NoUser /\ identity # None /\ onboarding
  /\ auth # None /\ profile[auth] = None
  /\ \A u \in Users : profile[u] # o
  /\ profile' = [profile EXCEPT ![auth] = o]
  /\ member' = member \union {auth}
  /\ submitting' = "founding"
  /\ UNCHANGED <<auth, paid, session, calls, latest, billing, load, page, leaving, data,
                 observed, bounds>>

(* The answer is lost after the commit, and the form shows an error. *)
FoundIsLost ==
  /\ submitting = "founding"
  /\ Failure
  /\ submitting' = "no" /\ lost' = TRUE
  /\ UNCHANGED <<auth, cloud, session, calls, latest, billing, load, page, leaving, data, missed>>

FoundReturns ==
  /\ submitting = "founding"
  /\ IF auth = None
       THEN NobodySignedIn /\ submitting' = "no" /\ UNCHANGED <<loading, error>>
       ELSE Resolve(auth, "refresh") /\ submitting' = "refreshing"
  /\ UNCHANGED <<auth, cloud, billing, page, leaving, bounds>>
  /\ Render

-----------------------------------------------------------------------------
(* The load of the subscription.  getCurrentSubscription answers for the   *)
(* user of the token, which need not be the user the tab shows.            *)

Refused == load.as = None \/ (load.as \notin Admins /\ profile[load.as] # None /\ load.as \notin member)

(* Mutant: an answer is taken whoever it is for. *)
AnyAnswer == ~Refused

Matches == ~Refused /\ profile[load.as] = load.for.org

LoadAnswers ==
  /\ load.sent /\ Matches
  /\ LET o == profile[load.as] IN subscription' = [org |-> o, active |-> o \in paid]
  /\ loadedUser' = load.for /\ subscriptionError' = FALSE
  /\ load' = NoLoad
  /\ UNCHANGED <<auth, cloud, session, calls, latest, page, leaving, submitting, observed, bounds>>
  /\ Mount

(* Mutant: the error is noted, the user it is for is not. *)
GivesUpForNobody(u) == subscriptionError' = TRUE /\ UNCHANGED <<subscription, loadedUser>>

(* The last attempt leaves the subscription as it was, with the error. *)
GivesUp(u) == subscriptionError' = TRUE /\ loadedUser' = u /\ UNCHANGED subscription

LoadFails ==
  /\ load.sent
  /\ IF Matches THEN Failure ELSE UNCHANGED bounds
  /\ IF load.attempt < Attempts
       THEN /\ load' = [load EXCEPT !.attempt = @ + 1, !.sent = FALSE]
            /\ UNCHANGED billing
       ELSE GivesUp(load.for) /\ load' = NoLoad
  /\ UNCHANGED <<auth, cloud, session, calls, latest, page, leaving, submitting, observed>>
  /\ Mount

LoadAgain ==
  /\ load # NoLoad /\ ~load.sent
  /\ load' = [load EXCEPT !.as = auth, !.sent = TRUE]
  /\ UNCHANGED <<auth, cloud, session, calls, latest, billing, page, leaving, submitting, data,
                 observed, bounds>>

(* DataProvider's read of the organization ends. *)
Fetch ==
  /\ fetching # None
  /\ fetching' = None
  /\ \/ organization' = fetching /\ UNCHANGED bounds
     \/ Failure /\ UNCHANGED organization
  /\ UNCHANGED <<auth, cloud, session, calls, latest, billing, load, page, leaving, submitting,
                 observed>>

-----------------------------------------------------------------------------
(* Where the guard of a page sends the tab.                                *)

SignedOut == user = NoUser /\ ~error

AppTarget ==
  IF onboarding THEN "onboarding"
  ELSE IF SignedOut THEN "login"
  ELSE IF user # NoUser /\ user.org = None THEN "platform"
  ELSE IF user # NoUser /\ ~IsAdmin(user) /\ ~SubscriptionLoading /\ ~HasAccess THEN "subscribe"
  ELSE "app"

LoginTarget ==
  IF onboarding /\ identity # None THEN "onboarding"
  ELSE IF user # NoUser THEN "app" ELSE "login"

OnboardingTarget ==
  IF user # NoUser THEN "app"
  ELSE IF identity = None \/ ~onboarding THEN "login" ELSE "onboarding"

(* Mutant: a user with an organization has no business here. *)
SubscribeTargetWithUser ==
  IF onboarding THEN "onboarding"
  ELSE IF SignedOut THEN "login"
  ELSE IF user # NoUser THEN "app" ELSE "subscribe"

SubscribeTarget ==
  IF onboarding THEN "onboarding"
  ELSE IF SignedOut THEN "login"
  ELSE IF user # NoUser /\ user.org = None THEN "platform"
  ELSE IF HasAccess THEN "app" ELSE "subscribe"

PlatformTarget ==
  IF onboarding THEN "onboarding"
  ELSE IF SignedOut THEN "login"
  ELSE IF IsAdmin(user) THEN "platform" ELSE "app"

Target ==
  CASE page = "app" -> AppTarget
    [] page = "login" -> LoginTarget
    [] page = "onboarding" -> OnboardingTarget
    [] page = "subscribe" -> SubscribeTarget
    [] page = "platform" -> PlatformTarget

Redirect ==
  /\ ~loading \/ (page = "subscribe" /\ HasAccess)
  /\ page' = Target /\ page' # page
  /\ UNCHANGED <<auth, cloud, session, calls, latest, billing, load, leaving, submitting,
                 observed, bounds>>
  /\ Mount

Navigate(p) ==
  /\ p # page
  /\ Change
  /\ page' = p
  /\ UNCHANGED <<auth, cloud, session, calls, latest, billing, load, leaving, submitting,
                 observed>>
  /\ Mount

(* A membership is withdrawn, an organization begins or stops to pay. *)
CloudChanges ==
  /\ Change
  /\ \/ \E u \in member : member' = member \ {u} /\ UNCHANGED paid
     \/ \E u \in Users : /\ profile[u] # None
                         /\ paid' = (paid \ {profile[u]}) \union ({profile[u]} \ paid)
                         /\ UNCHANGED member
  /\ UNCHANGED <<auth, profile, session, calls, latest, billing, load, page, leaving, submitting,
                 data, observed>>

-----------------------------------------------------------------------------
(* What goes on by itself. *)
Proceed ==
  \/ Restore \/ FoundReturns \/ LoadAgain \/ Fetch \/ Redirect \/ PushLogin
  \/ LoadAnswers \/ LoadFails
  \/ \E c \in calls : ReadProfile(c) \/ ReadMembership(c)

Next ==
  \/ Proceed \/ FoundIsLost \/ SignInFails \/ SignOut \/ RenewToken \/ CloudChanges
  \/ \E c \in calls : ReadFails(c)
  \/ \E u \in Users : SignIn(u)
  \/ \E o \in Orgs : Found(o)
  \/ \E p \in Pages : Navigate(p)

Spec == Init /\ [][Next]_vars

(* Requests end, with an answer or an error, and React runs its effects.   *)
FairSpec == Spec /\ WF_vars(Proceed)

-----------------------------------------------------------------------------
AppUsers == [nr : Nat, uid : Users \union {None}, org : Orgs \union {None}]

TypeOK ==
  /\ auth \in Users \union {None} /\ identity \in Users \union {None}
  /\ profile \in [Users -> Orgs \union {None}] /\ member \subseteq Users /\ paid \subseteq Orgs
  /\ user \in AppUsers /\ loadedUser \in AppUsers
  /\ onboarding \in BOOLEAN /\ loading \in BOOLEAN /\ error \in BOOLEAN
  /\ calls \subseteq [nr : Nat, by : {"listener", "refresh"}, uid : Users, org : Orgs \union {None}]
  /\ latest \in Nat
  /\ subscription \in [org : Orgs \union {None}, active : BOOLEAN]
  /\ subscriptionError \in BOOLEAN
  /\ load \in [for : AppUsers, attempt : 0..Attempts, as : Users \union {None}, sent : BOOLEAN]
  /\ page \in Pages /\ leaving \in BOOLEAN /\ submitting \in {"no", "founding", "refreshing"}
  /\ organization \in Orgs \union {None} /\ fetching \in Orgs \union {None}
  /\ missed \in BOOLEAN /\ lost \in BOOLEAN /\ changes \in Nat /\ failures \in Nat

(* The workspace is shown only to a user whose own organization has been   *)
(* found to have access (or to platform staff), and the organization in    *)
(* its header is that user's: no answer for an earlier user of the tab, or *)
(* for the account of the token while another user is shown, counts for    *)
(* it (subscription-provider.tsx, protected-app.tsx, data-provider.tsx).   *)
ShownIsConfirmed ==
  /\ Shown /\ ~IsAdmin(user) =>
       subscription = [org |-> user.org, active |-> TRUE]
  /\ organization # None => Shown /\ organization = user.org

(* When no call is under way, and the last one to end was also the last to *)
(* begin, the session is that of the account signed in: nobody, the user   *)
(* with the profile's organization, or onboarding for a user without one,  *)
(* however many calls overlapped and in whatever order the earlier ones    *)
(* ended (auth-provider.tsx; onboarding/page.tsx refreshes after the       *)
(* founding, unless its answer is lost).  A call that ends out of order    *)
(* leaves its user until the next token: that is the code, see the README. *)
QuietSessionIsRight ==
  latest > 0 /\ calls = {} /\ ~missed /\ ~lost /\ ~error /\ submitting = "no" =>
    \/ auth = None /\ user = NoUser /\ ~onboarding
    \/ auth # None /\ user.uid = auth /\ user.org = profile[auth]
    \/ auth # None /\ user = NoUser /\ onboarding /\ identity = auth /\ profile[auth] = None

(* The workspace does not wait for ever: it is shown, or an error is, or   *)
(* the tab is somewhere else, whatever loads were cut short by a new token *)
(* and whatever calls overlapped (protected-app.tsx).                      *)
Waiting == page = "app" /\ ~Shown /\ ~error /\ ~(Confirmed /\ subscriptionError)
WaitingEnds == Waiting ~> ~Waiting

(* The guards of the pages agree: once users and the server rest, the tab  *)
(* stops being sent from page to page.                                     *)
RoutesSettle == <>[][FALSE]_page
=============================================================================
