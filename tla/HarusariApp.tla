----------------------------- MODULE HarusariApp -----------------------------
(***************************************************************************)
(* The application: MainVC, SignInVC and SignUpVC, on the main queue, over   *)
(* Firebase Auth (accounts, sign-in, the signed-in user kept in the          *)
(* keychain) and over Firestore, of which it needs what UserWriteQueue       *)
(* promises.                                                                *)
(*                                                                         *)
(* The app's handlers, the auth notification and every completion run on     *)
(* the main queue, one at a time and, except for taps, in the order in which *)
(* they were dispatched (`main`).  Auth's requests are answered in any order *)
(* (`calls`).  A tap may come between any two tasks.                         *)
(*                                                                         *)
(* UIKit is external: a second present is ignored, and so is one by a screen *)
(* that is not in the window; dismiss takes away an alert before a screen.   *)
(* `ViewController()` in MainVC.swift is taken to be SignInVC.               *)
(***************************************************************************)
EXTENDS Naturals, Sequences

CONSTANTS
    Emails,      \* e-mail addresses; the account's uid is the address here
    NoUser,      \* nobody signed in
    MaxTaps,     \* bound: requests to Auth
    MaxScreens,  \* bound: sign-up screens opened
    MaxKills,    \* bound: deaths of the process
    MaxFaults,   \* bound: faults of the network and the keychain
    FaultKinds   \* which faults happen

ASSUME EmailsAssumption == NoUser \notin Emails
ASSUME AppBoundsAssumption ==
    /\ {MaxTaps, MaxScreens, MaxKills, MaxFaults} \subseteq Nat
    /\ FaultKinds \subseteq {"lost", "keychain"}

VARIABLES
    accounts,    \* Auth backend: addresses that have an account
    authUser,    \* FIRAuth._currentUser, and the user saved in the keychain
    calls,       \* requests to the Auth backend that are not answered
    main,        \* the main queue: tasks dispatched and not yet run
    loginShown,  \* navController is presented over MainVC
    signUp,      \* the SignUpVC on top of navController; 0: SignInVC is
    alert,       \* the alert on the sign-up screen: [kind, email]
    fsUser,      \* current_user of Firestore's credentials provider
    pending, live, committed, fate, count,   \* UserWriteQueue
    docs,        \* [1..count -> Doc]: the profile each write carries
    orphaned,    \* history: accounts whose sign-up a fault or a death cut off
    usedUp       \* [taps, screens, kills, faults]: the bounds used up

screens == <<loginShown, signUp, alert>>
store == <<fsUser, pending, live, committed, fate, count>>
authVars == <<accounts, authUser, calls>>
appVars == <<screens, store, authVars, main, docs, orphaned, usedUp>>

AppUsers == Emails \cup {NoUser}

\* Firestore, as WritePipeline implements it.
Store == INSTANCE UserWriteQueue WITH Users <- AppUsers, MaxWrites <- MaxTaps,
                                      user <- fsUser

-----------------------------------------------------------------------------
\* A task of the main queue.
Task(kind, email, vc, ok) ==
    [kind |-> kind, email |-> email, vc |-> vc, ok |-> ok]
PresentLoginTask == Task("presentLogin", NoUser, 0, TRUE)
AuthTask(u) == Task("authChanged", u, 0, TRUE)

NoAlert == [kind |-> "none", email |-> NoUser]

\* Variant: the notification is dispatched last.
UpdateCurrentUserLate(u, after) ==
    /\ authUser' = u
    /\ main' = Append(main \o after, AuthTask(u))

\* updateCurrentUser: the notification is dispatched to the main queue before
\* whatever the caller dispatches (`after`).
UpdateCurrentUser(u, after) ==
    /\ authUser' = u
    /\ main' = Append(main, AuthTask(u)) \o after

\* SignUpVC's present: only from the screen on top, and over nothing else.
PresentAlert(kind, t) ==
    alert' = IF loginShown /\ signUp = t.vc /\ alert = NoAlert
             THEN [kind |-> kind, email |-> t.email]
             ELSE alert

Spend(what) == usedUp' = [usedUp EXCEPT ![what] = @ + 1]
Fault(kind) ==
    /\ kind \in FaultKinds
    /\ usedUp.faults < MaxFaults
    /\ Spend("faults")

-----------------------------------------------------------------------------
(* Taps                                                                    *)

OnSignIn == loginShown /\ signUp = 0 /\ alert = NoAlert
OnSignUp == loginShown /\ signUp # 0 /\ alert = NoAlert

Request(kind, vc) ==
    /\ usedUp.taps < MaxTaps
    /\ Spend("taps")
    /\ \E e \in Emails :
         calls' = calls \cup {[id |-> usedUp.taps, kind |-> kind, email |-> e,
                               vc |-> vc, done |-> FALSE]}

\* tapLoginBT; nothing disables the button while a request is under way.
TapLogin ==
    /\ OnSignIn
    /\ Request("signIn", 0)
    /\ UNCHANGED <<accounts, authUser, main, screens, store, docs, orphaned>>

\* signUpBtTap and signUp up to createUser.
TapCreate ==
    /\ OnSignUp
    /\ Request("signUp", signUp)
    /\ UNCHANGED <<accounts, authUser, main, screens, store, docs, orphaned>>

\* tapSignUpBT pushes a new SignUpVC.
TapSignUp ==
    /\ OnSignIn
    /\ usedUp.screens < MaxScreens
    /\ Spend("screens")
    /\ signUp' = usedUp.screens + 1
    /\ UNCHANGED <<loginShown, alert, store, authVars, main, docs, orphaned>>

\* The navigation bar's back button.
TapBack ==
    /\ OnSignUp
    /\ signUp' = 0
    /\ UNCHANGED <<loginShown, alert, store, authVars, main, docs, orphaned,
                   usedUp>>

\* An alert's button; the OK of the success alert is backToLogin.
TapAlert ==
    /\ alert # NoAlert
    /\ alert' = NoAlert
    /\ signUp' \in IF alert.kind = "success" THEN {signUp, 0} ELSE {signUp}
    /\ UNCHANGED <<loginShown, store, authVars, main, docs, orphaned,
                   usedUp>>

\* didTapLogout: the error of signOut is dropped, the login screen comes up.
TapLogout ==
    /\ ~loginShown
    /\ loginShown' = TRUE
    /\ \/ /\ authUser # NoUser
          /\ UpdateCurrentUser(NoUser, <<>>)
          /\ UNCHANGED usedUp
       \/ /\ authUser = NoUser
          /\ UNCHANGED <<authUser, main, usedUp>>
       \/ /\ authUser # NoUser
          /\ Fault("keychain")
          /\ UNCHANGED <<authUser, main>>
    /\ UNCHANGED <<signUp, alert, store, accounts, calls, docs, orphaned>>

-----------------------------------------------------------------------------
(* Firebase Auth and its backend                                           *)

\* The backend creates the account; the client does not know yet.
BackendCreates ==
    \E c \in calls :
      /\ c.kind = "signUp" /\ ~c.done /\ c.email \notin accounts
      /\ accounts' = accounts \cup {c.email}
      /\ calls' = (calls \ {c}) \cup {[c EXCEPT !.done = TRUE]}
      /\ UNCHANGED <<authUser, main, screens, store, docs, orphaned, usedUp>>

\* Variant: the completion reads the current user instead of its result.
DoneForCurrentUser(c, ok) ==
    <<Task(IF c.kind = "signIn" THEN "signInDone" ELSE "signUpDone",
           authUser, c.vc, ok)>>

\* Variant: a sign-up completes only while its screen is on top.
DoneOnScreen(c, ok) ==
    IF c.kind = "signUp" /\ signUp # c.vc THEN <<>>
    ELSE <<Task(IF c.kind = "signIn" THEN "signInDone" ELSE "signUpDone",
                c.email, c.vc, ok)>>

\* The completion a request was given, with its outcome.
Done(c, ok) == <<Task(IF c.kind = "signIn" THEN "signInDone" ELSE "signUpDone",
                      c.email, c.vc, ok)>>

\* The backend has said yes.
Accepted(c) == c.done \/ (c.kind = "signIn" /\ c.email \in accounts)

\* signInFlowAuthDataResultCallbackByDecoratingCallback with a user: make it
\* the current one, then dispatch the completion.
AuthSucceeds ==
    \E c \in calls :
      /\ Accepted(c)
      /\ UpdateCurrentUser(c.email, Done(c, TRUE))
      /\ calls' = calls \ {c}
      /\ UNCHANGED <<accounts, screens, store, docs, orphaned, usedUp>>

\* The same with an error: the backend's, the network's at any point, or the
\* keychain's, which leaves the current user as it was.
AuthFails ==
    \E c \in calls :
      /\ \/ /\ ~c.done
            /\ c.kind = "signUp" => c.email \in accounts
            /\ UNCHANGED usedUp
         \/ Fault("lost")
         \/ /\ Accepted(c)
            /\ Fault("keychain")
      /\ main' = main \o Done(c, FALSE)
      /\ calls' = calls \ {c}
      /\ orphaned' = IF c.done THEN orphaned \cup {c.email} ELSE orphaned
      /\ UNCHANGED <<accounts, authUser, screens, store, docs>>

-----------------------------------------------------------------------------
(* The main queue                                                          *)

Runs(kind) == main # <<>> /\ Head(main).kind = kind

\* The block of checkIfUserLoggedIn.
PresentLogin ==
    /\ Runs("presentLogin")
    /\ main' = Tail(main)
    /\ loginShown' = TRUE
    /\ UNCHANGED <<signUp, alert, store, authVars, docs, orphaned,
                   usedUp>>

\* The credentials provider's listener.
AuthChanged ==
    /\ Runs("authChanged")
    /\ main' = Tail(main)
    /\ Store!SwitchUser
    /\ fsUser' = Head(main).email
    /\ UNCHANGED <<screens, authVars, docs, orphaned, usedUp>>

\* The completion of signIn: dismiss, unless it failed.
SignInDone ==
    /\ Runs("signInDone")
    /\ main' = Tail(main)
    /\ alert' = IF Head(main).ok THEN NoAlert ELSE alert
    /\ loginShown' = (loginShown /\ (Head(main).ok => (alert # NoAlert)))
    /\ UNCHANGED <<signUp, store, authVars, docs, orphaned, usedUp>>

\* The completion of createUser: save the profile, whether or not the screen is
\* still there, or show the failure alert.
SignUpDone ==
    /\ Runs("signUpDone")
    /\ main' = Tail(main)
    /\ LET t == Head(main)
       IN  \/ /\ t.ok
              /\ Store!Submit
              /\ docs' = Append(docs, [email |-> t.email, vc |-> t.vc])
              /\ UNCHANGED alert
           \/ /\ ~t.ok
              /\ PresentAlert("failure", t)
              /\ UNCHANGED <<store, docs>>
    /\ UNCHANGED <<loginShown, signUp, authVars, orphaned, usedUp>>

\* Variant: the error of setData is not looked at.
ProfileSavedAnyway ==
    /\ Runs("saved")
    /\ main' = Tail(main)
    /\ PresentAlert("success", Head(main))
    /\ UNCHANGED <<loginShown, signUp, store, authVars, docs, orphaned,
                   usedUp>>

\* The completion of setData.
ProfileSaved ==
    /\ Runs("saved")
    /\ main' = Tail(main)
    /\ PresentAlert(IF Head(main).ok THEN "success" ELSE "failure", Head(main))
    /\ UNCHANGED <<loginShown, signUp, store, authVars, docs, orphaned,
                   usedUp>>

-----------------------------------------------------------------------------
(* Firestore                                                               *)

\* Firestore settles the oldest profile of its user and dispatches the
\* completion, if this process still holds it.
ProfileSettles ==
    /\ Store!Settle
    /\ LET w == Head(pending[fsUser])
       IN  main' = IF w \in live
                   THEN Append(main, Task("saved", docs[w].email, docs[w].vc,
                                          fate'[w] = "acked"))
                   ELSE main
    /\ UNCHANGED <<screens, authVars, docs, orphaned, usedUp>>

ProfileExecutes ==
    /\ Store!Execute
    /\ UNCHANGED <<screens, authVars, main, docs, orphaned, usedUp>>

-----------------------------------------------------------------------------
(* Launch                                                                  *)

\* Variant: the listener is not told the user it starts with.
LaunchTasksUntold(u) == IF u = NoUser THEN <<PresentLoginTask>> ELSE <<>>

\* didFinishLaunchingWithOptions: Auth loads the user from the keychain, and
\* checkIfUserLoggedIn waits for it; Firestore's credentials provider does not
\* wait, but its listener will be told.
LaunchTasks(u) == IF u = NoUser THEN <<PresentLoginTask>> ELSE <<AuthTask(u)>>

\* The process dies; requests on their way may still reach the backend.
Kill ==
    /\ usedUp.kills < MaxKills
    /\ Spend("kills")
    /\ \E made \in SUBSET {c \in calls : c.kind = "signUp" /\ ~c.done} :
         /\ accounts' = accounts \cup {c.email : c \in made}
         /\ orphaned' = orphaned
              \cup ({c.email : c \in made} \ accounts)
              \cup {c.email : c \in {d \in calls : d.done}}
              \cup {main[i].email : i \in {j \in DOMAIN main :
                      main[j].kind = "signUpDone" /\ main[j].ok}}
    /\ Store!Die
    /\ fsUser' \in {authUser, NoUser}
    /\ calls' = {}
    /\ main' = LaunchTasks(authUser)
    /\ loginShown' = FALSE
    /\ signUp' = 0
    /\ alert' = NoAlert
    /\ UNCHANGED <<authUser, docs>>

AppInit ==
    /\ Store!UwqInit
    /\ fsUser = NoUser
    /\ accounts = {}
    /\ authUser = NoUser
    /\ calls = {}
    /\ main = LaunchTasks(NoUser)
    /\ loginShown = FALSE
    /\ signUp = 0
    /\ alert = NoAlert
    /\ docs = <<>>
    /\ orphaned = {}
    /\ usedUp = [taps |-> 0, screens |-> 0, kills |-> 0, faults |-> 0]

Tap == TapLogin \/ TapCreate \/ TapSignUp \/ TapBack \/ TapAlert \/ TapLogout
AuthStep == BackendCreates \/ AuthSucceeds \/ AuthFails
MainTask == PresentLogin \/ AuthChanged \/ SignInDone \/ SignUpDone
            \/ ProfileSaved
StoreStep == ProfileSettles \/ ProfileExecutes

AppNext == Tap \/ AuthStep \/ MainTask \/ StoreStep \/ Kill

AppSpec == AppInit /\ [][AppNext]_appVars
-----------------------------------------------------------------------------
(* Properties                                                              *)

CallType == [id : Nat, kind : {"signIn", "signUp"}, email : Emails, vc : Nat,
             done : BOOLEAN]
TaskType ==
    [kind : {"presentLogin", "authChanged"}, email : AppUsers, vc : Nat,
     ok : BOOLEAN]
    \cup [kind : {"signInDone", "signUpDone", "saved"}, email : Emails, vc : Nat,
          ok : BOOLEAN]

\* Every variable of the application keeps its type.
AppTypeOK ==
    /\ accounts \in SUBSET Emails
    /\ authUser \in AppUsers
    /\ calls \in SUBSET CallType
    /\ main \in Seq(TaskType)
    /\ loginShown \in BOOLEAN
    /\ signUp \in Nat
    /\ alert \in [kind : {"none", "failure", "success"}, email : AppUsers]
    /\ fsUser \in AppUsers
    /\ pending \in [AppUsers -> Seq(1..MaxTaps)]
    /\ live \in SUBSET (1..MaxTaps)
    /\ committed \in SUBSET (1..MaxTaps)
    /\ fate \in [1..MaxTaps -> {"none", "acked", "rejected"}]
    /\ count \in 0..MaxTaps
    /\ docs \in Seq([email : Emails, vc : Nat])
    /\ Len(docs) = count
    /\ orphaned \in SUBSET Emails
    /\ usedUp \in [taps : Nat, screens : Nat, kills : Nat, faults : Nat]

\* A profile is only ever written by its owner: whatever sign-ins, sign-outs and
\* sign-ups overlap, setData runs while Firestore's user is the new account,
\* because Auth dispatches its notification ahead of the completion.
ProfileInOwnersQueue ==
    \A u \in AppUsers : \A i \in DOMAIN pending[u] :
        docs[pending[u][i]].email = u

\* Firestore's user is the signed-in user as soon as every notification has been
\* run, also after a launch at which Firestore was ahead of the keychain.
FirestoreFollowsAuth ==
    (\A i \in DOMAIN main : main[i].kind # "authChanged") => fsUser = authUser

\* The success alert is never shown for a profile the backend does not have.
SuccessAlertMeansSaved ==
    alert.kind = "success" =>
        \E w \in committed : docs[w].email = alert.email

\* Every account made by the app gets its profile, even when its sign-up screen
\* has gone; only a fault or a death of the process between the two steps of a
\* sign-up leaves an account without one.
AccountsHaveProfiles ==
    \A e \in accounts \ orphaned :
        \/ \E w \in DOMAIN docs : docs[w].email = e
        \/ \E c \in calls : c.done /\ c.email = e
        \/ \E i \in DOMAIN main :
             main[i].kind = "signUpDone" /\ main[i].ok /\ main[i].email = e
=============================================================================
