-------------------------- MODULE HarusariAppProofs --------------------------
(***************************************************************************)
(* Theorems about HarusariApp, for every set of e-mail addresses and every   *)
(* value of the bounds.                                                     *)
(***************************************************************************)
EXTENDS HarusariApp, SequenceTheorems, TLAPS

Doc == [email : Emails, vc : Nat]
UsedUpType == [taps : Nat, screens : Nat, kills : Nat, faults : Nat]

\* Every pending write of a user carries that user's profile.
OwnersQueue ==
    \A u \in AppUsers : \A i \in DOMAIN pending[u] :
        pending[u][i] \in 1..count /\ docs[pending[u][i]].email = u

\* The completion of a successful sign-up is directly preceded by the
\* notification of its user, or that notification has been run last.
NotificationFirst ==
    \A i \in 1..Len(main) :
        main[i].kind = "signUpDone" /\ main[i].ok =>
            IF i = 1 THEN fsUser = main[1].email
                     ELSE /\ main[i - 1].kind = "authChanged"
                          /\ main[i - 1].email = main[i].email

AppIInv == AppTypeOK /\ OwnersQueue /\ NotificationFirst

-----------------------------------------------------------------------------
(* Lemmas about the main queue                                             *)

\* The tasks that Auth dispatches are tasks, and so are the others.
LEMMA TaskTypes ==
    /\ PresentLoginTask \in TaskType
    /\ \A u \in AppUsers : AuthTask(u) \in TaskType
    /\ \A c \in CallType, ok \in BOOLEAN : Done(c, ok) \in Seq(TaskType)
    /\ \A e \in Emails, vc \in Nat, ok \in BOOLEAN :
         Task("saved", e, vc, ok) \in TaskType
PROOF
<1>1. PresentLoginTask \in TaskType
  BY DEF PresentLoginTask, Task, TaskType, AppUsers
<1>2. \A u \in AppUsers : AuthTask(u) \in TaskType
  BY DEF AuthTask, Task, TaskType
<1>3. ASSUME NEW c \in CallType, NEW ok \in BOOLEAN
      PROVE  Done(c, ok) \in Seq(TaskType)
  <2>1. Task(IF c.kind = "signIn" THEN "signInDone" ELSE "signUpDone",
             c.email, c.vc, ok) \in TaskType
    BY DEF Task, TaskType, CallType, AppUsers
  <2> QED
    BY <2>1 DEF Done
<1>4. \A e \in Emails, vc \in Nat, ok \in BOOLEAN :
        Task("saved", e, vc, ok) \in TaskType
  BY DEF Task, TaskType
<1> QED
  BY <1>1, <1>2, <1>3, <1>4

\* The bounds used up.
LEMMA SpendType ==
    ASSUME AppTypeOK, NEW what \in {"taps", "screens", "kills", "faults"},
           Spend(what)
    PROVE  usedUp' \in UsedUpType
PROOF
<1>1. usedUp \in UsedUpType
  BY DEF AppTypeOK, UsedUpType
<1>2. usedUp[what] \in Nat
  BY <1>1 DEF UsedUpType
<1>3. usedUp[what] + 1 \in Nat
  BY <1>2
<1> QED
  BY <1>1, <1>3 DEF Spend, UsedUpType

\* After updateCurrentUser the main queue is longer by the notification and
\* whatever was dispatched next.
LEMMA UpdateCurrentUserType ==
    ASSUME AppTypeOK, NEW u \in AppUsers, NEW after \in Seq(TaskType),
           UpdateCurrentUser(u, after)
    PROVE  authUser' \in AppUsers /\ main' \in Seq(TaskType)
PROOF
<1>1. Append(main, AuthTask(u)) \in Seq(TaskType)
  BY TaskTypes, AppendProperties DEF AppTypeOK
<1>2. Append(main, AuthTask(u)) \o after \in Seq(TaskType)
  BY <1>1, ConcatProperties
<1> QED
  BY <1>2 DEF UpdateCurrentUser

\* The backend only executes writes.
LEMMA ExecutesType ==
    ASSUME AppTypeOK, Store!BackendExecutes
    PROVE  committed' \in SUBSET (1..MaxTaps)
PROOF
<1>1. pending[fsUser] \in Seq(1..MaxTaps)
  BY DEF AppTypeOK
<1>2. \A i \in DOMAIN pending[fsUser] : pending[fsUser][i] \in 1..MaxTaps
  <2>1. DOMAIN pending[fsUser] = 1..Len(pending[fsUser])
    BY <1>1, LenProperties
  <2> QED
    BY <2>1, <1>1, ElementOfSeq
<1>3. {pending[fsUser][i] : i \in DOMAIN pending[fsUser]} \subseteq 1..MaxTaps
  BY <1>2
<1>4. PICK W \in SUBSET {pending[fsUser][i] : i \in DOMAIN pending[fsUser]} :
        committed' = committed \cup W
  BY DEF Store!BackendExecutes
<1>5. W \subseteq 1..MaxTaps /\ committed \subseteq 1..MaxTaps
  BY <1>3, <1>4 DEF AppTypeOK
<1> QED
  BY <1>4, <1>5

\* The first task, and the main queue without it.
LEMMA FirstTask ==
    ASSUME AppTypeOK, main # <<>>
    PROVE  /\ Head(main) \in TaskType
           /\ Head(main) = main[1]
           /\ Tail(main) \in Seq(TaskType)
           /\ Len(main) \in Nat \ {0}
           /\ Len(Tail(main)) = Len(main) - 1
           /\ \A i \in 1..Len(main) - 1 : Tail(main)[i] = main[i + 1]
PROOF
<1>1. main \in Seq(TaskType)
  BY DEF AppTypeOK
<1>2. /\ Head(main) \in TaskType /\ Tail(main) \in Seq(TaskType)
      /\ Len(Tail(main)) = Len(main) - 1
      /\ \A i \in 1..Len(Tail(main)) : Tail(main)[i] = main[i + 1]
  BY <1>1, HeadTailProperties
<1>3. Len(main) \in Nat \ {0}
  BY <1>1, EmptySeq
<1>4. Head(main) = main[1]
  BY <1>1
<1> QED
  BY <1>2, <1>3, <1>4

-----------------------------------------------------------------------------
(* Type correctness                                                        *)

\* The initial states.
LEMMA AppInitType == AppInit => AppTypeOK
PROOF
<1> SUFFICES ASSUME AppInit PROVE AppTypeOK
  OBVIOUS
<1>1. /\ <<>> \in Seq(1..MaxTaps) /\ <<>> \in Seq(Doc)
      /\ Len(<<>>) = 0
  BY EmptySeq
<1>2. main \in Seq(TaskType)
  BY TaskTypes DEF AppInit, LaunchTasks
<1>3. 0 \in 0..MaxTaps
  BY AppBoundsAssumption
<1> QED
  BY <1>1, <1>2, <1>3
     DEF AppInit, AppTypeOK, Store!UwqInit, NoAlert, AppUsers, Doc

\* Taps.
LEMMA TapsKeepType == AppTypeOK /\ Tap => AppTypeOK'
PROOF
<1> SUFFICES ASSUME AppTypeOK, Tap PROVE AppTypeOK'
  OBVIOUS
<1>1. usedUp \in UsedUpType
  BY DEF AppTypeOK, UsedUpType
<1>2. CASE TapLogin \/ TapCreate
  <2>1. PICK kind \in {"signIn", "signUp"}, vc \in Nat : Request(kind, vc)
    BY <1>2 DEF TapLogin, TapCreate, AppTypeOK
  <2>2. PICK e \in Emails :
          calls' = calls \cup {[id |-> usedUp.taps, kind |-> kind, email |-> e,
                                vc |-> vc, done |-> FALSE]}
    BY <2>1 DEF Request
  <2>3. usedUp' \in UsedUpType
    BY <2>1, SpendType DEF Request
  <2>4. calls' \in SUBSET CallType
    <3>1. usedUp.taps \in Nat
      BY <1>1 DEF UsedUpType
    <3>2. [id |-> usedUp.taps, kind |-> kind, email |-> e, vc |-> vc,
           done |-> FALSE] \in CallType
      BY <3>1 DEF CallType
    <3> QED
      BY <2>2, <3>2 DEF AppTypeOK
  <2> QED
    BY <1>2, <2>3, <2>4
       DEF TapLogin, TapCreate, AppTypeOK, screens, store, UsedUpType
<1>3. CASE TapSignUp
  <2>1. usedUp' \in UsedUpType
    BY <1>3, SpendType DEF TapSignUp
  <2>2. signUp' \in Nat
    <3>1. usedUp.screens \in Nat
      BY <1>1 DEF UsedUpType
    <3> QED
      BY <1>3, <3>1 DEF TapSignUp
  <2> QED
    BY <1>3, <2>1, <2>2
       DEF TapSignUp, AppTypeOK, store, authVars, UsedUpType
<1>4. CASE TapBack \/ TapAlert
  <2>1. signUp' \in Nat /\ UNCHANGED <<loginShown, store, authVars, main, docs,
                                       orphaned, usedUp>>
    BY <1>4 DEF TapBack, TapAlert, AppTypeOK
  <2>2. alert' \in [kind : {"none", "failure", "success"}, email : AppUsers]
    BY <1>4 DEF TapBack, TapAlert, AppTypeOK, NoAlert, AppUsers
  <2> QED
    BY <2>1, <2>2 DEF AppTypeOK, store, authVars
<1>5. CASE TapLogout
  <2>1. /\ loginShown' = TRUE
        /\ UNCHANGED <<signUp, alert, store, accounts, calls, docs, orphaned>>
    BY <1>5 DEF TapLogout
  <2>2. /\ authUser' \in AppUsers /\ main' \in Seq(TaskType)
        /\ usedUp' \in UsedUpType
    <3>1. CASE UpdateCurrentUser(NoUser, <<>>) /\ UNCHANGED usedUp
      <4>1. NoUser \in AppUsers /\ <<>> \in Seq(TaskType)
        BY EmptySeq DEF AppUsers
      <4> QED
        BY <3>1, <4>1, <1>1, UpdateCurrentUserType
    <3>2. CASE UNCHANGED <<authUser, main>> /\ (UNCHANGED usedUp \/ Fault("keychain"))
      BY <3>2, <1>1, SpendType DEF Fault, AppTypeOK
    <3> QED
      BY <3>1, <3>2, <1>5 DEF TapLogout
  <2> QED
    BY <2>1, <2>2 DEF AppTypeOK, store, UsedUpType
<1> QED
  BY <1>2, <1>3, <1>4, <1>5 DEF Tap

\* Firebase Auth and its backend.
LEMMA AuthKeepsType == AppTypeOK /\ AuthStep => AppTypeOK'
PROOF
<1> SUFFICES ASSUME AppTypeOK, AuthStep PROVE AppTypeOK'
  OBVIOUS
<1>1. CASE BackendCreates
  <2>1. PICK c \in calls :
          /\ accounts' = accounts \cup {c.email}
          /\ calls' = (calls \ {c}) \cup {[c EXCEPT !.done = TRUE]}
          /\ UNCHANGED <<authUser, main, screens, store, docs, orphaned, usedUp>>
    BY <1>1 DEF BackendCreates
  <2>2. c \in CallType
    BY DEF AppTypeOK
  <2>3. /\ c.email \in Emails /\ c.vc \in Nat
        /\ [c EXCEPT !.done = TRUE] \in CallType
    BY <2>2 DEF CallType
  <2>4. [vc |-> c.vc, email |-> c.email] \in [vc : Nat, email : Emails]
    BY <2>3
  <2>5. /\ accounts' \in SUBSET Emails
        /\ calls' \in SUBSET CallType
    BY <2>1, <2>3, <2>4, ZenonT(40) DEF AppTypeOK
  <2> QED
    BY <2>1, <2>5 DEF AppTypeOK, screens, store
<1>2. CASE AuthSucceeds
  <2>1. PICK c \in calls :
          /\ UpdateCurrentUser(c.email, Done(c, TRUE))
          /\ calls' = calls \ {c}
          /\ UNCHANGED <<accounts, screens, store, docs, orphaned,
                         usedUp>>
    BY <1>2 DEF AuthSucceeds
  <2>2. c \in CallType
    BY DEF AppTypeOK
  <2>3. c.email \in AppUsers /\ Done(c, TRUE) \in Seq(TaskType)
    BY <2>2, TaskTypes DEF CallType, AppUsers
  <2>4. authUser' \in AppUsers /\ main' \in Seq(TaskType)
    BY <2>1, <2>3, UpdateCurrentUserType
  <2> QED
    BY <2>1, <2>4 DEF AppTypeOK, screens, store
<1>3. CASE AuthFails
  <2>1. PICK c \in calls :
          /\ UNCHANGED usedUp \/ Fault("lost") \/ Fault("keychain")
          /\ main' = main \o Done(c, FALSE)
          /\ calls' = calls \ {c}
          /\ orphaned' = IF c.done THEN orphaned \cup {c.email} ELSE orphaned
          /\ UNCHANGED <<accounts, authUser, screens, store, docs>>
    BY <1>3 DEF AuthFails
  <2>2. c \in CallType
    BY DEF AppTypeOK
  <2>3. c.email \in Emails /\ Done(c, FALSE) \in Seq(TaskType)
    BY <2>2, TaskTypes DEF CallType
  <2>4. main' \in Seq(TaskType)
    BY <2>1, <2>3, ConcatProperties DEF AppTypeOK
  <2>5. usedUp' \in UsedUpType
    BY <2>1, SpendType DEF Fault, AppTypeOK, UsedUpType
  <2> QED
    BY <2>1, <2>3, <2>4, <2>5 DEF AppTypeOK, screens, store, UsedUpType
<1> QED
  BY <1>1, <1>2, <1>3 DEF AuthStep

\* The tasks of the main queue.
LEMMA MainTasksKeepType == AppTypeOK /\ MainTask => AppTypeOK'
PROOF
<1> SUFFICES ASSUME AppTypeOK, MainTask PROVE AppTypeOK'
  OBVIOUS
<1>1. main # <<>> /\ main' = Tail(main)
  BY DEF MainTask, PresentLogin, AuthChanged, SignInDone, SignUpDone, ProfileSaved,
         Runs
<1>2. /\ main' \in Seq(TaskType)
      /\ Head(main) \in TaskType
      /\ Head(main).email \in AppUsers
  BY <1>1, FirstTask DEF TaskType, AppUsers
<1>3. ASSUME NEW kind \in {"failure", "success"}, PresentAlert(kind, Head(main))
      PROVE  alert' \in [kind : {"none", "failure", "success"}, email : AppUsers]
  BY <1>2, <1>3 DEF PresentAlert, AppTypeOK
<1>4. CASE PresentLogin
  BY <1>2, <1>4 DEF PresentLogin, AppTypeOK, store, authVars
<1>5. CASE AuthChanged
  <2>1. committed' \in SUBSET (1..MaxTaps)
    BY <1>5, ExecutesType DEF AuthChanged, Store!SwitchUser
  <2> QED
    BY <2>1, <1>2, <1>5 DEF AuthChanged, Store!SwitchUser, AppTypeOK, screens,
                            authVars
<1>6. CASE SignInDone
  BY <1>2, <1>6 DEF SignInDone, AppTypeOK, NoAlert, AppUsers, store, authVars
<1>7. CASE SignUpDone
  <2> DEFINE doc == [email |-> Head(main).email, vc |-> Head(main).vc]
  <2>1. CASE /\ Store!Submit
             /\ docs' = Append(docs, doc)
             /\ UNCHANGED <<alert, loginShown, signUp, authVars, orphaned,
                            usedUp>>
    <3>1. doc \in Doc
      BY <1>2, <1>7 DEF SignUpDone, Runs, TaskType, Doc
    <3>2. docs \in Seq(Doc) /\ Len(docs) = count /\ count \in Nat
      BY DEF AppTypeOK, Doc
    <3> HIDE DEF doc
    <3>3. docs' \in Seq(Doc) /\ Len(docs') = count + 1
      <4>1. docs' = Append(docs, doc)
        BY <2>1
      <4> QED
        BY ONLY <3>1, <3>2, <4>1, AppendProperties
    <3>4. /\ count + 1 \in 1..MaxTaps /\ count' = count + 1
          /\ fsUser \in AppUsers /\ pending[fsUser] \in Seq(1..MaxTaps)
      <4>1. count < MaxTaps /\ count' = count + 1
        BY <2>1 DEF Store!Submit
      <4>2. fsUser \in AppUsers /\ pending[fsUser] \in Seq(1..MaxTaps)
        BY DEF AppTypeOK
      <4> QED
        BY ONLY <3>2, <4>1, <4>2, AppBoundsAssumption
    <3>5. Append(pending[fsUser], count + 1) \in Seq(1..MaxTaps)
      BY <3>4, AppendProperties
    <3>6. pending' \in [AppUsers -> Seq(1..MaxTaps)]
      BY <2>1, <3>5 DEF Store!Submit, AppTypeOK
    <3>7. /\ live' = live \cup {count + 1}
          /\ UNCHANGED <<fsUser, committed, fate>>
      BY <2>1 DEF Store!Submit
    <3>8. count' \in 0..MaxTaps
      BY <3>4
    <3> QED
      BY <2>1, <3>3, <3>4, <3>6, <3>7, <3>8, <1>2 DEF AppTypeOK, authVars, Doc
  <2>2. CASE /\ PresentAlert("failure", Head(main))
             /\ UNCHANGED <<store, docs, loginShown, signUp, authVars, orphaned,
                            usedUp>>
    BY <2>2, <1>2, <1>3 DEF AppTypeOK, store, authVars
  <2> QED
    BY <2>1, <2>2, <1>7 DEF SignUpDone, Runs
<1>8. CASE ProfileSaved
  BY <1>2, <1>3, <1>8 DEF ProfileSaved, AppTypeOK, store, authVars
<1> QED
  BY <1>4, <1>5, <1>6, <1>7, <1>8 DEF MainTask

\* What Firestore does on its own.
LEMMA StoreKeepsType == AppTypeOK /\ OwnersQueue /\ StoreStep => AppTypeOK'
PROOF
<1> SUFFICES ASSUME AppTypeOK, OwnersQueue, StoreStep PROVE AppTypeOK'
  OBVIOUS
<1>1. CASE ProfileSettles
  <2> DEFINE w == Head(pending[fsUser])
  <2>1. /\ pending[fsUser] # <<>>
        /\ pending' = [pending EXCEPT ![fsUser] = Tail(@)]
        /\ \/ fate' = fate
           \/ \E result \in {"acked", "rejected"} :
                fate' = [fate EXCEPT ![w] = result]
        /\ live' = live \ {w}
        /\ Store!BackendExecutes
        /\ UNCHANGED <<fsUser, count>>
    BY <1>1 DEF ProfileSettles, Store!Settle, Store!Tell
  <2>2. pending[fsUser] \in Seq(1..MaxTaps) /\ fsUser \in AppUsers
    BY DEF AppTypeOK
  <2>3. w \in 1..MaxTaps /\ Tail(pending[fsUser]) \in Seq(1..MaxTaps)
    BY <2>1, <2>2, HeadTailProperties
  <2>4. pending' \in [AppUsers -> Seq(1..MaxTaps)]
    BY <2>1, <2>3 DEF AppTypeOK
  <2>5. main' \in Seq(TaskType)
    <3>1. CASE main' = main
      BY <3>1 DEF AppTypeOK
    <3>2. CASE main' = Append(main, Task("saved", docs[w].email, docs[w].vc,
                                         fate'[w] = "acked"))
      <4>1. w = pending[fsUser][1] /\ 1 \in DOMAIN pending[fsUser]
        BY <2>1, <2>2, EmptySeq, LenProperties
      <4>2. w \in 1..Len(docs) /\ docs \in Seq(Doc)
        BY <4>1, <2>2 DEF OwnersQueue, AppTypeOK, Doc
      <4> HIDE DEF w
      <4>3. docs[w] \in Doc
        BY <4>2, ElementOfSeq
      <4>4. docs[w].email \in Emails /\ docs[w].vc \in Nat
        BY <4>3 DEF Doc
      <4>5. \A ok \in BOOLEAN :
              Task("saved", docs[w].email, docs[w].vc, ok) \in TaskType
        BY <4>4, TaskTypes
      <4>6. Task("saved", docs[w].email, docs[w].vc, fate'[w] = "acked") \in TaskType
        BY <4>5
      <4>7. main \in Seq(TaskType)
        BY DEF AppTypeOK
      <4> QED
        BY <3>2, <4>6, <4>7, AppendProperties
    <3> QED
      BY <3>1, <3>2, <1>1 DEF ProfileSettles
  <2>6. /\ committed' \in SUBSET (1..MaxTaps)
        /\ fate' \in [1..MaxTaps -> {"none", "acked", "rejected"}]
        /\ live' \in SUBSET (1..MaxTaps)
    BY <2>1, <2>3, ExecutesType DEF AppTypeOK
  <2> HIDE DEF w
  <2> QED
    BY <2>1, <2>4, <2>5, <2>6, <1>1
       DEF ProfileSettles, AppTypeOK, screens, authVars
<1>2. CASE ProfileExecutes
  <2>1. committed' \in SUBSET (1..MaxTaps)
    BY <1>2, ExecutesType DEF ProfileExecutes, Store!Execute
  <2> QED
    BY <2>1, <1>2 DEF ProfileExecutes, Store!Execute, AppTypeOK, screens, authVars
<1> QED
  BY <1>1, <1>2 DEF StoreStep

\* A death and the next launch.
LEMMA KillKeepsType == AppTypeOK /\ Kill => AppTypeOK'
PROOF
<1> SUFFICES ASSUME AppTypeOK, Kill PROVE AppTypeOK'
  OBVIOUS
<1>1. usedUp' \in UsedUpType
  BY SpendType DEF Kill
<1>2. accounts' \in SUBSET Emails /\ orphaned' \in SUBSET Emails
  <2>1. PICK made \in SUBSET {c \in calls : c.kind = "signUp" /\ ~c.done} :
          /\ accounts' = accounts \cup {c.email : c \in made}
          /\ orphaned' = orphaned
               \cup ({c.email : c \in made} \ accounts)
               \cup {c.email : c \in {d \in calls : d.done}}
               \cup {main[i].email : i \in {j \in DOMAIN main :
                       main[j].kind = "signUpDone" /\ main[j].ok}}
    BY DEF Kill
  <2>2. \A c \in calls : c.email \in Emails
    BY DEF AppTypeOK, CallType
  <2>3. \A i \in DOMAIN main : main[i].kind = "signUpDone" => main[i].email \in Emails
    <3>1. \A i \in DOMAIN main : main[i] \in TaskType
      BY LenProperties, ElementOfSeq DEF AppTypeOK
    <3> QED
      BY <3>1 DEF TaskType
  <2> QED
    BY <2>1, <2>2, <2>3 DEF AppTypeOK
<1>3. committed' \in SUBSET (1..MaxTaps)
  BY ExecutesType DEF Kill, Store!Die
<1>4. main' \in Seq(TaskType)
  BY TaskTypes DEF Kill, LaunchTasks, AppTypeOK
<1>5. /\ fsUser' \in AppUsers
      /\ live' = {}
      /\ fate' \in [1..MaxTaps -> {"none", "acked", "rejected"}]
      /\ count' = count
  BY DEF Kill, Store!Die, Store!Tell, AppTypeOK
<1>6. pending' \in [AppUsers -> Seq(1..MaxTaps)]
  <2>1. CASE pending[fsUser] # <<>>
    <3>1. Tail(pending[fsUser]) \in Seq(1..MaxTaps)
      BY <2>1, HeadTailProperties DEF AppTypeOK
    <3> QED
      BY <3>1 DEF Kill, Store!Die, AppTypeOK
  <2>2. CASE pending[fsUser] = <<>>
    BY <2>2 DEF Kill, Store!Die, AppTypeOK
  <2> QED
    BY <2>1, <2>2
<1> QED
  BY <1>1, <1>2, <1>3, <1>4, <1>5, <1>6
     DEF Kill, AppTypeOK, NoAlert, AppUsers, UsedUpType

-----------------------------------------------------------------------------
(* Whose queue a profile is written to                                     *)

\* Dispatching a task that is not the completion of a successful sign-up, or a
\* notification with the completion of its user, keeps the order.
LEMMA DispatchKeepsOrder ==
    ASSUME AppTypeOK, NotificationFirst, NEW t \in TaskType,
           ~(t.kind = "signUpDone" /\ t.ok), main' = Append(main, t),
           fsUser' = fsUser
    PROVE  NotificationFirst'
PROOF
<1>1. /\ main \in Seq(TaskType) /\ Len(main) \in Nat
      /\ Len(main') = Len(main) + 1
      /\ \A i \in 1..Len(main) : main'[i] = main[i]
      /\ main'[Len(main) + 1] = t
  BY AppendProperties, LenProperties DEF AppTypeOK
<1> SUFFICES ASSUME NEW i \in 1..Len(main'),
                    main'[i].kind = "signUpDone", main'[i].ok
             PROVE  IF i = 1 THEN fsUser' = main'[1].email
                             ELSE /\ main'[i - 1].kind = "authChanged"
                                  /\ main'[i - 1].email = main'[i].email
  BY DEF NotificationFirst
<1>2. i \in 1..Len(main) /\ (i # 1 => i - 1 \in 1..Len(main))
  BY <1>1
<1> QED
  BY <1>1, <1>2 DEF NotificationFirst

\* The notification of a user, and then the completion of that user's request.
LEMMA UpdateKeepsOrder ==
    ASSUME AppTypeOK, NotificationFirst, NEW u \in AppUsers, NEW t \in TaskType,
           t.kind = "signUpDone" => t.email = u,
           main' = Append(main, AuthTask(u)) \o <<t>>, fsUser' = fsUser
    PROVE  NotificationFirst'
PROOF
<1>1. AuthTask(u) \in TaskType /\ main \in Seq(TaskType)
  BY TaskTypes DEF AppTypeOK
<1>2. /\ Append(main, AuthTask(u)) \in Seq(TaskType)
      /\ Len(Append(main, AuthTask(u))) = Len(main) + 1
      /\ \A i \in 1..Len(main) : Append(main, AuthTask(u))[i] = main[i]
      /\ Append(main, AuthTask(u))[Len(main) + 1] = AuthTask(u)
  BY <1>1, AppendProperties
<1>3. main' = Append(Append(main, AuthTask(u)), t)
  BY <1>2, AppendIsConcat
<1>4. Len(main) \in Nat
  BY <1>1, LenProperties
<1>5. /\ Len(main') = Len(main) + 2
      /\ \A i \in 1..Len(main) : main'[i] = main[i]
      /\ main'[Len(main) + 1] = AuthTask(u)
      /\ main'[Len(main) + 2] = t
  <2> DEFINE m == Append(main, AuthTask(u))
  <2>1. m \in Seq(TaskType) /\ Len(m) = Len(main) + 1 /\ main' = Append(m, t)
    BY <1>2, <1>3
  <2> HIDE DEF m
  <2>2. /\ Len(main') = Len(m) + 1
        /\ \A i \in 1..Len(m) : main'[i] = m[i]
        /\ main'[Len(m) + 1] = t
    <3>1. t \in TaskType
      OBVIOUS
    <3> QED
      BY ONLY <2>1, <3>1, AppendProperties
  <2>3. Len(m) + 1 = Len(main) + 2
    BY <2>1, <1>4
  <2>4. \A i \in 1..Len(main) + 1 : main'[i] = m[i]
    BY <2>1, <2>2
  <2>5. /\ \A i \in 1..Len(main) : i \in 1..Len(main) + 1
        /\ Len(main) + 1 \in 1..Len(main) + 1
    BY <1>4
  <2>6. /\ \A i \in 1..Len(main) : main'[i] = main[i]
        /\ main'[Len(main) + 1] = AuthTask(u)
    BY <2>4, <2>5, <1>2 DEF m
  <2> QED
    BY <2>2, <2>3, <2>6
<1> SUFFICES ASSUME NEW i \in 1..Len(main'),
                    main'[i].kind = "signUpDone", main'[i].ok
             PROVE  IF i = 1 THEN fsUser' = main'[1].email
                             ELSE /\ main'[i - 1].kind = "authChanged"
                                  /\ main'[i - 1].email = main'[i].email
  BY DEF NotificationFirst
<1>6. i \in 1..Len(main) \/ i = Len(main) + 1 \/ i = Len(main) + 2
  BY <1>4, <1>5
<1>7. CASE i \in 1..Len(main)
  <2>1. i # 1 => i - 1 \in 1..Len(main)
    BY <1>4, <1>7
  <2> QED
    BY <1>5, <1>7, <2>1 DEF NotificationFirst
<1>8. CASE i = Len(main) + 1
  BY <1>5, <1>8 DEF AuthTask, Task
<1>9. CASE i = Len(main) + 2
  <2>1. i # 1 /\ i - 1 = Len(main) + 1
    BY <1>4, <1>9
  <2> QED
    BY <1>5, <1>9, <2>1 DEF AuthTask, Task
<1> QED
  BY <1>6, <1>7, <1>8, <1>9

\* Running a task keeps the order: only the notification's own task changes
\* Firestore's user.
LEMMA RunKeepsOrder ==
    ASSUME AppTypeOK, NotificationFirst, main # <<>>, main' = Tail(main),
           fsUser' = IF Head(main).kind = "authChanged" THEN Head(main).email
                                                       ELSE fsUser
    PROVE  NotificationFirst'
PROOF
<1>1. /\ Head(main) = main[1] /\ Len(main) \in Nat \ {0}
      /\ Len(main') = Len(main) - 1
      /\ \A i \in 1..Len(main) - 1 : main'[i] = main[i + 1]
  BY FirstTask
<1> SUFFICES ASSUME NEW i \in 1..Len(main'),
                    main'[i].kind = "signUpDone", main'[i].ok
             PROVE  IF i = 1 THEN fsUser' = main'[1].email
                             ELSE /\ main'[i - 1].kind = "authChanged"
                                  /\ main'[i - 1].email = main'[i].email
  BY DEF NotificationFirst
<1>2. /\ i \in 1..Len(main) - 1 /\ i + 1 \in 1..Len(main) /\ i + 1 # 1
      /\ (i + 1) - 1 = i
  BY <1>1
<1>3. /\ main[i].kind = "authChanged"
      /\ main[i].email = main[i + 1].email
      /\ main'[i] = main[i + 1]
  BY <1>1, <1>2 DEF NotificationFirst
<1>4. CASE i = 1
  BY <1>1, <1>3, <1>4
<1>5. CASE i # 1
  <2>1. i - 1 \in 1..Len(main) - 1 /\ (i - 1) + 1 = i
    BY <1>1, <1>2, <1>5
  <2> QED
    BY <1>1, <1>3, <1>5, <2>1
<1> QED
  BY <1>4, <1>5

\* A step that leaves the main queue and Firestore's user alone.
LEMMA IdleKeepsOrder ==
    ASSUME NotificationFirst, main' = main, fsUser' = fsUser
    PROVE  NotificationFirst'
PROOF
BY DEF NotificationFirst

\* Every step of the application keeps the order.
LEMMA OrderKept == AppIInv /\ AppNext => NotificationFirst'
PROOF
<1> SUFFICES ASSUME AppTypeOK, OwnersQueue, NotificationFirst, AppNext
             PROVE  NotificationFirst'
  BY DEF AppIInv
<1>1. CASE TapLogin \/ TapCreate \/ TapSignUp \/ TapBack \/ TapAlert
  <2>1. main' = main /\ fsUser' = fsUser
    BY <1>1 DEF TapLogin, TapCreate, TapSignUp, TapBack, TapAlert, store
  <2> QED
    BY <2>1, IdleKeepsOrder
<1>2. CASE TapLogout
  <2>1. fsUser' = fsUser
    BY <1>2 DEF TapLogout, store
  <2>2. CASE main' = main
    BY <2>1, <2>2, IdleKeepsOrder
  <2>3. CASE UpdateCurrentUser(NoUser, <<>>)
    <3>1. AuthTask(NoUser) \in TaskType
      BY TaskTypes DEF AppUsers
    <3>2. Append(main, AuthTask(NoUser)) \in Seq(TaskType)
      BY <3>1, AppendProperties DEF AppTypeOK
    <3>3. main' = Append(main, AuthTask(NoUser))
      BY <2>3, <3>2, ConcatEmptySeq DEF UpdateCurrentUser
    <3>4. AuthTask(NoUser).kind # "signUpDone"
      BY DEF AuthTask, Task
    <3> QED
      BY <2>1, <3>1, <3>3, <3>4, DispatchKeepsOrder
  <2> QED
    BY <1>2, <2>2, <2>3 DEF TapLogout
<1>3. CASE BackendCreates
  <2>1. main' = main /\ fsUser' = fsUser
    BY <1>3 DEF BackendCreates, store
  <2> QED
    BY <2>1, IdleKeepsOrder
<1>4. CASE AuthSucceeds
  <2>1. PICK c \in calls : UpdateCurrentUser(c.email, Done(c, TRUE)) /\ fsUser' = fsUser
    BY <1>4 DEF AuthSucceeds, store
  <2> DEFINE t == Task(IF c.kind = "signIn" THEN "signInDone" ELSE "signUpDone",
                       c.email, c.vc, TRUE)
  <2>2. c \in CallType
    BY DEF AppTypeOK
  <2>3. t \in TaskType /\ c.email \in AppUsers /\ t.email = c.email
    BY <2>2 DEF Task, TaskType, CallType, AppUsers
  <2>4. main' = Append(main, AuthTask(c.email)) \o <<t>>
    BY <2>1 DEF UpdateCurrentUser, Done
  <2> HIDE DEF t
  <2> QED
    BY <2>1, <2>3, <2>4, UpdateKeepsOrder
<1>5. CASE AuthFails
  <2>1. PICK c \in calls : main' = main \o Done(c, FALSE) /\ fsUser' = fsUser
    BY <1>5 DEF AuthFails, store
  <2> DEFINE t == Task(IF c.kind = "signIn" THEN "signInDone" ELSE "signUpDone",
                       c.email, c.vc, FALSE)
  <2>2. c \in CallType
    BY DEF AppTypeOK
  <2>3. t \in TaskType /\ ~t.ok
    BY <2>2 DEF Task, TaskType, CallType, AppUsers
  <2>4. main' = main \o <<t>>
    BY <2>1 DEF Done
  <2> HIDE DEF t
  <2>5. main' = Append(main, t)
    BY <2>3, <2>4, AppendIsConcat DEF AppTypeOK
  <2> QED
    BY <2>1, <2>3, <2>5, DispatchKeepsOrder
<1>6. CASE MainTask
  <2>1. main # <<>> /\ main' = Tail(main)
    BY <1>6 DEF MainTask, PresentLogin, AuthChanged, SignInDone, SignUpDone,
                ProfileSaved, Runs
  <2>2. fsUser' = IF Head(main).kind = "authChanged" THEN Head(main).email
                                                     ELSE fsUser
    BY <1>6 DEF MainTask, PresentLogin, AuthChanged, SignInDone, SignUpDone,
                ProfileSaved, Runs, store, Store!Submit
  <2> QED
    BY <2>1, <2>2, RunKeepsOrder
<1>7. CASE ProfileSettles
  <2>1. fsUser' = fsUser
    BY <1>7 DEF ProfileSettles, Store!Settle
  <2>2. CASE main' = main
    BY <2>1, <2>2, IdleKeepsOrder
  <2>3. CASE main' # main
    <3> DEFINE w == Head(pending[fsUser])
               t == Task("saved", docs[w].email, docs[w].vc, fate'[w] = "acked")
    <3>1. main' = Append(main, t)
      BY <1>7, <2>3 DEF ProfileSettles
    <3>2. t.kind # "signUpDone"
      BY DEF Task
    <3> HIDE DEF t
    <3>3. main \in Seq(TaskType) /\ main' \in Seq(TaskType)
      BY <1>7, StoreKeepsType DEF StoreStep, AppTypeOK
    <3> QED
      BY <2>1, <3>1, <3>2, <3>3, DispatchKeepsOrder
  <2> QED
    BY <2>2, <2>3
<1>8. CASE ProfileExecutes
  <2>1. main' = main /\ fsUser' = fsUser
    BY <1>8 DEF ProfileExecutes, Store!Execute
  <2> QED
    BY <2>1, IdleKeepsOrder
<1>9. CASE Kill
  <2>1. main' = <<PresentLoginTask>> \/ main' = <<AuthTask(authUser)>>
    BY <1>9 DEF Kill, LaunchTasks
  <2> QED
    BY <2>1 DEF NotificationFirst, PresentLoginTask, AuthTask, Task
<1> QED
  BY <1>1, <1>2, <1>3, <1>4, <1>5, <1>6, <1>7, <1>8, <1>9
     DEF AppNext, Tap, AuthStep, StoreStep

\* A step that leaves the queues and the profiles alone.
LEMMA IdleKeepsOwners ==
    ASSUME OwnersQueue, pending' = pending, docs' = docs, count' = count
    PROVE  OwnersQueue'
PROOF
BY DEF OwnersQueue

\* setData: the completion of a sign-up finds Firestore with its own user.
LEMMA SubmitKeepsOwners ==
    AppIInv /\ SignUpDone => OwnersQueue'
PROOF
<1> SUFFICES ASSUME AppIInv, SignUpDone PROVE OwnersQueue'
  OBVIOUS
<1> USE DEF AppIInv
<1>1. CASE UNCHANGED <<store, docs>>
  BY <1>1, IdleKeepsOwners DEF store
<1>2. CASE /\ Head(main).ok
           /\ Store!Submit
           /\ docs' = Append(docs, [email |-> Head(main).email, vc |-> Head(main).vc])
  <2> DEFINE doc == [email |-> Head(main).email, vc |-> Head(main).vc]
             q == pending[fsUser]
  <2>1. main # <<>> /\ Head(main).kind = "signUpDone" /\ Head(main) = main[1]
        /\ Len(main) \in Nat \ {0} /\ Head(main) \in TaskType
    BY FirstTask DEF SignUpDone, Runs
  <2>2. fsUser = doc.email
    <3>1. 1 \in 1..Len(main)
      BY <2>1
    <3> QED
      BY <2>1, <3>1, <1>2 DEF NotificationFirst
  <2>3. doc \in Doc
    BY <2>1 DEF TaskType, Doc
  <2>4. docs \in Seq(Doc) /\ Len(docs) = count /\ count \in Nat
    BY DEF AppTypeOK, Doc
  <2>5. /\ docs'[count + 1] = doc
        /\ \A k \in 1..count : docs'[k] = docs[k]
    <3>1. docs' = Append(docs, doc)
      BY <1>2
    <3> HIDE DEF doc
    <3> QED
      BY ONLY <2>3, <2>4, <3>1, AppendProperties
  <2>6. /\ fsUser \in AppUsers /\ q \in Seq(1..MaxTaps) /\ count + 1 \in 1..MaxTaps
        /\ pending \in [AppUsers -> Seq(1..MaxTaps)]
        /\ pending' = [pending EXCEPT ![fsUser] = Append(q, count + 1)]
        /\ count' = count + 1
    <3>1. /\ fsUser \in AppUsers /\ pending \in [AppUsers -> Seq(1..MaxTaps)]
          /\ count \in 0..MaxTaps
      BY DEF AppTypeOK
    <3>2. /\ count < MaxTaps /\ count' = count + 1
          /\ pending' = [pending EXCEPT ![fsUser] = Append(@, count + 1)]
      BY <1>2 DEF Store!Submit
    <3>3. count + 1 \in 1..MaxTaps
      BY ONLY <2>4, <3>2, AppBoundsAssumption
    <3> QED
      BY ONLY <3>1, <3>2, <3>3
  <2>7. ASSUME NEW k \in 1..count
        PROVE  k \in 1..count' /\ docs'[k] = docs[k]
    BY <2>4, <2>5, <2>6, <2>7
  <2>8. count + 1 \in 1..count'
    BY <2>4, <2>6
  <2> SUFFICES ASSUME NEW u \in AppUsers, NEW i \in DOMAIN pending'[u]
               PROVE  /\ pending'[u][i] \in 1..count'
                      /\ docs'[pending'[u][i]].email = u
    BY DEF OwnersQueue
  <2>9. CASE u # fsUser
    <3>1. pending'[u] = pending[u]
      BY <2>6, <2>9
    <3> QED
      BY <3>1, <2>7 DEF OwnersQueue
  <2>10. CASE u = fsUser
    <3>1. pending'[u] = Append(q, count + 1)
      BY <2>6, <2>10
    <3>2. /\ Len(q) \in Nat /\ DOMAIN q = 1..Len(q)
          /\ DOMAIN pending'[u] = 1..(Len(q) + 1)
          /\ \A j \in 1..Len(q) : pending'[u][j] = q[j]
          /\ pending'[u][Len(q) + 1] = count + 1
      <4> HIDE DEF q
      <4>1. Append(q, count + 1) \in Seq(1..MaxTaps)
        BY <2>6, AppendProperties
      <4> QED
        BY <3>1, <4>1, <2>6, AppendProperties, LenProperties
    <3>3. i \in 1..Len(q) \/ i = Len(q) + 1
      <4> HIDE DEF q
      <4> QED
        BY <3>2
    <3>4. CASE i \in 1..Len(q)
      <4>1. q[i] \in 1..count /\ docs[q[i]].email = u
        BY <2>10, <3>2, <3>4 DEF OwnersQueue
      <4> QED
        BY <3>2, <3>4, <4>1, <2>7
    <3>5. CASE i = Len(q) + 1
      BY <3>2, <3>5, <2>2, <2>5, <2>8, <2>10
    <3> QED
      BY <3>3, <3>4, <3>5
  <2> QED
    BY <2>9, <2>10
<1> QED
  BY <1>1, <1>2 DEF SignUpDone, store

\* Settling a profile takes it off its queue, also if the process dies over it.
LEMMA SettleKeepsOwners ==
    ASSUME AppIInv, pending[fsUser] # <<>>, docs' = docs, count' = count,
           pending' = [pending EXCEPT ![fsUser] = Tail(@)]
    PROVE  OwnersQueue'
PROOF
<1> USE DEF AppIInv
<1> DEFINE q == pending[fsUser]
<1>1. /\ q # <<>> /\ q \in Seq(1..MaxTaps) /\ fsUser \in AppUsers
      /\ pending' = [pending EXCEPT ![fsUser] = Tail(q)]
      /\ docs' = docs /\ count' = count
      /\ pending \in [AppUsers -> Seq(1..MaxTaps)]
  BY DEF AppTypeOK
<1> SUFFICES ASSUME NEW u \in AppUsers, NEW i \in DOMAIN pending'[u]
             PROVE  /\ pending'[u][i] \in 1..count'
                    /\ docs'[pending'[u][i]].email = u
  BY DEF OwnersQueue
<1>2. CASE u # fsUser
  <2>1. pending'[u] = pending[u]
    BY <1>1, <1>2
  <2> QED
    BY <2>1, <1>1 DEF OwnersQueue
<1>3. CASE u = fsUser
  <2>1. pending'[u] = Tail(q)
    BY <1>1, <1>3
  <2>2. /\ Tail(q) \in Seq(1..MaxTaps) /\ Len(Tail(q)) = Len(q) - 1
        /\ \A j \in 1..Len(Tail(q)) : Tail(q)[j] = q[j + 1]
        /\ DOMAIN Tail(q) = 1..Len(Tail(q)) /\ DOMAIN q = 1..Len(q)
        /\ Len(q) \in Nat
    <3> HIDE DEF q
    <3> QED
      BY <1>1, HeadTailProperties, LenProperties
  <2>3. i \in 1..(Len(q) - 1) /\ pending'[u][i] = q[i + 1]
    <3> HIDE DEF q
    <3> QED
      BY <2>1, <2>2
  <2>4. i + 1 \in DOMAIN q
    <3> HIDE DEF q
    <3> QED
      BY <2>2, <2>3
  <2> QED
    BY <2>3, <2>4, <1>1, <1>3 DEF OwnersQueue
<1> QED
  BY <1>2, <1>3

\* Every step of the application leaves each queue to its owner.
LEMMA OwnersKept == AppIInv /\ AppNext => OwnersQueue'
PROOF
<1> SUFFICES ASSUME AppIInv, AppNext PROVE OwnersQueue'
  OBVIOUS
<1>1. CASE Tap \/ AuthStep
  BY <1>1, IdleKeepsOwners
     DEF AppIInv, Tap, AuthStep, TapLogin, TapCreate, TapSignUp, TapBack, TapAlert,
         TapLogout, BackendCreates, AuthSucceeds, AuthFails, store
<1>2. CASE PresentLogin \/ AuthChanged \/ SignInDone \/ ProfileSaved
  BY <1>2, IdleKeepsOwners
     DEF AppIInv, PresentLogin, AuthChanged, Store!SwitchUser, SignInDone,
         ProfileSaved, store
<1>3. CASE SignUpDone
  BY <1>3, SubmitKeepsOwners
<1>4. CASE ProfileSettles
  BY <1>4, SettleKeepsOwners DEF ProfileSettles, Store!Settle
<1>5. CASE ProfileExecutes
  BY <1>5, IdleKeepsOwners DEF AppIInv, ProfileExecutes, Store!Execute
<1>6. CASE Kill
  <2>1. docs' = docs /\ count' = count
    BY <1>6 DEF Kill, Store!Die
  <2>2. \/ pending' = pending
        \/ /\ pending[fsUser] # <<>>
           /\ pending' = [pending EXCEPT ![fsUser] = Tail(@)]
    BY <1>6 DEF Kill, Store!Die
  <2> QED
    BY <2>1, <2>2, IdleKeepsOwners, SettleKeepsOwners DEF AppIInv
<1> QED
  BY <1>1, <1>2, <1>3, <1>4, <1>5, <1>6 DEF AppNext, MainTask, StoreStep

-----------------------------------------------------------------------------
(* Firestore's user                                                        *)

\* The last notification on the main queue carries Auth's user; when there is
\* none, Firestore has that user already.
AuthTold ==
    \/ /\ \A i \in 1..Len(main) : main[i].kind # "authChanged"
       /\ fsUser = authUser
    \/ \E i \in 1..Len(main) :
         /\ main[i].kind = "authChanged" /\ main[i].email = authUser
         /\ \A j \in 1..Len(main) : j > i => main[j].kind # "authChanged"

\* The task that Firestore dispatches when it has settled a profile: a
\* completion that says yes is about a profile the backend has.
LEMMA SettledTask ==
    ASSUME AppTypeOK, OwnersQueue, ProfileSettles, main' # main
    PROVE  \E t \in TaskType :
             /\ main' = Append(main, t)
             /\ t.kind = "saved"
             /\ t.ok => \E w \in committed : w \in 1..count /\ docs[w].email = t.email
PROOF
<1> DEFINE w == Head(pending[fsUser])
           t == Task("saved", docs[w].email, docs[w].vc, fate'[w] = "acked")
<1>1. /\ pending[fsUser] # <<>> /\ pending[fsUser] \in Seq(1..MaxTaps)
      /\ fsUser \in AppUsers
  BY DEF ProfileSettles, Store!Settle, AppTypeOK
<1>2. w = pending[fsUser][1] /\ 1 \in DOMAIN pending[fsUser] /\ w \in 1..MaxTaps
  <2>1. w \in 1..MaxTaps
    BY <1>1, HeadTailProperties
  <2>2. w = pending[fsUser][1] /\ 1 \in DOMAIN pending[fsUser]
    BY <1>1, EmptySeq, LenProperties
  <2> QED
    BY <2>1, <2>2
<1>3. w \in 1..count /\ docs \in Seq(Doc) /\ Len(docs) = count
  BY <1>1, <1>2 DEF OwnersQueue, AppTypeOK, Doc
<1>4. docs[w].email \in Emails /\ docs[w].vc \in Nat
  <2> HIDE DEF w
  <2>1. docs[w] \in Doc
    BY <1>3, ElementOfSeq
  <2> QED
    BY <2>1 DEF Doc
<1>5. w \in live /\ main' = Append(main, t)
  BY DEF ProfileSettles
<1>6. t \in TaskType /\ t.kind = "saved" /\ t.email = docs[w].email
      /\ t.ok = (fate'[w] = "acked")
  <2> HIDE DEF w
  <2>1. (fate'[w] = "acked") \in BOOLEAN
    OBVIOUS
  <2> QED
    BY <1>4, <2>1 DEF Task, TaskType
<1>7. fate'[w] = "acked" => w \in committed
  <2>1. (w \in committed /\ Store!Tell(w, "acked")) \/ Store!Tell(w, "rejected")
    BY DEF ProfileSettles, Store!Settle
  <2>2. ASSUME Store!Tell(w, "rejected") PROVE fate'[w] = "rejected"
    <3>1. fate \in [1..MaxTaps -> {"none", "acked", "rejected"}]
      BY DEF AppTypeOK
    <3>2. fate' = [fate EXCEPT ![w] = "rejected"]
      BY <2>2, <1>5 DEF Store!Tell
    <3> HIDE DEF w
    <3> QED
      BY <3>1, <3>2, <1>2
  <2> QED
    BY <2>1, <2>2
<1>8. t.ok => \E v \in committed : v \in 1..count /\ docs[v].email = t.email
  <2> HIDE DEF w, t
  <2> QED
    BY <1>3, <1>6, <1>7
<1> HIDE DEF t, w
<1> QED
  BY <1>5, <1>6, <1>8

\* Dispatching anything but a notification.
LEMMA DispatchKeepsTold ==
    ASSUME AppTypeOK, AuthTold, NEW t \in TaskType, t.kind # "authChanged",
           main' = Append(main, t), fsUser' = fsUser, authUser' = authUser
    PROVE  AuthTold'
PROOF
<1>1. /\ Len(main) \in Nat
      /\ Len(main') = Len(main) + 1
      /\ \A i \in 1..Len(main) : main'[i] = main[i]
      /\ main'[Len(main) + 1] = t
  BY AppendProperties, LenProperties DEF AppTypeOK
<1>2. /\ \A i \in 1..Len(main') : i \in 1..Len(main) \/ i = Len(main) + 1
      /\ \A i \in 1..Len(main) : i \in 1..Len(main')
  BY <1>1
<1>3. CASE /\ \A i \in 1..Len(main) : main[i].kind # "authChanged"
           /\ fsUser = authUser
  <2>1. \A i \in 1..Len(main') : main'[i].kind # "authChanged"
    BY <1>1, <1>2, <1>3
  <2> QED
    BY <2>1, <1>3 DEF AuthTold
<1>4. ASSUME NEW i \in 1..Len(main),
             main[i].kind = "authChanged", main[i].email = authUser,
             \A j \in 1..Len(main) : j > i => main[j].kind # "authChanged"
      PROVE  AuthTold'
  <2>1. \A j \in 1..Len(main') : j > i => main'[j].kind # "authChanged"
    BY <1>1, <1>2, <1>4
  <2>2. i \in 1..Len(main') /\ main'[i] = main[i]
    BY <1>1, <1>2
  <2> QED
    BY <2>1, <2>2, <1>4 DEF AuthTold
<1> QED
  BY <1>3, <1>4 DEF AuthTold

\* updateCurrentUser: the notification is the last one.
LEMMA NotificationKeepsTold ==
    ASSUME AppTypeOK, NEW u \in AppUsers, main' = Append(main, AuthTask(u)),
           authUser' = u
    PROVE  AuthTold'
PROOF
<1>1. /\ Len(main) \in Nat
      /\ Len(main') = Len(main) + 1
      /\ main'[Len(main) + 1] = AuthTask(u)
  BY TaskTypes, AppendProperties, LenProperties DEF AppTypeOK
<1>2. /\ Len(main) + 1 \in 1..Len(main')
      /\ \A j \in 1..Len(main') : ~(j > Len(main) + 1)
  BY <1>1
<1> QED
  BY <1>1, <1>2 DEF AuthTold, AuthTask, Task

\* The same with the completion of the request behind it.
LEMMA CompletionKeepsTold ==
    ASSUME AppTypeOK, NEW u \in AppUsers, NEW t \in TaskType,
           t.kind # "authChanged",
           main' = Append(main, AuthTask(u)) \o <<t>>, authUser' = u
    PROVE  AuthTold'
PROOF
<1> DEFINE m == Append(main, AuthTask(u))
<1>1. /\ m \in Seq(TaskType) /\ Len(m) = Len(main) + 1 /\ Len(main) \in Nat
      /\ m[Len(main) + 1] = AuthTask(u)
  BY TaskTypes, AppendProperties, LenProperties DEF AppTypeOK
<1>2. main' = Append(m, t)
  BY <1>1, AppendIsConcat
<1> HIDE DEF m
<1>3. /\ Len(main') = Len(m) + 1
      /\ \A i \in 1..Len(m) : main'[i] = m[i]
      /\ main'[Len(m) + 1] = t
  BY <1>1, <1>2, AppendProperties, SMTT(30)
<1>4. /\ Len(main) + 1 \in 1..Len(main') /\ Len(main) + 1 \in 1..Len(m)
      /\ \A j \in 1..Len(main') : j > Len(main) + 1 => j = Len(m) + 1
  BY <1>1, <1>3
<1>5. \A j \in 1..Len(main') :
        j > Len(main) + 1 => main'[j].kind # "authChanged"
  BY <1>3, <1>4
<1>6. /\ main'[Len(main) + 1].kind = "authChanged"
      /\ main'[Len(main) + 1].email = authUser'
  BY <1>1, <1>3, <1>4 DEF AuthTask, Task
<1> QED
  BY <1>4, <1>5, <1>6 DEF AuthTold

\* Running a task: the notification tells Firestore its user.
LEMMA RunKeepsTold ==
    ASSUME AppTypeOK, AuthTold, main # <<>>, main' = Tail(main),
           authUser' = authUser,
           fsUser' = IF Head(main).kind = "authChanged" THEN Head(main).email
                                                       ELSE fsUser
    PROVE  AuthTold'
PROOF
<1>1. /\ Head(main) = main[1] /\ Len(main) \in Nat \ {0}
      /\ Len(main') = Len(main) - 1
      /\ \A i \in 1..Len(main) - 1 : main'[i] = main[i + 1]
  BY FirstTask
<1>2. \A i \in 1..Len(main') : main'[i] = main[i + 1] /\ i + 1 \in 1..Len(main)
  BY <1>1
<1>3. CASE /\ \A i \in 1..Len(main) : main[i].kind # "authChanged"
           /\ fsUser = authUser
  <2>1. 1 \in 1..Len(main)
    BY <1>1
  <2> QED
    BY <2>1, <1>1, <1>2, <1>3 DEF AuthTold
<1>4. ASSUME NEW i \in 1..Len(main),
             main[i].kind = "authChanged", main[i].email = authUser,
             \A j \in 1..Len(main) : j > i => main[j].kind # "authChanged"
      PROVE  AuthTold'
  <2>1. CASE i = 1
    <3>1. fsUser' = authUser'
      BY <1>1, <1>4, <2>1
    <3>2. \A j \in 1..Len(main') : main'[j].kind # "authChanged"
      <4>1. \A j \in 1..Len(main') : j + 1 > i
        BY <1>1, <2>1
      <4> QED
        BY <4>1, <1>2, <1>4
    <3> QED
      BY <3>1, <3>2 DEF AuthTold
  <2>2. CASE i # 1
    <3>1. i - 1 \in 1..Len(main') /\ (i - 1) + 1 = i
      BY <1>1, <2>2
    <3>2. main'[i - 1] = main[i]
      BY <3>1, <1>2
    <3>3. \A j \in 1..Len(main') : j > i - 1 => main'[j].kind # "authChanged"
      <4>1. \A j \in 1..Len(main') : j > i - 1 => j + 1 > i
        BY <1>1
      <4> QED
        BY <4>1, <1>2, <1>4
    <3> QED
      BY <3>1, <3>2, <3>3, <1>4 DEF AuthTold
  <2> QED
    BY <2>1, <2>2
<1> QED
  BY <1>3, <1>4 DEF AuthTold

\* A step that leaves the main queue and both users alone.
LEMMA IdleKeepsTold ==
    ASSUME AuthTold, main' = main, fsUser' = fsUser, authUser' = authUser
    PROVE  AuthTold'
PROOF
BY DEF AuthTold

\* Every step of the application keeps Firestore told.
LEMMA ToldKept == AppIInv /\ AuthTold /\ AppNext => AuthTold'
PROOF
<1> SUFFICES ASSUME AppTypeOK, OwnersQueue, AuthTold, AppNext PROVE AuthTold'
  BY DEF AppIInv
<1>1. CASE \/ TapLogin \/ TapCreate \/ TapSignUp \/ TapBack \/ TapAlert
           \/ BackendCreates \/ ProfileExecutes
  <2>1. main' = main /\ fsUser' = fsUser /\ authUser' = authUser
    BY <1>1 DEF TapLogin, TapCreate, TapSignUp, TapBack, TapAlert, BackendCreates,
                ProfileExecutes, Store!Execute, store, authVars
  <2> QED
    BY <2>1, IdleKeepsTold
<1>2. CASE TapLogout
  <2>1. fsUser' = fsUser
    BY <1>2 DEF TapLogout, store
  <2>2. CASE main' = main /\ authUser' = authUser
    BY <2>1, <2>2, IdleKeepsTold
  <2>3. CASE UpdateCurrentUser(NoUser, <<>>)
    <3>1. NoUser \in AppUsers
      BY DEF AppUsers
    <3>2. Append(main, AuthTask(NoUser)) \in Seq(TaskType)
      BY <3>1, TaskTypes, AppendProperties DEF AppTypeOK
    <3>3. main' = Append(main, AuthTask(NoUser)) /\ authUser' = NoUser
      BY <2>3, <3>2, ConcatEmptySeq DEF UpdateCurrentUser
    <3> QED
      BY <3>1, <3>3, NotificationKeepsTold
  <2> QED
    BY <1>2, <2>2, <2>3 DEF TapLogout
<1>3. CASE AuthSucceeds
  <2>1. PICK c \in calls : UpdateCurrentUser(c.email, Done(c, TRUE))
    BY <1>3 DEF AuthSucceeds
  <2> DEFINE t == Task(IF c.kind = "signIn" THEN "signInDone" ELSE "signUpDone",
                       c.email, c.vc, TRUE)
  <2>2. c \in CallType
    BY DEF AppTypeOK
  <2>3. t \in TaskType /\ c.email \in AppUsers /\ t.kind # "authChanged"
    BY <2>2 DEF Task, TaskType, CallType, AppUsers
  <2>4. main' = Append(main, AuthTask(c.email)) \o <<t>> /\ authUser' = c.email
    BY <2>1 DEF UpdateCurrentUser, Done
  <2> HIDE DEF t
  <2> QED
    BY <2>3, <2>4, CompletionKeepsTold
<1>4. CASE AuthFails
  <2>1. PICK c \in calls : /\ main' = main \o Done(c, FALSE)
                           /\ fsUser' = fsUser /\ authUser' = authUser
    BY <1>4 DEF AuthFails, store
  <2> DEFINE t == Task(IF c.kind = "signIn" THEN "signInDone" ELSE "signUpDone",
                       c.email, c.vc, FALSE)
  <2>2. c \in CallType
    BY DEF AppTypeOK
  <2>3. t \in TaskType /\ t.kind # "authChanged"
    BY <2>2 DEF Task, TaskType, CallType, AppUsers
  <2>4. main' = main \o <<t>>
    BY <2>1 DEF Done
  <2> HIDE DEF t
  <2>5. main' = Append(main, t)
    BY <2>3, <2>4, AppendIsConcat DEF AppTypeOK
  <2> QED
    BY <2>1, <2>3, <2>5, DispatchKeepsTold
<1>5. CASE MainTask
  <2>1. main # <<>> /\ main' = Tail(main) /\ authUser' = authUser
    BY <1>5 DEF MainTask, PresentLogin, AuthChanged, SignInDone, SignUpDone,
                ProfileSaved, Runs, authVars
  <2>2. fsUser' = IF Head(main).kind = "authChanged" THEN Head(main).email
                                                     ELSE fsUser
    BY <1>5 DEF MainTask, PresentLogin, AuthChanged, SignInDone, SignUpDone,
                ProfileSaved, Runs, store, Store!Submit
  <2> QED
    BY <2>1, <2>2, RunKeepsTold
<1>6. CASE ProfileSettles
  <2>1. fsUser' = fsUser /\ authUser' = authUser
    BY <1>6 DEF ProfileSettles, Store!Settle, authVars
  <2>2. CASE main' = main
    BY <2>1, <2>2, IdleKeepsTold
  <2>3. CASE main' # main
    <3>1. PICK t \in TaskType : main' = Append(main, t) /\ t.kind = "saved"
      BY <1>6, <2>3, SettledTask
    <3> QED
      BY <2>1, <3>1, DispatchKeepsTold
  <2> QED
    BY <2>2, <2>3
<1>7. CASE Kill
  <2>1. CASE authUser = NoUser
    <3>1. main' = <<PresentLoginTask>> /\ fsUser' = authUser' /\ Len(main') = 1
      BY <1>7, <2>1 DEF Kill, LaunchTasks
    <3> QED
      BY <3>1 DEF AuthTold, PresentLoginTask, Task
  <2>2. CASE authUser # NoUser
    <3>1. main' = <<AuthTask(authUser)>> /\ authUser' = authUser /\ Len(main') = 1
      BY <1>7, <2>2 DEF Kill, LaunchTasks
    <3>2. main'[1].kind = "authChanged" /\ main'[1].email = authUser'
      BY <3>1 DEF AuthTask, Task
    <3>3. 1 \in 1..Len(main') /\ \A j \in 1..Len(main') : ~(j > 1)
      BY <3>1
    <3> QED
      BY <3>2, <3>3 DEF AuthTold
  <2> QED
    BY <2>1, <2>2
<1> QED
  BY <1>1, <1>2, <1>3, <1>4, <1>5, <1>6, <1>7
     DEF AppNext, Tap, AuthStep, StoreStep

-----------------------------------------------------------------------------
(* Which profiles are saved                                                *)

\* The backend has a profile of e.
Saved(e) == \E w \in committed : w \in 1..count /\ docs[w].email = e

\* Good news is true: on the screen, and still on its way.
NewsIsTrue ==
    /\ \A i \in 1..Len(main) :
         main[i].kind = "saved" /\ main[i].ok => Saved(main[i].email)
    /\ alert.kind = "success" => Saved(alert.email)

\* Profiles are only ever added, and the backend forgets none.
LEMMA ProfilesStay ==
    ASSUME AppTypeOK, AppNext
    PROVE  /\ count' \in Nat /\ count <= count' /\ committed \subseteq committed'
           /\ count = Len(docs) /\ count' = Len(docs')
           /\ \A w \in 1..count : docs'[w] = docs[w]
PROOF
<1>1. docs \in Seq(Doc) /\ Len(docs) = count /\ count \in Nat
  BY DEF AppTypeOK, Doc
<1>2. CASE SignUpDone /\ ~UNCHANGED <<store, docs>>
  <2> DEFINE doc == [email |-> Head(main).email, vc |-> Head(main).vc]
  <2>1. /\ Store!Submit /\ docs' = Append(docs, doc)
        /\ main # <<>> /\ Head(main).kind = "signUpDone"
    BY <1>2 DEF SignUpDone, Runs
  <2>2. doc \in Doc
    BY <2>1, FirstTask DEF TaskType, Doc
  <2> HIDE DEF doc
  <2>3. Len(docs') = count + 1 /\ \A w \in 1..count : docs'[w] = docs[w]
    BY <1>1, <2>1, <2>2, AppendProperties
  <2> QED
    BY <1>1, <2>1, <2>3 DEF Store!Submit
<1>3. CASE UNCHANGED <<docs, count>> /\ committed \subseteq committed'
  BY <1>1, <1>3
<1>4. \/ UNCHANGED <<docs, count>> /\ committed \subseteq committed'
      \/ SignUpDone /\ ~UNCHANGED <<store, docs>>
  <2>1. CASE Tap \/ AuthStep
    BY <2>1 DEF Tap, AuthStep, TapLogin, TapCreate, TapSignUp, TapBack, TapAlert,
                TapLogout, BackendCreates, AuthSucceeds, AuthFails, store
  <2>2. CASE MainTask
    BY <2>2 DEF MainTask, PresentLogin, AuthChanged, Store!SwitchUser,
                Store!BackendExecutes, SignInDone, SignUpDone, ProfileSaved, store
  <2>3. CASE StoreStep
    BY <2>3 DEF StoreStep, ProfileSettles, Store!Settle, ProfileExecutes,
                Store!Execute, Store!BackendExecutes
  <2>4. CASE Kill
    BY <2>4 DEF Kill, Store!Die, Store!BackendExecutes
  <2> QED
    BY <2>1, <2>2, <2>3, <2>4 DEF AppNext
<1> QED
  BY <1>2, <1>3, <1>4

\* What is saved stays saved.
LEMMA SavedStays ==
    ASSUME AppTypeOK, AppNext, NEW e, Saved(e)
    PROVE  Saved(e)'
PROOF
<1>1. PICK w \in committed : w \in 1..count /\ docs[w].email = e
  BY DEF Saved
<1>2. /\ count \in Nat /\ count' \in Nat /\ count <= count'
      /\ committed \subseteq committed' /\ docs'[w] = docs[w]
  <2>1. /\ count \in Nat /\ count' \in Nat /\ count <= count'
        /\ committed \subseteq committed'
        /\ \A k \in 1..count : docs'[k] = docs[k]
    BY ProfilesStay
  <2> QED
    BY ONLY <1>1, <2>1
<1>3. w \in committed' /\ w \in 1..count' /\ docs'[w].email = e
  BY <1>1, <1>2
<1> QED
  BY <1>3 DEF Saved

\* What a step does to the tasks of the main queue: every task of the new queue
\* was there, except one that is no news, one that a settled profile dispatches,
\* and the next launch's.
LEMMA NewsTravels ==
    ASSUME AppIInv, AppNext, NEW i \in 1..Len(main'),
           main'[i].kind = "saved", main'[i].ok
    PROVE  \/ \E j \in 1..Len(main) : main'[i] = main[j]
           \/ Saved(main'[i].email)
PROOF
<1> USE DEF AppIInv
<1>1. main \in Seq(TaskType) /\ Len(main) \in Nat
  BY LenProperties DEF AppTypeOK
<1>2. ASSUME NEW t \in TaskType, main' = Append(main, t)
      PROVE  (\E j \in 1..Len(main) : main'[i] = main[j]) \/ main'[i] = t
  <2>1. /\ Len(main') = Len(main) + 1
        /\ \A k \in 1..Len(main) : main'[k] = main[k]
        /\ main'[Len(main) + 1] = t
    BY <1>1, <1>2, AppendProperties
  <2>2. i \in 1..Len(main) \/ i = Len(main) + 1
    BY <1>1, <2>1
  <2> QED
    BY <2>1, <2>2
<1>3. ASSUME NEW u \in AppUsers, NEW t \in TaskType,
             main' = Append(main, AuthTask(u)) \o <<t>>
      PROVE  (\E j \in 1..Len(main) : main'[i] = main[j]) \/ main'[i] = t
  <2> DEFINE m == Append(main, AuthTask(u))
  <2>1. /\ m \in Seq(TaskType) /\ Len(m) = Len(main) + 1
        /\ \A k \in 1..Len(main) : m[k] = main[k]
        /\ m[Len(main) + 1] = AuthTask(u)
    BY <1>1, TaskTypes, AppendProperties
  <2>2. main' = Append(m, t)
    BY <1>3, <2>1, AppendIsConcat
  <2> HIDE DEF m
  <2>3. /\ Len(main') = Len(m) + 1
        /\ \A k \in 1..Len(m) : main'[k] = m[k]
        /\ main'[Len(m) + 1] = t
    BY <2>1, <2>2, AppendProperties
  <2>4. \/ i \in 1..Len(main) /\ i \in 1..Len(m)
        \/ i = Len(main) + 1 /\ i \in 1..Len(m)
        \/ i = Len(m) + 1
    BY <1>1, <2>1, <2>3
  <2>5. CASE i = Len(main) + 1 /\ i \in 1..Len(m)
    BY <2>1, <2>3, <2>5 DEF AuthTask, Task
  <2> QED
    BY <2>1, <2>3, <2>4, <2>5
<1>4. CASE main' = main
  BY <1>4
<1>5. CASE main # <<>> /\ main' = Tail(main)
  <2>1. i + 1 \in 1..Len(main) /\ main'[i] = main[i + 1]
    BY <1>5, FirstTask
  <2> QED
    BY <2>1
<1>6. CASE TapLogout /\ main' # main
  <2>1. NoUser \in AppUsers /\ AuthTask(NoUser) \in TaskType
    BY TaskTypes DEF AppUsers
  <2>2. main' = Append(main, AuthTask(NoUser))
    <3>1. Append(main, AuthTask(NoUser)) \in Seq(TaskType)
      BY <1>1, <2>1, AppendProperties
    <3> QED
      BY <1>6, <3>1, ConcatEmptySeq DEF TapLogout, UpdateCurrentUser
  <2>3. main'[i] # AuthTask(NoUser)
    BY DEF AuthTask, Task
  <2> QED
    BY <1>2, <2>1, <2>2, <2>3
<1>7. CASE AuthSucceeds
  <2>1. PICK c \in calls : UpdateCurrentUser(c.email, Done(c, TRUE))
    BY <1>7 DEF AuthSucceeds
  <2> DEFINE t == Task(IF c.kind = "signIn" THEN "signInDone" ELSE "signUpDone",
                       c.email, c.vc, TRUE)
  <2>2. c \in CallType
    BY DEF AppTypeOK
  <2>3. t \in TaskType /\ c.email \in AppUsers /\ t.kind # "saved"
    BY <2>2 DEF Task, TaskType, CallType, AppUsers
  <2>4. main' = Append(main, AuthTask(c.email)) \o <<t>>
    BY <2>1 DEF UpdateCurrentUser, Done
  <2> HIDE DEF t
  <2> QED
    BY <2>3, <2>4, <1>3
<1>8. CASE AuthFails
  <2>1. PICK c \in calls : main' = main \o Done(c, FALSE)
    BY <1>8 DEF AuthFails
  <2> DEFINE t == Task(IF c.kind = "signIn" THEN "signInDone" ELSE "signUpDone",
                       c.email, c.vc, FALSE)
  <2>2. c \in CallType
    BY DEF AppTypeOK
  <2>3. t \in TaskType /\ t.kind # "saved"
    BY <2>2 DEF Task, TaskType, CallType, AppUsers
  <2>4. main' = main \o <<t>>
    BY <2>1 DEF Done
  <2> HIDE DEF t
  <2>5. main' = Append(main, t)
    BY <1>1, <2>3, <2>4, AppendIsConcat
  <2> QED
    BY <2>3, <2>5, <1>2
<1>9. CASE ProfileSettles /\ main' # main
  <2>1. PICK t \in TaskType :
          /\ main' = Append(main, t)
          /\ t.ok => \E w \in committed : w \in 1..count /\ docs[w].email = t.email
    BY <1>9, SettledTask
  <2>2. (\E j \in 1..Len(main) : main'[i] = main[j]) \/ main'[i] = t
    BY <2>1, <1>2
  <2> QED
    BY <2>1, <2>2 DEF Saved
<1>10. CASE Kill
  <2>1. main' = <<PresentLoginTask>> \/ main' = <<AuthTask(authUser)>>
    BY <1>10 DEF Kill, LaunchTasks
  <2>2. i = 1
    BY <2>1
  <2> QED
    BY <2>1, <2>2 DEF PresentLoginTask, AuthTask, Task
<1> QED
  BY <1>4, <1>5, <1>6, <1>7, <1>8, <1>9, <1>10
     DEF AppNext, Tap, AuthStep, MainTask, StoreStep, TapLogin, TapCreate, TapSignUp,
         TapBack, TapAlert, BackendCreates, PresentLogin, AuthChanged, SignInDone,
         SignUpDone, ProfileSaved, Runs, ProfileExecutes

\* Every step keeps the news true.
LEMMA NewsKept == AppIInv /\ NewsIsTrue /\ AppNext => NewsIsTrue'
PROOF
<1> SUFFICES ASSUME AppIInv, NewsIsTrue, AppNext PROVE NewsIsTrue'
  OBVIOUS
<1>1. AppTypeOK
  BY DEF AppIInv
<1>2. ASSUME NEW i \in 1..Len(main'), main'[i].kind = "saved", main'[i].ok
      PROVE  Saved(main[i].email)'
  <2>1. Saved(main'[i].email)
    BY <1>2, NewsTravels DEF NewsIsTrue
  <2>2. \A e : Saved(e) => Saved(e)'
    BY <1>1, SavedStays
  <2>3. PICK e : e = main'[i].email
    OBVIOUS
  <2>4. Saved(e)'
    BY <2>1, <2>2, <2>3
  <2> QED
    BY <2>3, <2>4 DEF Saved
<1>3. ASSUME alert'.kind = "success" PROVE Saved(alert'.email)
  <2>1. CASE alert' = alert
    BY <2>1, <1>3 DEF NewsIsTrue
  <2>2. CASE alert' = NoAlert
    BY <2>2, <1>3 DEF NoAlert
  <2>3. CASE ProfileSaved /\ alert' # alert
    <3>1. /\ main # <<>> /\ Head(main).kind = "saved" /\ Head(main).ok
          /\ alert'.email = Head(main).email
      BY <1>3, <2>3 DEF ProfileSaved, PresentAlert, Runs
    <3>2. Head(main) = main[1] /\ 1 \in 1..Len(main)
      BY <3>1, <1>1, FirstTask
    <3> QED
      BY <3>1, <3>2 DEF NewsIsTrue
  <2>4. CASE SignUpDone /\ alert' # alert
    BY <1>3, <2>4 DEF SignUpDone, PresentAlert
  <2> QED
    BY <2>1, <2>2, <2>3, <2>4
       DEF AppNext, Tap, AuthStep, MainTask, StoreStep, TapLogin, TapCreate,
           TapSignUp, TapBack, TapAlert, TapLogout, BackendCreates, AuthSucceeds,
           AuthFails, PresentLogin, AuthChanged, SignInDone, ProfileSettles,
           ProfileExecutes, Kill, screens
<1>4. alert'.kind = "success" => Saved(alert.email)'
  <2>1. PICK e : e = alert'.email
    OBVIOUS
  <2>2. alert'.kind = "success" => Saved(e)'
    BY <2>1, <1>1, <1>3, SavedStays
  <2> QED
    BY <2>1, <2>2 DEF Saved
<1>5. \A i \in 1..Len(main') :
        main'[i].kind = "saved" /\ main'[i].ok => Saved(main[i].email)'
  BY <1>2
<1> QED
  BY <1>4, <1>5 DEF NewsIsTrue

-----------------------------------------------------------------------------
(* Accounts and their profiles                                             *)

\* The three stages of e's sign-up after its account was created: on its way
\* back, answered, and written to Firestore.
Created(e) == \E c \in calls : c.done /\ c.email = e
Completes(e) ==
    \E i \in 1..Len(main) :
        main[i].kind = "signUpDone" /\ main[i].ok /\ main[i].email = e
Written(e) == \E w \in 1..Len(docs) : docs[w].email = e

\* Every account is at one of them, unless its sign-up was cut off.
SignUpsGoOn ==
    /\ \A c \in calls : c.done => c.kind = "signUp"
    /\ \A e \in accounts \ orphaned : Created(e) \/ Completes(e) \/ Written(e)

\* A successful answer puts the notification and then the completion at the end
\* of the main queue.
LEMMA AnswerIsLast ==
    ASSUME AppTypeOK, NEW c \in calls, UpdateCurrentUser(c.email, Done(c, TRUE))
    PROVE  /\ Len(main) \in Nat /\ Len(main') = Len(main) + 2
           /\ Len(main) + 2 \in 1..Len(main')
           /\ \A i \in 1..Len(main) : main'[i] = main[i]
           /\ Done(c, TRUE) = <<main'[Len(main) + 2]>>
PROOF
<1> DEFINE m == Append(main, AuthTask(c.email))
           t == Task(IF c.kind = "signIn" THEN "signInDone" ELSE "signUpDone",
                     c.email, c.vc, TRUE)
<1>1. c \in CallType
  BY DEF AppTypeOK
<1>2. t \in TaskType /\ c.email \in AppUsers
  BY <1>1 DEF Task, TaskType, CallType, AppUsers
<1>3. /\ m \in Seq(TaskType) /\ Len(m) = Len(main) + 1 /\ Len(main) \in Nat
      /\ \A i \in 1..Len(main) : m[i] = main[i]
  BY <1>2, TaskTypes, AppendProperties, LenProperties DEF AppTypeOK
<1>4. main' = m \o <<t>> /\ Done(c, TRUE) = <<t>>
  BY DEF UpdateCurrentUser, Done
<1> HIDE DEF m, t
<1>5. main' = Append(m, t)
  BY <1>2, <1>3, <1>4, AppendIsConcat
<1>6. /\ Len(main') = Len(m) + 1
      /\ \A i \in 1..Len(m) : main'[i] = m[i]
      /\ main'[Len(m) + 1] = t
  BY <1>2, <1>3, <1>5, AppendProperties
<1>7. \A i \in 1..Len(main) : i \in 1..Len(m)
  BY <1>3
<1>8. Len(m) + 1 = Len(main) + 2 /\ Len(main) + 2 \in 1..Len(main')
  BY <1>3, <1>6
<1> QED
  BY <1>3, <1>4, <1>6, <1>7, <1>8

\* Outside of main-queue tasks and deaths the main queue only grows.
LEMMA MainGrows ==
    ASSUME AppIInv, AppNext, ~MainTask, ~Kill
    PROVE  /\ Len(main) \in Nat /\ Len(main') \in Nat /\ Len(main) <= Len(main')
           /\ \A i \in 1..Len(main) : main'[i] = main[i]
PROOF
<1> USE DEF AppIInv
<1>1. main \in Seq(TaskType) /\ Len(main) \in Nat
  BY LenProperties DEF AppTypeOK
<1>2. ASSUME NEW t \in TaskType, main' = Append(main, t)
      PROVE  /\ Len(main') = Len(main) + 1
             /\ \A i \in 1..Len(main) : main'[i] = main[i]
  BY <1>1, <1>2, AppendProperties
<1>3. CASE main' = main
  BY <1>1, <1>3
<1>4. CASE \E t \in TaskType : main' = Append(main, t)
  BY <1>1, <1>2, <1>4
<1>5. CASE TapLogout /\ main' # main
  <2>1. NoUser \in AppUsers /\ AuthTask(NoUser) \in TaskType
    BY TaskTypes DEF AppUsers
  <2>2. Append(main, AuthTask(NoUser)) \in Seq(TaskType)
    BY <1>1, <2>1, AppendProperties
  <2>3. main' = Append(main, AuthTask(NoUser))
    BY <1>5, <2>2, ConcatEmptySeq DEF TapLogout, UpdateCurrentUser
  <2> QED
    BY <2>1, <2>3, <1>4
<1>6. CASE AuthSucceeds
  <2>1. PICK c \in calls : UpdateCurrentUser(c.email, Done(c, TRUE))
    BY <1>6 DEF AuthSucceeds
  <2>2. /\ Len(main) \in Nat /\ Len(main') = Len(main) + 2
        /\ \A i \in 1..Len(main) : main'[i] = main[i]
    BY <2>1, AnswerIsLast
  <2> QED
    BY <2>2
<1>7. CASE AuthFails
  <2>1. PICK c \in calls : main' = main \o Done(c, FALSE)
    BY <1>7 DEF AuthFails
  <2>2. c \in CallType
    BY DEF AppTypeOK
  <2> DEFINE t == Task(IF c.kind = "signIn" THEN "signInDone" ELSE "signUpDone",
                       c.email, c.vc, FALSE)
  <2>3. t \in TaskType /\ main' = main \o <<t>>
    BY <2>1, <2>2 DEF Done, Task, TaskType, CallType, AppUsers
  <2> HIDE DEF t
  <2>4. main' = Append(main, t)
    BY <1>1, <2>3, AppendIsConcat
  <2> QED
    BY <2>3, <2>4, <1>4
<1>8. CASE ProfileSettles /\ main' # main
  <2>1. PICK t \in TaskType : main' = Append(main, t)
    BY <1>8, SettledTask
  <2> QED
    BY <2>1, <1>4
<1> QED
  BY <1>3, <1>5, <1>6, <1>7, <1>8
     DEF AppNext, Tap, AuthStep, StoreStep, TapLogin, TapCreate, TapSignUp, TapBack,
         TapAlert, BackendCreates, ProfileExecutes

\* A completion stays on its way until it has written the profile.
LEMMA CompletionStays ==
    ASSUME AppIInv, AppNext, ~Kill, NEW e, Completes(e)
    PROVE  Completes(e)' \/ Written(e)'
PROOF
<1> USE DEF AppIInv
<1>1. PICK i \in 1..Len(main) :
        main[i].kind = "signUpDone" /\ main[i].ok /\ main[i].email = e
  BY DEF Completes
<1>2. CASE ~MainTask
  <2>1. i \in 1..Len(main') /\ main'[i] = main[i]
    BY <1>2, MainGrows
  <2> QED
    BY <1>1, <2>1 DEF Completes
<1>3. CASE MainTask
  <2>1. main # <<>> /\ main' = Tail(main)
    BY <1>3 DEF MainTask, PresentLogin, AuthChanged, SignInDone, SignUpDone,
                ProfileSaved, Runs
  <2>2. /\ Head(main) = main[1] /\ Head(main) \in TaskType
        /\ Len(main) \in Nat \ {0} /\ Len(main') = Len(main) - 1
        /\ \A k \in 1..Len(main) - 1 : main'[k] = main[k + 1]
    BY <2>1, FirstTask
  <2>3. CASE i # 1
    <3>1. i - 1 \in 1..Len(main') /\ main'[i - 1] = main[i]
      BY <2>2, <2>3
    <3> QED
      BY <1>1, <3>1 DEF Completes
  <2>4. CASE i = 1
    <3> DEFINE doc == [email |-> Head(main).email, vc |-> Head(main).vc]
    <3>1. docs' = Append(docs, doc)
      BY <1>1, <1>3, <2>2, <2>4
         DEF MainTask, PresentLogin, AuthChanged, SignInDone, SignUpDone,
             ProfileSaved, Runs
    <3>2. doc \in Doc /\ doc.email = e
      BY <1>1, <2>2, <2>4 DEF TaskType, Doc
    <3>3. docs \in Seq(Doc) /\ Len(docs) \in Nat
      BY LenProperties DEF AppTypeOK, Doc
    <3> HIDE DEF doc
    <3>4. Len(docs') = Len(docs) + 1 /\ docs'[Len(docs) + 1] = doc
      BY <3>1, <3>2, <3>3, AppendProperties
    <3>5. Len(docs) + 1 \in 1..Len(docs')
      BY <3>3, <3>4
    <3> QED
      BY <3>2, <3>4, <3>5 DEF Written
  <2> QED
    BY <2>3, <2>4
<1> QED
  BY <1>2, <1>3

\* A profile that was written stays written.
LEMMA WrittenStays ==
    ASSUME AppTypeOK, AppNext, NEW e, Written(e)
    PROVE  Written(e)'
PROOF
<1>1. PICK w \in 1..Len(docs) : docs[w].email = e
  BY DEF Written
<1>2. /\ count \in Nat /\ count' \in Nat /\ count <= count'
      /\ count = Len(docs) /\ count' = Len(docs') /\ docs'[w] = docs[w]
  <2>1. /\ count' \in Nat /\ count <= count'
        /\ count = Len(docs) /\ count' = Len(docs')
        /\ \A k \in 1..count : docs'[k] = docs[k]
    BY ProfilesStay
  <2>2. count \in Nat
    BY DEF AppTypeOK
  <2> QED
    BY ONLY <1>1, <2>1, <2>2
<1>3. w \in 1..Len(docs') /\ docs'[w].email = e
  BY ONLY <1>1, <1>2
<1> QED
  BY <1>3 DEF Written

\* The backend's yes is passed on to the completion, or the sign-up is cut off.
LEMMA CreatedStays ==
    ASSUME AppIInv, SignUpsGoOn, AppNext, ~Kill, NEW e, Created(e)
    PROVE  Created(e)' \/ Completes(e)' \/ e \in orphaned'
PROOF
<1> USE DEF AppIInv
<1>1. PICK c \in calls : c.done /\ c.email = e
  BY DEF Created
<1>2. CASE c \in calls'
  BY <1>1, <1>2 DEF Created
<1>3. CASE BackendCreates
  <2>1. PICK d \in calls : /\ ~d.done
                           /\ calls' = (calls \ {d}) \cup {[d EXCEPT !.done = TRUE]}
    BY <1>3 DEF BackendCreates
  <2>2. c \in calls'
    BY <1>1, <2>1
  <2> QED
    BY <2>2, <1>2
<1>4. CASE AuthSucceeds /\ c \notin calls'
  <2>1. UpdateCurrentUser(c.email, Done(c, TRUE))
    BY <1>4 DEF AuthSucceeds
  <2>2. c.kind = "signUp"
    BY <1>1 DEF SignUpsGoOn
  <2>3. /\ Len(main) + 2 \in 1..Len(main')
        /\ main'[Len(main) + 2] = Task("signUpDone", c.email, c.vc, TRUE)
    BY <2>1, <2>2, AnswerIsLast DEF Done
  <2>4. /\ main'[Len(main) + 2].kind = "signUpDone" /\ main'[Len(main) + 2].ok
        /\ main'[Len(main) + 2].email = e
    BY <2>3, <1>1 DEF Task
  <2> QED
    BY <2>3, <2>4 DEF Completes
<1>5. CASE AuthFails /\ c \notin calls'
  BY <1>1, <1>5 DEF AuthFails
<1> QED
  BY <1>2, <1>3, <1>4, <1>5
     DEF AppNext, Tap, AuthStep, MainTask, StoreStep, TapLogin, TapCreate, TapSignUp,
         TapBack, TapAlert, TapLogout, Request, PresentLogin, AuthChanged,
         SignInDone, SignUpDone, ProfileSaved, ProfileSettles, ProfileExecutes,
         authVars

\* Only a sign-up can have been answered while the app does not know it.
LEMMA OnlySignUpsAreDone ==
    ASSUME AppTypeOK, SignUpsGoOn, AppNext
    PROVE  \A c \in calls' : c.done => c.kind = "signUp"
PROOF
<1>1. CASE BackendCreates
  <2>1. PICK d \in calls : /\ d.kind = "signUp"
                           /\ calls' = (calls \ {d}) \cup {[d EXCEPT !.done = TRUE]}
    BY <1>1 DEF BackendCreates
  <2>2. [d EXCEPT !.done = TRUE].kind = "signUp"
    <3>1. d \in CallType
      BY DEF AppTypeOK
    <3> QED
      BY <2>1, <3>1 DEF CallType
  <2> QED
    BY <2>1, <2>2 DEF SignUpsGoOn
<1>2. CASE TapLogin \/ TapCreate
  BY <1>2 DEF TapLogin, TapCreate, Request, SignUpsGoOn
<1>3. CASE calls' \subseteq calls
  BY <1>3 DEF SignUpsGoOn
<1> QED
  BY <1>1, <1>2, <1>3
     DEF AppNext, Tap, AuthStep, MainTask, StoreStep, TapSignUp, TapBack, TapAlert,
         TapLogout, AuthSucceeds, AuthFails, PresentLogin, AuthChanged, SignInDone,
         SignUpDone, ProfileSaved, ProfileSettles, ProfileExecutes, Kill, authVars

\* A new account's sign-up is on its way back, or died with the process; and
\* no account is ever taken off the list of those cut off.
LEMMA AccountsGrow ==
    ASSUME AppTypeOK, AppNext
    PROVE  /\ orphaned \subseteq orphaned'
           /\ \A e \in accounts' \ accounts : Created(e)' \/ e \in orphaned'
PROOF
<1>1. CASE BackendCreates
  <2>1. PICK c \in calls :
          /\ accounts' = accounts \cup {c.email}
          /\ calls' = (calls \ {c}) \cup {[c EXCEPT !.done = TRUE]}
          /\ orphaned' = orphaned
    BY <1>1 DEF BackendCreates
  <2> DEFINE d == [c EXCEPT !.done = TRUE]
  <2>2. d \in calls' /\ d.done /\ d.email = c.email
    <3>1. c \in CallType
      BY DEF AppTypeOK
    <3> QED
      BY <2>1, <3>1 DEF CallType
  <2> HIDE DEF d
  <2>3. ASSUME NEW e \in accounts' \ accounts PROVE Created(e)'
    <3>1. d.email = e
      BY <2>1, <2>2, <2>3
    <3> QED
      BY <2>2, <3>1 DEF Created
  <2> QED
    BY <2>1, <2>3
<1>2. CASE Kill
  BY <1>2 DEF Kill
<1>3. CASE accounts' = accounts /\ orphaned \subseteq orphaned'
  BY <1>3
<1> QED
  BY <1>1, <1>2, <1>3
     DEF AppNext, Tap, AuthStep, MainTask, StoreStep, TapLogin, TapCreate, TapSignUp,
         TapBack, TapAlert, TapLogout, AuthSucceeds, AuthFails, PresentLogin,
         AuthChanged, SignInDone, SignUpDone, ProfileSaved, ProfileSettles,
         ProfileExecutes, authVars

\* A death cuts off every sign-up that is between its two steps.
LEMMA KillCutsOff ==
    ASSUME AppTypeOK, Kill, NEW e, Created(e) \/ Completes(e)
    PROVE  e \in orphaned'
PROOF
<1>1. PICK made \in SUBSET {c \in calls : c.kind = "signUp" /\ ~c.done} :
        orphaned' = orphaned
          \cup ({c.email : c \in made} \ accounts)
          \cup {c.email : c \in {d \in calls : d.done}}
          \cup {main[i].email : i \in {j \in DOMAIN main :
                  main[j].kind = "signUpDone" /\ main[j].ok}}
  BY DEF Kill
<1>2. DOMAIN main = 1..Len(main)
  BY LenProperties DEF AppTypeOK
<1>3. CASE Created(e)
  BY <1>1, <1>3 DEF Created
<1>4. CASE Completes(e)
  BY <1>1, <1>2, <1>4 DEF Completes
<1> QED
  BY <1>3, <1>4

\* Every step keeps the sign-ups going.
LEMMA SignUpsKept == AppIInv /\ SignUpsGoOn /\ AppNext => SignUpsGoOn'
PROOF
<1> SUFFICES ASSUME AppIInv, SignUpsGoOn, AppNext PROVE SignUpsGoOn'
  OBVIOUS
<1>1. AppTypeOK
  BY DEF AppIInv
<1>2. ASSUME NEW e \in accounts' \ orphaned'
      PROVE  Created(e)' \/ Completes(e)' \/ Written(e)'
  <2>1. CASE e \notin accounts
    BY <1>1, <1>2, <2>1, AccountsGrow
  <2>2. CASE e \in accounts
    <3>1. e \in accounts \ orphaned
      BY <1>1, <1>2, <2>2, AccountsGrow
    <3>2. Created(e) \/ Completes(e) \/ Written(e)
      BY <3>1 DEF SignUpsGoOn
    <3>3. CASE Written(e)
      BY <1>1, <3>3, WrittenStays
    <3>4. CASE Kill /\ (Created(e) \/ Completes(e))
      BY <1>1, <1>2, <3>4, KillCutsOff
    <3>5. CASE ~Kill /\ Created(e)
      BY <1>2, <3>5, CreatedStays
    <3>6. CASE ~Kill /\ Completes(e)
      BY <3>6, CompletionStays
    <3> QED
      BY <3>2, <3>3, <3>4, <3>5, <3>6
  <2> QED
    BY <2>1, <2>2
<1>3. \A c \in calls' : c.done => c.kind = "signUp"
  BY <1>1, OnlySignUpsAreDone
<1> QED
  BY <1>2, <1>3 DEF SignUpsGoOn

-----------------------------------------------------------------------------
(* The theorems                                                            *)

\* The inductive invariant holds when the app is launched for the first time.
LEMMA AppInitIInv == AppInit => AppIInv
PROOF
<1> SUFFICES ASSUME AppInit PROVE AppIInv
  OBVIOUS
<1>1. AppTypeOK
  BY AppInitType
<1>2. OwnersQueue
  BY DEF AppInit, Store!UwqInit, OwnersQueue
<1>3. NotificationFirst
  <2>1. main = <<PresentLoginTask>>
    BY DEF AppInit, LaunchTasks
  <2> QED
    BY <2>1 DEF NotificationFirst, PresentLoginTask, Task
<1> QED
  BY <1>1, <1>2, <1>3 DEF AppIInv

\* Every step keeps it.
LEMMA AppNextIInv == AppIInv /\ [AppNext]_appVars => AppIInv'
PROOF
<1> SUFFICES ASSUME AppIInv, [AppNext]_appVars PROVE AppIInv'
  OBVIOUS
<1>1. CASE AppNext
  <2>1. AppTypeOK'
    BY <1>1, TapsKeepType, AuthKeepsType, MainTasksKeepType, StoreKeepsType,
       KillKeepsType DEF AppIInv, AppNext
  <2> QED
    BY <1>1, <2>1, OrderKept, OwnersKept DEF AppIInv
<1>2. CASE UNCHANGED appVars
  BY <1>2 DEF AppIInv, AppTypeOK, OwnersQueue, NotificationFirst, appVars, screens,
              store, authVars
<1> QED
  BY <1>1, <1>2

\* Type correctness of the application, whatever the taps, the order in which
\* the Auth backend answers and the deaths of the process.
THEOREM AppTypeCorrect == AppSpec => []AppTypeOK
PROOF
<1>1. AppIInv => AppTypeOK
  BY DEF AppIInv
<1> QED
  BY <1>1, AppInitIInv, AppNextIInv, PTL DEF AppSpec

\* A profile is only ever put into the write queue of its own user: dispatching
\* the notification before the completion (possiblyPostAuthStateChangeNotification
\* before signUp's completion) is enough, for any number of users, overlapping
\* requests, sign-outs and deaths of the process.
THEOREM ProfilesInOwnersQueue == AppSpec => []ProfileInOwnersQueue
PROOF
<1>1. AppIInv => ProfileInOwnersQueue
  BY DEF AppIInv, OwnersQueue, ProfileInOwnersQueue
<1> QED
  BY <1>1, AppInitIInv, AppNextIInv, PTL DEF AppSpec

\* Firestore's user is Auth's as soon as the notifications have been run, for any
\* interleaving of sign-ins, sign-outs, answers, deaths and launches: what the
\* last notification of updateCurrentUser carries is never overtaken.
THEOREM FirestoreIsTold == AppSpec => []FirestoreFollowsAuth
PROOF
<1>1. AppInit => AppIInv /\ AuthTold
  <2> SUFFICES ASSUME AppInit PROVE AuthTold
    BY AppInitIInv
  <2>1. main = <<PresentLoginTask>> /\ fsUser = authUser /\ Len(main) = 1
    BY DEF AppInit, LaunchTasks
  <2> QED
    BY <2>1 DEF AuthTold, PresentLoginTask, Task
<1>2. AppIInv /\ AuthTold /\ [AppNext]_appVars => (AppIInv /\ AuthTold)'
  <2>1. UNCHANGED appVars /\ AuthTold => AuthTold'
    BY DEF AuthTold, appVars, store, authVars
  <2> QED
    BY <2>1, AppNextIInv, ToldKept
<1>3. AppIInv /\ AuthTold => FirestoreFollowsAuth
  <2>1. AppTypeOK => DOMAIN main = 1..Len(main)
    BY LenProperties DEF AppTypeOK
  <2> QED
    BY <2>1 DEF AppIInv, AuthTold, FirestoreFollowsAuth
<1> QED
  BY <1>1, <1>2, <1>3, PTL DEF AppSpec

\* Nobody is told that a profile was saved that the backend does not have:
\* setData's completion is only called without an error for a write that was
\* committed, and a commit is never undone by a death, a change of user or a
\* later write.
THEOREM SuccessMeansSaved == AppSpec => []SuccessAlertMeansSaved
PROOF
<1>1. AppInit => AppIInv /\ NewsIsTrue
  <2> SUFFICES ASSUME AppInit PROVE NewsIsTrue
    BY AppInitIInv
  <2>1. main = <<PresentLoginTask>> /\ alert = NoAlert /\ Len(main) = 1
    BY DEF AppInit, LaunchTasks
  <2> QED
    BY <2>1 DEF NewsIsTrue, PresentLoginTask, Task, NoAlert
<1>2. AppIInv /\ NewsIsTrue /\ [AppNext]_appVars => (AppIInv /\ NewsIsTrue)'
  <2>1. UNCHANGED appVars /\ NewsIsTrue => NewsIsTrue'
    BY DEF NewsIsTrue, Saved, appVars, screens, store
  <2> QED
    BY <2>1, AppNextIInv, NewsKept
<1>3. AppIInv /\ NewsIsTrue => SuccessAlertMeansSaved
  BY DEF NewsIsTrue, Saved, SuccessAlertMeansSaved
<1> QED
  BY <1>1, <1>2, <1>3, PTL DEF AppSpec

\* createUser and setData are two steps, and nothing but a fault or a death of
\* the process comes between them: a screen that has gone, a second sign-up, a
\* sign-out or another sign-in leaves no account without its profile.
THEOREM NoAccountIsForgotten == AppSpec => []AccountsHaveProfiles
PROOF
<1>1. AppInit => AppIInv /\ SignUpsGoOn
  BY AppInitIInv DEF AppInit, SignUpsGoOn
<1>2. AppIInv /\ SignUpsGoOn /\ [AppNext]_appVars => (AppIInv /\ SignUpsGoOn)'
  <2>1. UNCHANGED appVars /\ SignUpsGoOn => SignUpsGoOn'
    BY DEF SignUpsGoOn, Created, Completes, Written, appVars, authVars
  <2> QED
    BY <2>1, AppNextIInv, SignUpsKept
<1>3. AppIInv /\ SignUpsGoOn => AccountsHaveProfiles
  <2>1. AppTypeOK => DOMAIN main = 1..Len(main) /\ DOMAIN docs = 1..Len(docs)
    BY LenProperties DEF AppTypeOK
  <2> QED
    BY <2>1 DEF AppIInv, SignUpsGoOn, Created, Completes, Written,
                AccountsHaveProfiles
<1> QED
  BY <1>1, <1>2, <1>3, PTL DEF AppSpec
=============================================================================
