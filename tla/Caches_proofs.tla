--------------------------- MODULE Caches_proofs ---------------------------
(***************************************************************************)
(* Proofs about the two keys by which requests are admitted: the profile   *)
(* of an account (Sessions) and the system configuration                   *)
(* (SubmissionWindow), for any number of requests of each kind.            *)
(***************************************************************************)
EXTENDS Sessions, SubmissionWindow, TLAPS

GuardedState ==
    {Idle, [pc |-> "load"]} \cup [pc : {"store", "admitted"}, profile : Profile]

SignInState ==
    {Idle, [pc |-> "done"]} \cup [pc : {"reload", "store"}, profile : Profile]

WriterState ==
    [pc : {"idle", "delete", "purge"}] \cup [pc : {"activate"}, then : {"idle", "purge"}]

SessionInv ==
    /\ account \in Profile
    /\ cached \in Profile \cup {NONE}
    /\ guards \in [Guards -> GuardedState]
    /\ signIns \in [SignIns -> SignInState]
    /\ writers \in [Writers -> WriterState]

LEMMA SessionStart == SessionInit => SessionInv
<1> SUFFICES ASSUME SessionInit PROVE SessionInv
  OBVIOUS
<1>1. account \in Profile
  BY DEF SessionInit, Profile, Status
<1>2. Idle \in GuardedState /\ Idle \in SignInState /\ Idle \in WriterState
  BY DEF Idle, GuardedState, SignInState, WriterState
<1> QED BY <1>1, <1>2 DEF SessionInit, SessionInv

LEMMA GuardKeepsTypes ==
    ASSUME SessionInv, NEW g \in Guards, GuardHit(g) \/ GuardMiss(g) \/ GuardStep(g)
    PROVE  SessionInv'
<1>1. guards[g] \in GuardedState /\ cached \in Profile \cup {NONE} /\ account \in Profile
  BY DEF SessionInv
<1>2. PICK x \in GuardedState : guards' = [guards EXCEPT ![g] = x]
  BY <1>1 DEF GuardHit, GuardMiss, GuardStep, GuardLoad, GuardStore, GuardEnds, GuardedState,
     Loaded, Idle
<1>3. guards' \in [Guards -> GuardedState]
  BY <1>2 DEF SessionInv
<1>4. cached' \in Profile \cup {NONE} /\ UNCHANGED <<account, signIns, writers>>
  BY <1>1 DEF GuardHit, GuardMiss, GuardStep, GuardLoad, GuardStore, GuardEnds, GuardedState,
     Idle
<1> QED BY <1>3, <1>4 DEF SessionInv

LEMMA SignInKeepsTypes ==
    ASSUME SessionInv, NEW s \in SignIns, SignInCheck(s) \/ SignInStep(s)
    PROVE  SessionInv'
<1>1. signIns[s] \in SignInState /\ cached \in Profile \cup {NONE} /\ account \in Profile
  BY DEF SessionInv
<1>2. PICK x \in SignInState : signIns' = [signIns EXCEPT ![s] = x]
  BY <1>1 DEF SignInCheck, SignInStep, SignInReload, SignInStore, SignInDies, SignInState,
     Loaded, Idle
<1>3. signIns' \in [SignIns -> SignInState]
  BY <1>2 DEF SessionInv
<1>4. cached' \in Profile \cup {NONE} /\ UNCHANGED <<account, guards, writers>>
  BY <1>1 DEF SignInCheck, SignInStep, SignInReload, SignInStore, SignInDies, SignInState,
     Idle
<1> QED BY <1>3, <1>4 DEF SessionInv

LEMMA WriterKeepsTypes ==
    ASSUME SessionInv, NEW w \in Writers,
           Change(w) \/ DeleteDeactivates(w) \/ FindToken(w) \/ WriterStep(w)
    PROVE  SessionInv'
<1>1. writers[w] \in WriterState /\ cached \in Profile \cup {NONE} /\ account \in Profile
  BY DEF SessionInv
<1>2. PICK x \in WriterState : writers' = [writers EXCEPT ![w] = x]
  BY <1>1 DEF Change, DeleteDeactivates, FindToken, WriterStep, DeleteDeletes, Activate,
     Purge, WriterDies, WriterState, Idle
<1>3. writers' \in [Writers -> WriterState]
  BY <1>2 DEF SessionInv
<1>4. account' \in Profile
  BY <1>1 DEF Change, DeleteDeactivates, FindToken, WriterStep, DeleteDeletes, Activate,
     Purge, WriterDies, Profile, Status
<1>5. cached' \in Profile \cup {NONE} /\ UNCHANGED <<guards, signIns>>
  BY <1>1 DEF Change, DeleteDeactivates, FindToken, WriterStep, DeleteDeletes, Activate,
     Purge, WriterDies
<1> QED BY <1>3, <1>4, <1>5 DEF SessionInv

LEMMA SessionStep == SessionInv /\ [SessionNext]_sessionVars => SessionInv'
<1> SUFFICES ASSUME SessionInv, [SessionNext]_sessionVars PROVE SessionInv'
  OBVIOUS
<1>1. CASE ProfileExpires
  BY <1>1 DEF ProfileExpires, KeyExpires, SessionInv
<1>2. CASE UNCHANGED sessionVars
  BY <1>2 DEF sessionVars, SessionInv
<1> QED BY <1>1, <1>2, GuardKeepsTypes, SignInKeepsTypes, WriterKeepsTypes DEF SessionNext

LEMMA SessionInvAlways == SessionSpec => []SessionInv
<1> QED BY SessionStart, SessionStep, PTL DEF SessionSpec

\* Account, profile and requests are well formed for any number of requests: in
\* particular a sign-in that finds its account deleted when it loads it again
\* still stores a profile (AuthService.signIn).
THEOREM SessionTypes == SessionSpec => []SessionTypeOK
<1>1. SessionInv => SessionTypeOK
  BY DEF SessionInv, SessionTypeOK, GuardedState, SignInState, WriterState
<1> QED BY <1>1, SessionInvAlways, PTL
----------------------------------------------------------------------------
\* The profiles held of the account: by the key, by requests that are about to
\* store one or go on with one, and by sign-ins.
ProfilesHeld ==
    ({cached} \ {NONE})
      \cup {guards[g].profile : g \in {h \in Guards : guards[h].pc \in {"store", "admitted"}}}
      \cup {signIns[s].profile : s \in {t \in SignIns : signIns[t].pc \in {"reload", "store"}}}

Profiles == INSTANCE CopiedSource WITH source <- account, copies <- ProfilesHeld

LEMMA HeldProfile ==
    ASSUME NEW p
    PROVE  p \in ProfilesHeld <=>
             \/ cached = p /\ p # NONE
             \/ \E g \in Guards : /\ guards[g].pc \in {"store", "admitted"}
                                 /\ guards[g].profile = p
             \/ \E s \in SignIns : /\ signIns[s].pc \in {"reload", "store"}
                                  /\ signIns[s].profile = p
BY DEF ProfilesHeld

\* A request that has got a copy has it from the account or from the key, and one
\* that stores a copy stores its own.
LEMMA GuardCopies ==
    ASSUME SessionInv, NEW g \in Guards, GuardHit(g) \/ GuardMiss(g) \/ GuardStep(g)
    PROVE  ProfilesHeld' \subseteq ProfilesHeld \cup (IF Usable(account) THEN {account} ELSE {})
<1>1. guards \in [Guards -> GuardedState] /\ guards[g] \in GuardedState
  BY DEF SessionInv
<1>2. PICK x : guards' = [guards EXCEPT ![g] = x] /\ x = guards'[g]
  BY <1>1 DEF GuardHit, GuardMiss, GuardStep, GuardLoad, GuardStore, GuardEnds
<1>3. \A h \in Guards : h # g => guards'[h] = guards[h]
  BY <1>1, <1>2
<1>4. x.pc \in {"store", "admitted"} =>
        \/ x.profile = cached /\ cached # NONE
        \/ x.profile = account /\ Usable(account)
        \/ x.profile = guards[g].profile /\ guards[g].pc = "store"
  BY <1>1, <1>2 DEF GuardHit, GuardMiss, GuardStep, GuardLoad, GuardStore, GuardEnds, Loaded,
     Idle
<1>5. \/ cached' = cached
      \/ cached' = guards[g].profile /\ guards[g].pc = "store"
  BY DEF GuardHit, GuardMiss, GuardStep, GuardLoad, GuardStore, GuardEnds
<1>6. signIns' = signIns
  BY DEF GuardHit, GuardMiss, GuardStep, GuardLoad, GuardStore, GuardEnds
<1>7. ASSUME NEW p \in ProfilesHeld'
      PROVE  p \in ProfilesHeld \cup (IF Usable(account) THEN {account} ELSE {})
  <2>1. \/ cached' = p /\ p # NONE
        \/ \E h \in Guards : /\ guards'[h].pc \in {"store", "admitted"}
                            /\ guards'[h].profile = p
        \/ \E s \in SignIns : /\ signIns'[s].pc \in {"reload", "store"}
                             /\ signIns'[s].profile = p
    BY DEF ProfilesHeld
  <2> QED BY <1>2, <1>3, <1>4, <1>5, <1>6, <2>1, HeldProfile
<1> QED BY <1>7

LEMMA SignInCopies ==
    ASSUME SessionInv, NEW s \in SignIns, SignInCheck(s) \/ SignInStep(s)
    PROVE  /\ ProfilesHeld' \subseteq ProfilesHeld \cup {account}
           /\ Usable(account) \/ signIns[s].pc \in {"reload", "store"}
<1>1. signIns \in [SignIns -> SignInState] /\ signIns[s] \in SignInState
  BY DEF SessionInv
<1>2. PICK x : signIns' = [signIns EXCEPT ![s] = x] /\ x = signIns'[s]
  BY <1>1 DEF SignInCheck, SignInStep, SignInReload, SignInStore, SignInDies
<1>3. \A t \in SignIns : t # s => signIns'[t] = signIns[t]
  BY <1>1, <1>2
<1>4. x.pc \in {"reload", "store"} =>
        \/ x.profile = account
        \/ x.profile = signIns[s].profile /\ signIns[s].pc = "reload"
  BY <1>1, <1>2 DEF SignInCheck, SignInStep, SignInReload, SignInStore, SignInDies, Loaded,
     Idle
<1>5. \/ cached' = cached
      \/ cached' = signIns[s].profile /\ signIns[s].pc = "store"
  BY DEF SignInCheck, SignInStep, SignInReload, SignInStore, SignInDies
<1>6. guards' = guards
  BY DEF SignInCheck, SignInStep, SignInReload, SignInStore, SignInDies
<1>7. ASSUME NEW p \in ProfilesHeld'
      PROVE  p \in ProfilesHeld \cup {account}
  <2>1. \/ cached' = p /\ p # NONE
        \/ \E h \in Guards : /\ guards'[h].pc \in {"store", "admitted"}
                            /\ guards'[h].profile = p
        \/ \E t \in SignIns : /\ signIns'[t].pc \in {"reload", "store"}
                             /\ signIns'[t].profile = p
    BY DEF ProfilesHeld
  <2> QED BY <1>2, <1>3, <1>4, <1>5, <1>6, <2>1, HeldProfile
<1>8. Usable(account) \/ signIns[s].pc \in {"reload", "store"}
  BY DEF SignInCheck, SignInStep, SignInReload, SignInStore, SignInDies
<1> QED BY <1>7, <1>8

LEMMA WriterCopies ==
    ASSUME \/ ProfileExpires
           \/ \E w \in Writers :
                Change(w) \/ DeleteDeactivates(w) \/ FindToken(w) \/ WriterStep(w)
    PROVE  ProfilesHeld' \subseteq ProfilesHeld
<1>1. UNCHANGED <<guards, signIns>> /\ cached' \in {cached, NONE}
  BY DEF ProfileExpires, KeyExpires, Change, DeleteDeactivates, FindToken, WriterStep,
     DeleteDeletes, Activate, Purge, WriterDies
<1> QED BY <1>1 DEF ProfilesHeld

\* The key and the requests hold nothing but copies of the account, each made
\* of it as it was or of another copy, whichever loads, sign-ins and purges
\* cross or are lost (AuthenticationGuard, signIn and every writer).
THEOREM ProfilesAreCopies == SessionSpec => Profiles!CopySpec
<1>1. SessionInit => Profiles!CopyInit
  BY DEF SessionInit, Profiles!CopyInit, ProfilesHeld, Idle
<1>2. SessionInv /\ [SessionNext]_sessionVars => [Profiles!CopyNext]_<<account, ProfilesHeld>>
  <2> SUFFICES ASSUME SessionInv, [SessionNext]_sessionVars
               PROVE  [Profiles!CopyNext]_<<account, ProfilesHeld>>
    OBVIOUS
  <2>1. CASE UNCHANGED sessionVars
    BY <2>1 DEF sessionVars, ProfilesHeld
  <2>2. CASE SessionNext
    <3>1. ProfilesHeld' \subseteq ProfilesHeld \cup {account}
      BY <2>2, GuardCopies, SignInCopies, WriterCopies DEF SessionNext
    <3> QED BY <3>1 DEF Profiles!CopyNext
  <2> QED BY <2>1, <2>2
<1> QED BY <1>1, <1>2, SessionInvAlways, PTL DEF SessionSpec, Profiles!CopySpec,
       Profiles!copyVars

\* No request is admitted by a profile that the account never had
\* (AuthenticationGuard).
THEOREM AdmittedAsOnceWas ==
    ASSUME NEW CONSTANT p
    PROVE  SessionSpec /\ [](account # p) =>
             [](\A g \in Guards : guards[g].pc = "admitted" => guards[g].profile # p)
<1> DEFINE Never == p \notin ProfilesHeld
<1>1. SessionInit => Never
  BY DEF SessionInit, ProfilesHeld, Idle
<1>2. Never /\ account # p /\ (account # p)' /\ [Profiles!CopyNext]_<<account, ProfilesHeld>>
        => Never'
  BY DEF Profiles!CopyNext
<1>3. Never => \A g \in Guards : guards[g].pc = "admitted" => guards[g].profile # p
  BY HeldProfile
<1> QED BY <1>1, <1>2, <1>3, ProfilesAreCopies, PTL DEF SessionSpec, Profiles!CopySpec,
       Profiles!copyVars

\* Every profile that is held is that of the account, which may be used.
AccountSettled == ProfilesHeld \subseteq (IF Usable(account) THEN {account} ELSE {})

\* Once that is so it stays so until the account changes, and every request
\* admitted in the meantime is admitted by the account as it is; none is when
\* the account is blocked or deleted.  Of ChangesReachSessions this is the part
\* that needs no fairness (AuthenticationGuard, signIn, update, remove).
THEOREM SettledSessionsStay ==
    SessionSpec =>
      [][AccountSettled /\ account' = account =>
           /\ AccountSettled'
           /\ \A g \in Guards : guards'[g].pc = "admitted" =>
                Usable(account) /\ guards'[g].profile = account]_sessionVars
<1> DEFINE Stays ==
      AccountSettled /\ account' = account =>
        /\ AccountSettled'
        /\ \A g \in Guards : guards'[g].pc = "admitted" =>
             Usable(account) /\ guards'[g].profile = account
<1>1. SessionInv /\ [SessionNext]_sessionVars => [Stays]_sessionVars
  <2> SUFFICES ASSUME SessionInv, SessionNext, AccountSettled, account' = account
               PROVE  /\ AccountSettled'
                      /\ \A g \in Guards : guards'[g].pc = "admitted" =>
                           Usable(account) /\ guards'[g].profile = account
    OBVIOUS
  <2>1. ASSUME NEW s \in SignIns, signIns[s].pc \in {"reload", "store"} PROVE Usable(account)
    BY <2>1, HeldProfile DEF AccountSettled
  <2>2. ProfilesHeld' \subseteq (IF Usable(account) THEN {account} ELSE {})
    BY <2>1, GuardCopies, SignInCopies, WriterCopies DEF SessionNext, AccountSettled
  <2>3. AccountSettled'
    BY <2>2 DEF AccountSettled, Usable
  <2>4. ASSUME NEW g \in Guards, guards'[g].pc = "admitted"
        PROVE  guards'[g].profile \in ProfilesHeld'
    BY <2>4 DEF ProfilesHeld
  <2> QED BY <2>2, <2>3, <2>4
<1> QED BY <1>1, SessionInvAlways, PTL DEF SessionSpec
----------------------------------------------------------------------------
RequestState ==
    {Idle} \cup [pc : {"load", "create", "admitted", "refused"}, what : Requested]
      \cup [pc : {"insert"}, what : Requested, found : Configuration \cup {NONE}]
      \cup [pc : {"store"}, what : Requested, config : Configuration]

UpdateState ==
    {Idle} \cup [pc : {"create", "save", "refresh"}, config : Configuration]
      \cup [pc : {"insert", "write"}, config : Configuration,
            found : Configuration \cup {NONE}]

\* A save that has found the row finds it again when it writes.
RowStays ==
    /\ \A g \in Guards : guards[g].pc = "insert" /\ guards[g].found # NONE => stored # NONE
    /\ \A u \in Updates :
         updates[u].pc \in {"insert", "write"} /\ updates[u].found # NONE => stored # NONE

WindowInv ==
    /\ stored \in Configuration \cup {NONE}
    /\ cached \in Configuration \cup {NONE}
    /\ guards \in [Guards -> RequestState]
    /\ updates \in [Updates -> UpdateState]
    /\ RowStays

LEMMA RequestShape ==
    ASSUME NEW x \in RequestState
    PROVE  /\ x.pc = "idle" => x = Idle
           /\ x.pc # "idle" => x.what \in Requested
           /\ x.pc = "insert" => x.found \in Configuration \cup {NONE}
           /\ x.pc = "store" => x.config \in Configuration
           /\ x.pc \in {"idle", "load", "create", "insert", "store", "admitted", "refused"}
BY DEF RequestState, Idle

LEMMA UpdateShape ==
    ASSUME NEW x \in UpdateState
    PROVE  /\ x.pc = "idle" => x = Idle
           /\ x.pc # "idle" => x.config \in Configuration
           /\ x.pc \in {"insert", "write"} => x.found \in Configuration \cup {NONE}
           /\ x.pc \in {"idle", "create", "insert", "save", "write", "refresh"}
BY DEF UpdateState, Idle

LEMMA IdleStates ==
    Idle.pc = "idle" /\ Idle \in RequestState /\ Idle \in UpdateState
BY DEF Idle, RequestState, UpdateState

LEMMA DefaultIsConfiguration == Default \in Configuration
BY DEF Default, Configuration

LEMMA ChangedIsConfiguration ==
    ASSUME NEW c \in Configuration, NEW b \in Bodies
    PROVE  Changed(c, b) \in Configuration
<1>1. PICK S \in SUBSET Switches : b \in [S -> BOOLEAN]
  BY BodiesAssumption
<1> QED BY <1>1 DEF Changed, Configuration

\* A save leaves a configuration, which has the switches of the copy that differ
\* from what the save had found.
LEMMA SaveStores ==
    ASSUME stored \in Configuration \cup {NONE}, NEW copy \in Configuration,
           NEW found \in Configuration \cup {NONE}, found # NONE => stored # NONE,
           Save(copy, found)
    PROVE  /\ stored' \in Configuration
           /\ found = NONE => stored' = copy
           /\ found # NONE => \A s \in Switches : copy[s] # found[s] => stored'[s] = copy[s]
<1>1. CASE found = NONE
  BY <1>1 DEF Save
<1>2. CASE found # NONE
  <2>1. stored' = [s \in Switches |-> Column(stored[s], copy[s], found[s])]
    BY <1>2 DEF Save
  <2>2. \A s \in Switches : Column(stored[s], copy[s], found[s]) \in BOOLEAN
    BY <1>2 DEF Column, Configuration
  <2>3. \A s \in Switches : copy[s] # found[s] => Column(stored[s], copy[s], found[s]) = copy[s]
    BY DEF Column
  <2> QED BY <1>2, <2>1, <2>2, <2>3 DEF Configuration
<1> QED BY <1>1, <1>2
----------------------------------------------------------------------------
LEMMA WindowStart == WindowInit => WindowInv
<1> SUFFICES ASSUME WindowInit PROVE WindowInv
  OBVIOUS
<1>1. stored \in Configuration \cup {NONE}
  BY DefaultIsConfiguration DEF WindowInit
<1>2. RowStays
  BY DEF WindowInit, RowStays, Idle
<1> QED BY <1>1, <1>2, IdleStates DEF WindowInit, WindowInv

\* What becomes of a request when the guard takes a step for it.
LEMMA AdmissionGoesOn ==
    ASSUME WindowInv, NEW g \in Guards, Hit(g) \/ Miss(g) \/ AdmissionStep(g)
    PROVE  \E x \in RequestState :
             /\ guards' = [guards EXCEPT ![g] = x]
             /\ updates' = updates
             /\ stored' = stored \/ (guards[g].pc = "insert" /\ Save(Default, guards[g].found))
             /\ cached' = cached \/ (cached' = guards[g].config /\ guards[g].pc = "store")
             /\ x.pc = "create" => stored = NONE
             /\ x.pc = "insert" => guards[g].pc = "create" /\ x.found = stored
             /\ x.pc = "store" => \/ x.config = stored /\ stored # NONE
                                  \/ x.config = Default /\ guards[g].pc = "insert"
             /\ x.pc = "admitted" =>
                  \/ Allowed(x.what, cached) /\ cached # NONE
                  \/ Allowed(x.what, guards[g].config) /\ guards[g].pc = "store"
<1>1. PICK y \in RequestState : y = guards[g]
  BY DEF WindowInv
<1>2. stored \in Configuration \cup {NONE} /\ cached \in Configuration \cup {NONE}
  BY DEF WindowInv
<1>3. CASE Hit(g)
  <2>1. PICK what \in Requested :
          guards' = [guards EXCEPT ![g] =
              [pc |-> IF Allowed(what, cached) THEN "admitted" ELSE "refused", what |-> what]]
    BY <1>3 DEF Hit
  <2>2. PICK x : x = [pc |-> IF Allowed(what, cached) THEN "admitted" ELSE "refused",
                      what |-> what]
    OBVIOUS
  <2>3. /\ x \in RequestState /\ x.pc \in {"admitted", "refused"} /\ x.what = what
        /\ x.pc = "admitted" => Allowed(what, cached)
    BY <2>2 DEF RequestState
  <2> QED BY <1>3, <2>1, <2>2, <2>3 DEF Hit
<1>4. CASE Miss(g)
  <2>1. PICK what \in Requested : guards' = [guards EXCEPT ![g] = [pc |-> "load", what |-> what]]
    BY <1>4 DEF Miss
  <2>2. PICK x : x = [pc |-> "load", what |-> what]
    OBVIOUS
  <2>3. x \in RequestState /\ x.pc = "load"
    BY <2>2 DEF RequestState
  <2> QED BY <1>4, <2>1, <2>2, <2>3 DEF Miss
<1>5. CASE Load(g)
  <2>1. PICK x : x = IF stored = NONE THEN [pc |-> "create", what |-> y.what]
                     ELSE [pc |-> "store", what |-> y.what, config |-> stored]
    OBVIOUS
  <2>2. y.what \in Requested
    BY <1>1, <1>5, RequestShape DEF Load
  <2>3. x \in RequestState
    BY <1>2, <2>1, <2>2 DEF RequestState
  <2>4. \/ x.pc = "create" /\ stored = NONE
        \/ x.pc = "store" /\ x.config = stored /\ stored # NONE
    BY <2>1
  <2>5. /\ guards' = [guards EXCEPT ![g] = x] /\ UNCHANGED <<stored, cached, updates>>
    BY <1>1, <1>5, <2>1 DEF Load
  <2> QED BY <2>3, <2>4, <2>5
<1>6. CASE LookAgain(g)
  <2>1. PICK x : x = [pc |-> "insert", what |-> y.what, found |-> stored]
    OBVIOUS
  <2>2. y.what \in Requested
    BY <1>1, <1>6, RequestShape DEF LookAgain
  <2>3. x \in RequestState /\ x.pc = "insert" /\ x.found = stored
    BY <1>2, <2>1, <2>2 DEF RequestState
  <2>4. /\ guards' = [guards EXCEPT ![g] = x] /\ UNCHANGED <<stored, cached, updates>>
        /\ guards[g].pc = "create"
    BY <1>1, <1>6, <2>1 DEF LookAgain
  <2> QED BY <2>3, <2>4
<1>7. CASE CreateRow(g)
  <2>1. PICK x : x = [pc |-> "store", what |-> y.what, config |-> Default]
    OBVIOUS
  <2>2. y.what \in Requested
    BY <1>1, <1>7, RequestShape DEF CreateRow
  <2>3. x \in RequestState /\ x.pc = "store" /\ x.config = Default
    BY <2>1, <2>2, DefaultIsConfiguration DEF RequestState
  <2>4. /\ guards' = [guards EXCEPT ![g] = x] /\ UNCHANGED <<cached, updates>>
        /\ guards[g].pc = "insert" /\ Save(Default, guards[g].found)
    BY <1>1, <1>7, <2>1 DEF CreateRow
  <2> QED BY <2>3, <2>4
<1>8. CASE Store(g)
  <2>1. PICK x : x = [pc |-> IF Allowed(y.what, y.config) THEN "admitted" ELSE "refused",
                      what |-> y.what]
    OBVIOUS
  <2>2. y.what \in Requested
    BY <1>1, <1>8, RequestShape DEF Store
  <2>3. /\ x \in RequestState /\ x.pc \in {"admitted", "refused"} /\ x.what = y.what
        /\ x.pc = "admitted" => Allowed(y.what, y.config)
    BY <2>1, <2>2 DEF RequestState
  <2>4. /\ guards' = [guards EXCEPT ![g] = x] /\ UNCHANGED <<stored, updates>>
        /\ guards[g].pc = "store" /\ cached' = guards[g].config
    BY <1>1, <1>8, <2>1 DEF Store
  <2> QED BY <1>1, <2>3, <2>4
<1>9. CASE Finish(g)
  BY <1>9, IdleStates DEF Finish
<1> QED BY <1>3, <1>4, <1>5, <1>6, <1>7, <1>8, <1>9 DEF AdmissionStep

\* ... and of an update.
LEMMA UpdateGoesOn ==
    ASSUME WindowInv, NEW u \in Updates, UpdateLoad(u) \/ UpdateMisses(u) \/ UpdateStep(u)
    PROVE  \E x \in UpdateState :
             /\ updates' = [updates EXCEPT ![u] = x]
             /\ guards' = guards
             /\ \/ stored' = stored
                \/ updates[u].pc = "insert" /\ Save(Default, updates[u].found)
                \/ updates[u].pc = "write" /\ Save(updates[u].config, updates[u].found)
             /\ cached' = cached \/ (cached' = updates[u].config /\ updates[u].pc = "refresh")
             /\ x.pc \in {"insert", "write"} => x.found = stored
             /\ x.pc = "write" => updates[u].pc = "save" /\ x.config = updates[u].config
             /\ x.pc = "refresh" =>
                  /\ updates[u].pc = "write" /\ x.config = updates[u].config
                  /\ Save(updates[u].config, updates[u].found)
<1>1. PICK y \in UpdateState : y = updates[u]
  BY DEF WindowInv
<1>2. stored \in Configuration \cup {NONE} /\ cached \in Configuration \cup {NONE}
  BY DEF WindowInv
<1>3. CASE UpdateLoad(u)
  <2>1. PICK b \in Bodies :
          updates' = [updates EXCEPT ![u] = [pc |-> "save", config |-> Changed(stored, b)]]
    BY <1>3 DEF UpdateLoad
  <2>2. PICK x : x = [pc |-> "save", config |-> Changed(stored, b)]
    OBVIOUS
  <2>3. x \in UpdateState /\ x.pc = "save"
    BY <1>2, <1>3, <2>2, ChangedIsConfiguration DEF UpdateState, UpdateLoad
  <2> QED BY <1>3, <2>1, <2>2, <2>3 DEF UpdateLoad
<1>4. CASE UpdateMisses(u)
  <2>1. PICK x : x = [pc |-> "create", config |-> Default]
    OBVIOUS
  <2>2. x \in UpdateState /\ x.pc = "create"
    BY <2>1, DefaultIsConfiguration DEF UpdateState
  <2> QED BY <1>4, <2>1, <2>2 DEF UpdateMisses
<1>5. CASE UpdateSelects(u)
  <2>1. PICK x : x = [pc |-> IF y.pc = "create" THEN "insert" ELSE "write",
                      config |-> y.config, found |-> stored]
    OBVIOUS
  <2>2. y.pc \in {"create", "save"} /\ y.config \in Configuration
    BY <1>1, <1>5, UpdateShape DEF UpdateSelects
  <2>3. /\ x \in UpdateState /\ x.pc \in {"insert", "write"} /\ x.found = stored
        /\ x.config = y.config
        /\ x.pc = "write" => y.pc = "save"
    BY <1>2, <2>1, <2>2 DEF UpdateState
  <2>4. updates' = [updates EXCEPT ![u] = x] /\ UNCHANGED <<stored, cached, guards>>
    BY <1>1, <1>5, <2>1 DEF UpdateSelects
  <2> QED BY <1>1, <2>3, <2>4
<1>6. CASE UpdateCreates(u)
  <2>1. PICK b \in Bodies :
          updates' = [updates EXCEPT ![u] = [pc |-> "save", config |-> Changed(Default, b)]]
    BY <1>6 DEF UpdateCreates
  <2>2. PICK x : x = [pc |-> "save", config |-> Changed(Default, b)]
    OBVIOUS
  <2>3. x \in UpdateState /\ x.pc = "save"
    BY <2>2, ChangedIsConfiguration, DefaultIsConfiguration DEF UpdateState
  <2> QED BY <1>6, <2>1, <2>2, <2>3 DEF UpdateCreates
<1>7. CASE UpdateWrites(u)
  <2>1. PICK x : x = [pc |-> "refresh", config |-> y.config]
    OBVIOUS
  <2>2. y.config \in Configuration
    BY <1>1, <1>7, UpdateShape DEF UpdateWrites
  <2>3. x \in UpdateState /\ x.pc = "refresh" /\ x.config = y.config
    BY <2>1, <2>2 DEF UpdateState
  <2>4. /\ updates' = [updates EXCEPT ![u] = x] /\ UNCHANGED <<cached, guards>>
        /\ updates[u].pc = "write" /\ Save(updates[u].config, updates[u].found)
    BY <1>1, <1>7, <2>1 DEF UpdateWrites
  <2> QED BY <1>1, <2>3, <2>4
<1>8. CASE UpdateRefresh(u) \/ UpdateDies(u)
  BY <1>8, IdleStates DEF UpdateRefresh, UpdateDies
<1> QED BY <1>3, <1>4, <1>5, <1>6, <1>7, <1>8 DEF UpdateStep

LEMMA AdmissionKeepsTypes ==
    ASSUME WindowInv, NEW g \in Guards, Hit(g) \/ Miss(g) \/ AdmissionStep(g)
    PROVE  WindowInv' /\ (stored # NONE => stored' # NONE)
<1>1. PICK x \in RequestState :
        /\ guards' = [guards EXCEPT ![g] = x]
        /\ updates' = updates
        /\ stored' = stored \/ (guards[g].pc = "insert" /\ Save(Default, guards[g].found))
        /\ cached' = cached \/ (cached' = guards[g].config /\ guards[g].pc = "store")
        /\ x.pc = "insert" => x.found = stored
  BY AdmissionGoesOn
<1>2. guards \in [Guards -> RequestState] /\ guards[g] \in RequestState
  BY DEF WindowInv
<1>3. \A h \in Guards : guards'[h] = IF h = g THEN x ELSE guards[h]
  BY <1>1, <1>2
<1>4. stored' = stored \/ stored' \in Configuration
  BY <1>1, <1>2, RequestShape, SaveStores, DefaultIsConfiguration DEF WindowInv, RowStays
<1>5. stored # NONE => stored' # NONE
  BY <1>4, NoConfigurationAssumption
<1>6. cached' \in Configuration \cup {NONE} /\ stored' \in Configuration \cup {NONE}
  BY <1>1, <1>2, <1>4, RequestShape DEF WindowInv
<1>7. guards' \in [Guards -> RequestState] /\ updates' \in [Updates -> UpdateState]
  BY <1>1, <1>2 DEF WindowInv
<1>8. RowStays'
  BY <1>1, <1>3, <1>5 DEF RowStays, WindowInv
<1> QED BY <1>5, <1>6, <1>7, <1>8 DEF WindowInv

LEMMA UpdateKeepsTypes ==
    ASSUME WindowInv, NEW u \in Updates, UpdateLoad(u) \/ UpdateMisses(u) \/ UpdateStep(u)
    PROVE  WindowInv' /\ (stored # NONE => stored' # NONE)
<1>1. PICK x \in UpdateState :
        /\ updates' = [updates EXCEPT ![u] = x]
        /\ guards' = guards
        /\ \/ stored' = stored
           \/ updates[u].pc = "insert" /\ Save(Default, updates[u].found)
           \/ updates[u].pc = "write" /\ Save(updates[u].config, updates[u].found)
        /\ cached' = cached \/ (cached' = updates[u].config /\ updates[u].pc = "refresh")
        /\ x.pc \in {"insert", "write"} => x.found = stored
  BY UpdateGoesOn
<1>2. updates \in [Updates -> UpdateState] /\ updates[u] \in UpdateState
  BY DEF WindowInv
<1>3. \A v \in Updates : updates'[v] = IF v = u THEN x ELSE updates[v]
  BY <1>1, <1>2
<1>4. stored' = stored \/ stored' \in Configuration
  BY <1>1, <1>2, UpdateShape, SaveStores, DefaultIsConfiguration DEF WindowInv, RowStays
<1>5. stored # NONE => stored' # NONE
  BY <1>4, NoConfigurationAssumption
<1>6. cached' \in Configuration \cup {NONE} /\ stored' \in Configuration \cup {NONE}
  BY <1>1, <1>2, <1>4, UpdateShape DEF WindowInv
<1>7. updates' \in [Updates -> UpdateState] /\ guards' \in [Guards -> RequestState]
  BY <1>1, <1>2 DEF WindowInv
<1>8. RowStays'
  BY <1>1, <1>3, <1>5 DEF RowStays, WindowInv
<1> QED BY <1>5, <1>6, <1>7, <1>8 DEF WindowInv

LEMMA WindowStep == WindowInv /\ [WindowNext]_windowVars => WindowInv'
<1> SUFFICES ASSUME WindowInv, [WindowNext]_windowVars PROVE WindowInv'
  OBVIOUS
<1>1. CASE ConfigurationExpires
  BY <1>1 DEF ConfigurationExpires, KeyExpires, WindowInv, RowStays
<1>2. CASE UNCHANGED windowVars
  BY <1>2 DEF windowVars, WindowInv, RowStays
<1> QED BY <1>1, <1>2, AdmissionKeepsTypes, UpdateKeepsTypes DEF WindowNext

LEMMA WindowInvAlways == WindowSpec => []WindowInv
<1> QED BY WindowStart, WindowStep, PTL DEF WindowSpec

\* The row, its copy and the requests are well formed for any bodies and any
\* number of requests: an update of some switches saves and stores all of them,
\* and the row, once there, stays (updateConfiguration).
THEOREM WindowTypes == WindowSpec => []WindowTypeOK
<1>1. WindowInv => WindowTypeOK
  BY DEF WindowInv, WindowTypeOK, RequestState, UpdateState, Idle
<1> QED BY <1>1, WindowInvAlways, PTL
----------------------------------------------------------------------------
\* The row, or the defaults that stand in for a missing one.
Row == IF stored = NONE THEN Default ELSE stored

\* The values held of a switch: by the key, by requests about to create the row
\* or to store a copy, by updates whose save has found it, and by updates that
\* have saved theirs.
SwitchHeld(s) ==
    {c[s] : c \in {cached} \ {NONE}}
      \cup {Default[s] : g \in {h \in Guards : guards[h].pc \in {"create", "insert"}}}
      \cup {guards[g].config[s] : g \in {h \in Guards : guards[h].pc = "store"}}
      \cup {updates[u].found[s] : u \in {v \in Updates : /\ updates[v].pc = "write"
                                                        /\ updates[v].found # NONE}}
      \cup {updates[u].config[s] : u \in {v \in Updates : updates[v].pc = "refresh"}}

SwitchCopies(s) == INSTANCE CopiedSource WITH source <- Row[s], copies <- SwitchHeld(s)

HoldsValue(s, val) ==
    \/ cached # NONE /\ val = cached[s]
    \/ val = Default[s] /\ \E g \in Guards : guards[g].pc \in {"create", "insert"}
    \/ \E g \in Guards : guards[g].pc = "store" /\ val = guards[g].config[s]
    \/ \E u \in Updates : /\ updates[u].pc = "write" /\ updates[u].found # NONE
                         /\ val = updates[u].found[s]
    \/ \E u \in Updates : updates[u].pc = "refresh" /\ val = updates[u].config[s]

LEMMA HeldValue ==
    ASSUME NEW s, NEW val
    PROVE  val \in SwitchHeld(s) <=> HoldsValue(s, val)
BY DEF SwitchHeld, HoldsValue

LEMMA AdmissionCopies ==
    ASSUME WindowInv, NEW s \in Switches, NEW g \in Guards,
           Hit(g) \/ Miss(g) \/ AdmissionStep(g)
    PROVE  SwitchHeld(s)' \subseteq SwitchHeld(s) \cup {Row[s]}
<1>1. PICK x \in RequestState :
        /\ guards' = [guards EXCEPT ![g] = x]
        /\ updates' = updates
        /\ cached' = cached \/ (cached' = guards[g].config /\ guards[g].pc = "store")
        /\ x.pc = "create" => stored = NONE
        /\ x.pc = "insert" => guards[g].pc = "create" /\ x.found = stored
        /\ x.pc = "store" => \/ x.config = stored /\ stored # NONE
                             \/ x.config = Default /\ guards[g].pc = "insert"
  BY AdmissionGoesOn
<1>2. \A h \in Guards : guards'[h] = IF h = g THEN x ELSE guards[h]
  BY <1>1 DEF WindowInv
<1>3. x.pc \in {"create", "insert"} => Default[s] \in SwitchHeld(s) \cup {Row[s]}
  BY <1>1, HeldValue DEF HoldsValue, Row
<1>4. x.pc = "store" => x.config[s] \in SwitchHeld(s) \cup {Row[s]}
  BY <1>1, HeldValue DEF HoldsValue, Row
<1>5. cached' # NONE => cached'[s] \in SwitchHeld(s)
  BY <1>1, HeldValue DEF HoldsValue
<1>6. ASSUME NEW val \in SwitchHeld(s)'
      PROVE  val \in SwitchHeld(s) \cup {Row[s]}
  <2>1. \/ cached' # NONE /\ val = cached'[s]
        \/ val = Default[s] /\ \E h \in Guards : guards'[h].pc \in {"create", "insert"}
        \/ \E h \in Guards : guards'[h].pc = "store" /\ val = guards'[h].config[s]
        \/ \E u \in Updates : /\ updates'[u].pc = "write" /\ updates'[u].found # NONE
                             /\ val = updates'[u].found[s]
        \/ \E u \in Updates : updates'[u].pc = "refresh" /\ val = updates'[u].config[s]
    BY DEF SwitchHeld
  <2> QED BY <1>1, <1>2, <1>3, <1>4, <1>5, <2>1, HeldValue DEF HoldsValue
<1> QED BY <1>6

LEMMA UpdateCopies ==
    ASSUME WindowInv, NEW s \in Switches, NEW u \in Updates,
           UpdateLoad(u) \/ UpdateMisses(u) \/ UpdateStep(u)
    PROVE  SwitchHeld(s)' \subseteq SwitchHeld(s) \cup {Row[s], Row'[s]}
<1>1. PICK x \in UpdateState :
        /\ updates' = [updates EXCEPT ![u] = x]
        /\ guards' = guards
        /\ cached' = cached \/ (cached' = updates[u].config /\ updates[u].pc = "refresh")
        /\ x.pc \in {"insert", "write"} => x.found = stored
        /\ x.pc = "refresh" =>
             /\ updates[u].pc = "write" /\ x.config = updates[u].config
             /\ Save(updates[u].config, updates[u].found)
  BY UpdateGoesOn
<1>2. updates[u] \in UpdateState /\ \A v \in Updates : updates'[v] = IF v = u THEN x ELSE updates[v]
  BY <1>1 DEF WindowInv
<1>3. x.pc = "write" /\ x.found # NONE => x.found[s] = Row[s]
  BY <1>1 DEF Row
<1>4. x.pc = "refresh" => x.config[s] \in SwitchHeld(s) \cup {Row'[s]}
  <2> SUFFICES ASSUME x.pc = "refresh" PROVE x.config[s] \in SwitchHeld(s) \cup {Row'[s]}
    OBVIOUS
  <2>1. /\ updates[u].config \in Configuration
        /\ updates[u].found \in Configuration \cup {NONE}
        /\ updates[u].found # NONE => stored # NONE
        /\ stored \in Configuration \cup {NONE}
    BY <1>1, <1>2, UpdateShape DEF WindowInv, RowStays
  <2>2. /\ stored' \in Configuration
        /\ updates[u].found = NONE => stored' = updates[u].config
        /\ updates[u].found # NONE =>
             (updates[u].config[s] # updates[u].found[s] => stored'[s] = updates[u].config[s])
    BY <1>1, <2>1, SaveStores
  <2>3. Row' = stored'
    BY <2>2, NoConfigurationAssumption DEF Row
  <2>4. updates[u].found # NONE => updates[u].found[s] \in SwitchHeld(s)
    BY <1>1, HeldValue DEF HoldsValue
  <2> QED BY <1>1, <2>2, <2>3, <2>4
<1>5. cached' # NONE => cached'[s] \in SwitchHeld(s)
  BY <1>1, HeldValue DEF HoldsValue
<1>6. ASSUME NEW val \in SwitchHeld(s)'
      PROVE  val \in SwitchHeld(s) \cup {Row[s], Row'[s]}
  <2>1. \/ cached' # NONE /\ val = cached'[s]
        \/ val = Default[s] /\ \E g \in Guards : guards'[g].pc \in {"create", "insert"}
        \/ \E g \in Guards : guards'[g].pc = "store" /\ val = guards'[g].config[s]
        \/ \E v \in Updates : /\ updates'[v].pc = "write" /\ updates'[v].found # NONE
                             /\ val = updates'[v].found[s]
        \/ \E v \in Updates : updates'[v].pc = "refresh" /\ val = updates'[v].config[s]
    BY DEF SwitchHeld
  <2> QED BY <1>1, <1>2, <1>3, <1>4, <1>5, <2>1, HeldValue DEF HoldsValue
<1> QED BY <1>6

\* The key and the requests hold of each switch nothing but values that the row
\* has had, or the defaults that stand in for a missing row: an update stores a
\* copy only when its save is done, and takes what the save did not write from
\* what it found.  Of the whole configuration this is not so: saves that overlap
\* may leave in the cache a combination that the row never had
\* (getConfiguration, updateConfiguration).
THEOREM SwitchesAreCopies ==
    ASSUME NEW CONSTANT s \in Switches
    PROVE  WindowSpec => SwitchCopies(s)!CopySpec
<1>1. WindowInit => SwitchCopies(s)!CopyInit
  BY DEF WindowInit, SwitchCopies!CopyInit, SwitchHeld, Idle
<1>2. WindowInv /\ [WindowNext]_windowVars
        => [SwitchCopies(s)!CopyNext]_<<Row[s], SwitchHeld(s)>>
  <2> SUFFICES ASSUME WindowInv, [WindowNext]_windowVars
               PROVE  [SwitchCopies(s)!CopyNext]_<<Row[s], SwitchHeld(s)>>
    OBVIOUS
  <2>1. CASE UNCHANGED windowVars
    BY <2>1 DEF windowVars, SwitchHeld, Row
  <2>2. CASE ConfigurationExpires
    <3>1. SwitchHeld(s)' \subseteq SwitchHeld(s)
      BY <2>2 DEF ConfigurationExpires, KeyExpires, SwitchHeld
    <3> QED BY <3>1 DEF SwitchCopies!CopyNext
  <2>3. ASSUME NEW g \in Guards, Hit(g) \/ Miss(g) \/ AdmissionStep(g)
        PROVE  SwitchCopies(s)!CopyNext
    <3>1. SwitchHeld(s)' \subseteq SwitchHeld(s) \cup {Row[s]}
      BY <2>3, AdmissionCopies
    <3> QED BY <3>1 DEF SwitchCopies!CopyNext
  <2>4. ASSUME NEW u \in Updates, UpdateLoad(u) \/ UpdateMisses(u) \/ UpdateStep(u)
        PROVE  SwitchCopies(s)!CopyNext
    <3>1. SwitchHeld(s)' \subseteq SwitchHeld(s) \cup {Row[s], Row'[s]}
      BY <2>4, UpdateCopies
    <3> QED BY <3>1 DEF SwitchCopies!CopyNext
  <2> QED BY <2>1, <2>2, <2>3, <2>4 DEF WindowNext
<1> QED BY <1>1, <1>2, WindowInvAlways, PTL DEF WindowSpec, SwitchCopies!CopySpec,
       SwitchCopies!copyVars
----------------------------------------------------------------------------
Closes(c) == ~Allowed("submission", c)

\* An update under way means to leave the window open.
Opening(u) == updates[u].pc \in {"save", "write"} /\ ~Closes(updates[u].config)

\* The row and every copy of it close the window for submissions, no update
\* means to open it, no request is about to create the row, and no submission
\* is in progress.
WindowClosed ==
    /\ Closes(Row)
    /\ cached # NONE => Closes(cached)
    /\ \A g \in Guards :
         /\ guards[g].pc \notin {"create", "insert"}
         /\ guards[g].pc = "store" => Closes(guards[g].config)
         /\ ~(guards[g].pc = "admitted" /\ guards[g].what = "submission")
    /\ \A u \in Updates : ~Opening(u) /\ (updates[u].pc = "refresh" => Closes(updates[u].config))

\* Once the window is closed and its open copies are gone, no submission is
\* admitted until an administrator means to open it, or the row is open again,
\* whichever reads and updates cross.  Both must be excluded: an update that is
\* overtaken may store an open copy of a row that stays closed, and two that
\* each leave the window closed by another switch may open the row between
\* them.  Of ClosedInTheEnd this is the part that needs no fairness
\* (SubmissionWindowGuard, updateConfiguration).
THEOREM ClosedStaysClosed ==
    WindowSpec =>
      [][WindowClosed /\ (Closes(Row) /\ \A u \in Updates : ~Opening(u))' => WindowClosed'
        ]_windowVars
<1> DEFINE Stays == WindowClosed /\ (Closes(Row) /\ \A u \in Updates : ~Opening(u))' => WindowClosed'
<1>1. WindowInv /\ [WindowNext]_windowVars => [Stays]_windowVars
  <2> SUFFICES ASSUME WindowInv, WindowNext, WindowClosed,
                      (Closes(Row) /\ \A u \in Updates : ~Opening(u))'
               PROVE  WindowClosed'
    OBVIOUS
  <2>1. CASE ConfigurationExpires
    BY <2>1 DEF ConfigurationExpires, KeyExpires, WindowClosed, Closes, Allowed, Opening
  <2>2. ASSUME NEW g \in Guards, Hit(g) \/ Miss(g) \/ AdmissionStep(g)
        PROVE  WindowClosed'
    <3>1. PICK x \in RequestState :
            /\ guards' = [guards EXCEPT ![g] = x]
            /\ updates' = updates
            /\ cached' = cached \/ (cached' = guards[g].config /\ guards[g].pc = "store")
            /\ x.pc = "create" => stored = NONE
            /\ x.pc = "insert" => guards[g].pc = "create" /\ x.found = stored
            /\ x.pc = "store" => \/ x.config = stored /\ stored # NONE
                                 \/ x.config = Default /\ guards[g].pc = "insert"
            /\ x.pc = "admitted" =>
                 \/ Allowed(x.what, cached) /\ cached # NONE
                 \/ Allowed(x.what, guards[g].config) /\ guards[g].pc = "store"
      BY <2>2, AdmissionGoesOn
    <3>2. \A h \in Guards : guards'[h] = IF h = g THEN x ELSE guards[h]
      BY <3>1 DEF WindowInv
    <3>3. ~Closes(Default)
      BY DEF Closes, Allowed, Default, Switches
    <3>4. stored # NONE /\ Closes(stored)
      BY <3>3 DEF WindowClosed, Row
    <3>5. x.pc \notin {"create", "insert"} /\ (x.pc = "store" => Closes(x.config))
      BY <3>1, <3>4 DEF WindowClosed
    <3>6. ~(x.pc = "admitted" /\ x.what = "submission")
      BY <3>1 DEF WindowClosed, Closes
    <3>7. cached' # NONE => Closes(cached')
      BY <3>1 DEF WindowClosed
    <3>8. \A h \in Guards :
            /\ guards'[h].pc \notin {"create", "insert"}
            /\ guards'[h].pc = "store" => Closes(guards'[h].config)
            /\ ~(guards'[h].pc = "admitted" /\ guards'[h].what = "submission")
      BY <3>2, <3>5, <3>6 DEF WindowClosed
    <3>9. \A u \in Updates : updates'[u].pc = "refresh" => Closes(updates'[u].config)
      BY <3>1 DEF WindowClosed
    <3> QED BY <3>7, <3>8, <3>9 DEF WindowClosed, Closes
  <2>3. ASSUME NEW u \in Updates, UpdateLoad(u) \/ UpdateMisses(u) \/ UpdateStep(u)
        PROVE  WindowClosed'
    <3>1. PICK x \in UpdateState :
            /\ updates' = [updates EXCEPT ![u] = x]
            /\ guards' = guards
            /\ cached' = cached \/ (cached' = updates[u].config /\ updates[u].pc = "refresh")
            /\ x.pc = "refresh" => updates[u].pc = "write" /\ x.config = updates[u].config
      BY <2>3, UpdateGoesOn
    <3>2. \A v \in Updates : updates'[v] = IF v = u THEN x ELSE updates[v]
      BY <3>1 DEF WindowInv
    <3>3. x.pc = "refresh" => Closes(x.config)
      BY <3>1 DEF WindowClosed, Opening
    <3>4. cached' # NONE => Closes(cached')
      BY <3>1 DEF WindowClosed
    <3>5. \A v \in Updates : updates'[v].pc = "refresh" => Closes(updates'[v].config)
      BY <3>2, <3>3 DEF WindowClosed
    <3>6. \A h \in Guards :
            /\ guards'[h].pc \notin {"create", "insert"}
            /\ guards'[h].pc = "store" => Closes(guards'[h].config)
            /\ ~(guards'[h].pc = "admitted" /\ guards'[h].what = "submission")
      BY <3>1 DEF WindowClosed
    <3> QED BY <3>4, <3>5, <3>6 DEF WindowClosed, Closes
  <2> QED BY <2>1, <2>2, <2>3 DEF WindowNext
<1> QED BY <1>1, WindowInvAlways, PTL DEF WindowSpec
=============================================================================
