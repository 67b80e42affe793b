------------------------------ MODULE Sessions ------------------------------
(***************************************************************************)
(* One account and its profile in the cache, which answers for the account *)
(* on every request for up to a day: the authentication guard reads it     *)
(* aside, a sign-in stores it, and changes of the account delete it        *)
(* afterwards.  Users and administrators have the same steps.              *)
(***************************************************************************)
EXTENDS CachedKey    \* the key USER_INFO_CLI_<id> or USER_INFO_ADM_<id>

CONSTANTS
    SignIns,   \* sign-ins, each made once
    Writers,   \* requests that change the account
    Roles      \* what a profile says beside the status: role, campaign, area

VARIABLES
    account,   \* the row of the account
    signIns,   \* the local state of each sign-in
    writers    \* the local state of each change

sessionVars == <<account, cached, guards, signIns, writers>>

Status == {"PENDING", "ACTIVE", "INACTIVE"}

\* A row, or the profile that is read from it.
Profile == [status : Status, deleted : BOOLEAN, role : Roles]

Usable(p) == p.status = "ACTIVE" /\ ~p.deleted

Loaded(p) == [pc |-> "store", profile |-> p]
----------------------------------------------------------------------------
SessionInit ==
    /\ account \in [status : {"PENDING", "ACTIVE"}, deleted : {FALSE}, role : Roles]
    /\ cached = NONE
    /\ guards = [g \in Guards |-> Idle]
    /\ signIns = [s \in SignIns |-> Idle]
    /\ writers = [w \in Writers |-> Idle]

\* Definitions without a comment are faulty variants of the one that follows:
\* the model checker must reject each of them.

GuardHitAndStoreAgain(g) ==
    /\ guards[g].pc = "idle"
    /\ cached # NONE
    /\ guards' = [guards EXCEPT ![g] = Loaded(cached)]
    /\ UNCHANGED <<account, cached, signIns, writers>>

\* CACHE HIT: the profile is taken as it is, and the request goes on with it.
GuardHit(g) ==
    /\ guards[g].pc = "idle"
    /\ cached # NONE
    /\ guards' = [guards EXCEPT ![g] = [pc |-> "admitted", profile |-> cached]]
    /\ UNCHANGED <<account, cached, signIns, writers>>

GuardMiss(g) ==
    /\ guards[g].pc = "idle"
    /\ cached = NONE
    /\ guards' = [guards EXCEPT ![g] = [pc |-> "load"]]
    /\ UNCHANGED <<account, cached, signIns, writers>>

\* The row is loaded; one that is deleted or not active is refused.
GuardLoad(g) ==
    /\ guards[g].pc = "load"
    /\ guards' = [guards EXCEPT ![g] = IF Usable(account) THEN Loaded(account) ELSE Idle]
    /\ UNCHANGED <<account, cached, signIns, writers>>

GuardStore(g) ==
    /\ guards[g].pc = "store"
    /\ cached' = guards[g].profile
    /\ guards' = [guards EXCEPT ![g] = [pc |-> "admitted", profile |-> guards[g].profile]]
    /\ UNCHANGED <<account, signIns, writers>>

\* The handler behind the guard ends, or a statement failed.
GuardEnds(g) ==
    /\ guards[g].pc # "idle"
    /\ guards' = [guards EXCEPT ![g] = Idle]
    /\ UNCHANGED <<account, cached, signIns, writers>>

\* signIn, adminSignIn: the account is found by its address and checked.
SignInCheck(s) ==
    /\ signIns[s].pc = "idle"
    /\ Usable(account)
    /\ signIns' = [signIns EXCEPT ![s] = [pc |-> "reload", profile |-> account]]
    /\ UNCHANGED <<account, cached, guards, writers>>

SignInReloadOnly(s) ==
    /\ signIns[s].pc = "reload"
    /\ signIns' = [signIns EXCEPT ![s] = Loaded(IF account.deleted THEN NONE ELSE account)]
    /\ UNCHANGED <<account, cached, guards, writers>>

\* It is loaded again with its relations, and not checked again; if it has
\* been deleted in between, the account found first stands in for it.
SignInReload(s) ==
    /\ signIns[s].pc = "reload"
    /\ signIns' = [signIns EXCEPT ![s] =
          Loaded(IF account.deleted THEN signIns[s].profile ELSE account)]
    /\ UNCHANGED <<account, cached, guards, writers>>

SignInStore(s) ==
    /\ signIns[s].pc = "store"
    /\ cached' = signIns[s].profile
    /\ signIns' = [signIns EXCEPT ![s] = [pc |-> "done"]]
    /\ UNCHANGED <<account, guards, writers>>

SignInDies(s) ==
    /\ signIns[s].pc \in {"reload", "store"}
    /\ signIns' = [signIns EXCEPT ![s] = [pc |-> "done"]]
    /\ UNCHANGED <<account, cached, guards, writers>>

\* update of a user or an administrator, by id alone, deleted or not.
Change(w) ==
    /\ writers[w].pc = "idle"
    /\ \E status \in Status, role \in Roles :
         account' = [account EXCEPT !.status = status, !.role = role]
    /\ writers' = [writers EXCEPT ![w] = [pc |-> "purge"]]
    /\ UNCHANGED <<cached, guards, signIns>>

\* Deletion sets the account inactive in a first statement, and deletes it in
\* the next.
DeleteDeactivates(w) ==
    /\ writers[w].pc = "idle"
    /\ ~account.deleted
    /\ account' = [account EXCEPT !.status = "INACTIVE"]
    /\ writers' = [writers EXCEPT ![w] = [pc |-> "delete"]]
    /\ UNCHANGED <<cached, guards, signIns>>

DeleteDeletes(w) ==
    /\ writers[w].pc = "delete"
    /\ account' = [account EXCEPT !.deleted = TRUE]
    /\ writers' = [writers EXCEPT ![w] = [pc |-> "purge"]]
    /\ UNCHANGED <<cached, guards, signIns>>

\* A verification or a password reset finds its token, and the account with it.
FindToken(w) ==
    /\ writers[w].pc = "idle"
    /\ ~account.deleted
    /\ \E then \in {"idle", "purge"} :
         writers' = [writers EXCEPT ![w] = [pc |-> "activate", then |-> then]]
    /\ UNCHANGED <<account, cached, guards, signIns>>

\* Either makes the account active, by id alone; only the reset purges.
Activate(w) ==
    /\ writers[w].pc = "activate"
    /\ account' = [account EXCEPT !.status = "ACTIVE"]
    /\ writers' = [writers EXCEPT ![w] = [pc |-> writers[w].then]]
    /\ UNCHANGED <<cached, guards, signIns>>

Purge(w) ==
    /\ writers[w].pc = "purge"
    /\ cached' = NONE
    /\ writers' = [writers EXCEPT ![w] = Idle]
    /\ UNCHANGED <<account, guards, signIns>>

\* A statement fails or the process ends: the profile stays in the cache.
WriterDies(w) ==
    /\ writers[w].pc # "idle"
    /\ writers' = [writers EXCEPT ![w] = Idle]
    /\ UNCHANGED <<account, cached, guards, signIns>>

\* A day has passed.
ProfileExpires == KeyExpires /\ UNCHANGED <<account, signIns, writers>>

GuardStep(g) == GuardLoad(g) \/ GuardStore(g) \/ GuardEnds(g)
SignInStep(s) == SignInReload(s) \/ SignInStore(s) \/ SignInDies(s)
WriterStep(w) == DeleteDeletes(w) \/ Activate(w) \/ Purge(w) \/ WriterDies(w)

SessionNext ==
    \/ \E g \in Guards : GuardHit(g) \/ GuardMiss(g) \/ GuardStep(g)
    \/ \E s \in SignIns : SignInCheck(s) \/ SignInStep(s)
    \/ \E w \in Writers :
         Change(w) \/ DeleteDeactivates(w) \/ FindToken(w) \/ WriterStep(w)
    \/ ProfileExpires

\* Requests in progress come to an end, and a key that is not stored again
\* lives for a day.
SessionSpec ==
    /\ SessionInit /\ [][SessionNext]_sessionVars
    /\ \A g \in Guards : WF_sessionVars(GuardStep(g))
    /\ \A s \in SignIns : WF_sessionVars(SignInStep(s))
    /\ \A w \in Writers : WF_sessionVars(WriterStep(w))
    /\ WF_sessionVars(ProfileExpires)
----------------------------------------------------------------------------
\* Type correctness of the account, its profile and the requests.
SessionTypeOK ==
    /\ account \in Profile
    /\ cached \in Profile \cup {NONE}
    /\ \A g \in Guards :
         guards[g] \in {Idle, [pc |-> "load"]} \cup [pc : {"store", "admitted"}, profile : Profile]
    /\ \A s \in SignIns :
         signIns[s] \in {Idle, [pc |-> "done"]} \cup [pc : {"reload", "store"}, profile : Profile]
    /\ writers \in [Writers -> [pc : {"idle", "delete", "purge"}]
                              \cup [pc : {"activate"}, then : {"idle", "purge"}]]

\* When an account has come to rest, a time comes from which on every request
\* is answered with the account as it is, and with none that is blocked or
\* deleted, whatever loads, sign-ins, lost purges and changes without a purge
\* went before (AuthenticationGuard, signIn, update, remove, verifyUser).
ChangesReachSessions ==
    <>[][account' = account]_account =>
      <>[](\A g \in Guards : guards[g].pc = "admitted" =>
             Usable(account) /\ guards[g].profile = account)
=============================================================================
