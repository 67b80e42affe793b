------------------------------- MODULE Tokens -------------------------------
(***************************************************************************)
(* Accounts, and the tokens that reach their owners by mail: one to verify *)
(* the address, one to set a new password.  Whoever asks for a token makes *)
(* the older ones of the account and the kind useless first; a token is    *)
(* looked up, used and marked in three statements.  Users and              *)
(* administrators have the same steps, in tables of their own.             *)
(*                                                                         *)
(* An account is known by its address, which is unique in its table,       *)
(* deleted rows included; a token by the request that has issued it.       *)
(***************************************************************************)
CONSTANTS
    Addresses,   \* of the accounts
    Issues,      \* requests that issue a token, each made once
    Uses,        \* requests that use a token, at a time
    NONE         \* SQL NULL, or no row

VARIABLES
    accounts,    \* rows by address
    tokens,      \* rows by the request that issued them
    issues,      \* the local state of each issue
    uses         \* the local state of each use

tokenVars == <<accounts, tokens, issues, uses>>

UserStatus == {"PENDING", "ACTIVE", "INACTIVE"}

Account == [status : UserStatus, verified : BOOLEAN, forced : BOOLEAN, deleted : BOOLEAN]

\* As every account is created, by whomever.
NewAccount == [status |-> "PENDING", verified |-> FALSE, forced |-> TRUE, deleted |-> FALSE]

\* "reset" tokens set a password, "verify" tokens do not.
TokenKinds == {"verify", "reset"}

Token == [account : Addresses, kind : TokenKinds, used : BOOLEAN, expired : BOOLEAN]

Idle == [pc |-> "idle"]

\* An issue for an account; "calm" is a history variable: no other token of
\* the account and the kind has been saved since the older ones were retired.
Issue(pc, a, kind) == [pc |-> pc, account |-> a, kind |-> kind, calm |-> TRUE]

IssueState ==
    {Idle} \cup [pc : {"retire", "save", "send", "done", "dead"},
                account : Addresses, kind : TokenKinds, calm : BOOLEAN]

UseState == {Idle} \cup [pc : {"apply", "mark"}, token : Issues]

ASSUME NoRowAssumption == NONE \notin Account \cup Token

TokensInit ==
    /\ accounts = [a \in Addresses |-> NONE]
    /\ tokens = [i \in Issues |-> NONE]
    /\ issues = [i \in Issues |-> Idle]
    /\ uses = [u \in Uses |-> Idle]

Exists(a) == accounts[a] # NONE

\* Lookups leave deleted rows out.
Found(a) == Exists(a) /\ ~accounts[a].deleted

Of(t, a, kind) == tokens[t] # NONE /\ tokens[t].account = a /\ tokens[t].kind = kind
----------------------------------------------------------------------------
\* Definitions without a comment, here and in the modules that extend this
\* one, are faulty variants of the one that follows: the model checker must
\* reject each of them.

\* resendForUser, resendForAdmin.
Resend(i) ==
    /\ issues[i].pc = "idle"
    /\ \E a \in Addresses :
         /\ Found(a) /\ ~accounts[a].verified
         /\ issues' = [issues EXCEPT ![i] = Issue("retire", a, "verify")]
    /\ UNCHANGED <<accounts, tokens, uses>>

\* requestPasswordResetToken and its counterpart for administrators; the
\* address need not be verified.
RequestPasswordResetToken(i) ==
    /\ issues[i].pc = "idle"
    /\ \E a \in Addresses :
         /\ Found(a) /\ accounts[a].status = "ACTIVE"
         /\ issues' = [issues EXCEPT ![i] = Issue("retire", a, "reset")]
    /\ UNCHANGED <<accounts, tokens, uses>>

\* A sign-in with the right password to an account that has to change it.
SignInForced(i) ==
    /\ issues[i].pc = "idle"
    /\ \E a \in Addresses :
         /\ Found(a)
         /\ accounts[a].verified /\ accounts[a].status = "ACTIVE" /\ accounts[a].forced
         /\ issues' = [issues EXCEPT ![i] = Issue("retire", a, "reset")]
    /\ UNCHANGED <<accounts, tokens, uses>>

RetireNone(i) ==
    /\ issues[i].pc = "retire"
    /\ issues' = [issues EXCEPT ![i].pc = "save"]
    /\ UNCHANGED <<accounts, tokens, uses>>

\* issueForUser, issueForAdmin, create*PasswordResetToken: unused tokens of the
\* account are marked as used.
Retire(i) ==
    /\ issues[i].pc = "retire"
    /\ tokens' = [t \in Issues |->
         IF Of(t, issues[i].account, issues[i].kind)
         THEN [tokens[t] EXCEPT !.used = TRUE] ELSE tokens[t]]
    /\ issues' = [issues EXCEPT ![i].pc = "save"]
    /\ UNCHANGED <<accounts, uses>>

\* The new one is inserted; an issue between its two statements misses it.
Save(i) ==
    /\ issues[i].pc = "save"
    /\ tokens' = [tokens EXCEPT ![i] = [account |-> issues[i].account, kind |-> issues[i].kind,
                                        used |-> FALSE, expired |-> FALSE]]
    /\ issues' = [j \in Issues |->
         CASE j = i -> [issues[i] EXCEPT !.pc = "send"]
           [] j # i /\ issues[j].pc = "save" /\ issues[j].account = issues[i].account
                    /\ issues[j].kind = issues[i].kind -> [issues[j] EXCEPT !.calm = FALSE]
           [] OTHER -> issues[j]]
    /\ UNCHANGED <<accounts, uses>>

\* It is handed over: in a mail that the queue takes, or in the answer.
Send(i) ==
    /\ issues[i].pc = "send"
    /\ issues' = [issues EXCEPT ![i].pc = "done"]
    /\ UNCHANGED <<accounts, tokens, uses>>

\* A statement fails, the queue refuses the mail or the process ends: nobody
\* gets to know the token, if there is one.
IssueDies(i) ==
    /\ issues[i].pc \in {"retire", "save", "send"}
    /\ issues' = [issues EXCEPT ![i].pc = "dead"]
    /\ UNCHANGED <<accounts, tokens, uses>>

\* verifyUser, verifyAdmin, requestPasswordReset, requestAdminPasswordReset: a
\* token is found with its account, unused and in time.
FindToken(u) ==
    /\ uses[u].pc = "idle"
    /\ \E t \in Issues :
         /\ issues[t].pc = "done"
         /\ ~tokens[t].used /\ ~tokens[t].expired
         /\ Found(tokens[t].account)
         /\ uses' = [uses EXCEPT ![u] = [pc |-> "apply", token |-> t]]
    /\ UNCHANGED <<accounts, tokens, issues>>

\* It is applied, by the account's id alone.
Apply(u) ==
    /\ uses[u].pc = "apply"
    /\ LET token == tokens[uses[u].token]
           a == token.account
       IN  accounts' = [accounts EXCEPT
               ![a].status = "ACTIVE", ![a].verified = TRUE,
               ![a].forced = IF token.kind = "reset" THEN FALSE ELSE @]
    /\ uses' = [uses EXCEPT ![u].pc = "mark"]
    /\ UNCHANGED <<tokens, issues>>

\* It is marked as used.
Mark(u) ==
    /\ uses[u].pc = "mark"
    /\ tokens' = [tokens EXCEPT ![uses[u].token].used = TRUE]
    /\ uses' = [uses EXCEPT ![u] = Idle]
    /\ UNCHANGED <<accounts, issues>>

\* A statement fails or the process ends: the token may be used again.
UseDies(u) ==
    /\ uses[u].pc \in {"apply", "mark"}
    /\ uses' = [uses EXCEPT ![u] = Idle]
    /\ UNCHANGED <<accounts, tokens, issues>>

\* Its hour, day or sixty days have passed; of a used one that says nothing new.
ExpireToken(t) ==
    /\ tokens[t] # NONE
    /\ ~tokens[t].used /\ ~tokens[t].expired
    /\ tokens' = [tokens EXCEPT ![t].expired = TRUE]
    /\ UNCHANGED <<accounts, issues, uses>>

\* update of a user or an administrator.
SetStatus(a) ==
    /\ Found(a)
    /\ \E status \in UserStatus \ {accounts[a].status} :
         accounts' = [accounts EXCEPT ![a].status = status]
    /\ UNCHANGED <<tokens, issues, uses>>

\* changeUserPassword, changeAdminPassword.
ChangePassword(a) ==
    /\ Found(a)
    /\ accounts[a].forced
    /\ accounts' = [accounts EXCEPT ![a].forced = FALSE]
    /\ UNCHANGED <<tokens, issues, uses>>

\* softDelete, as one step: rows that refer to the account stay.
DeleteAccount(a) ==
    /\ Found(a)
    /\ accounts' = [accounts EXCEPT ![a].status = "INACTIVE", ![a].deleted = TRUE]
    /\ UNCHANGED <<tokens, issues, uses>>

IssueStep(i) == Retire(i) \/ Save(i) \/ Send(i) \/ IssueDies(i)
UseStep(u) == FindToken(u) \/ Apply(u) \/ Mark(u) \/ UseDies(u)
AccountStep(a) == SetStatus(a) \/ ChangePassword(a) \/ DeleteAccount(a)
----------------------------------------------------------------------------
\* An issue and the token it has saved, if any, agree.
IssueFits(i) ==
    /\ issues[i].pc # "idle" => Exists(issues[i].account)
    /\ issues[i].pc \in {"idle", "retire", "save"} => tokens[i] = NONE
    /\ issues[i].pc \in {"send", "done"} => tokens[i] # NONE
    /\ tokens[i] # NONE => Of(i, issues[i].account, issues[i].kind)

\* Only a token that has been handed over is used.
UseFits(u) == uses[u].pc # "idle" => issues[uses[u].token].pc = "done"

\* Type correctness of the accounts, their tokens and the requests.
TokensTypeOK ==
    /\ accounts \in [Addresses -> Account \cup {NONE}]
    /\ tokens \in [Issues -> Token \cup {NONE}]
    /\ issues \in [Issues -> IssueState]
    /\ uses \in [Uses -> UseState]
    /\ \A i \in Issues : IssueFits(i)
    /\ \A u \in Uses : UseFits(u)

\* A link that was asked for while nobody else asked for one is the only one
\* that works: when its token is saved, no other of the account and the kind
\* is open (issueForUser, issueForAdmin and the two makers of reset tokens;
\* overlapping requests may leave two).
UncontestedIssueLeavesOne ==
    [][\A i \in Issues :
          issues[i].pc = "save" /\ issues'[i].pc = "send" /\ issues[i].calm =>
            \A t \in Issues \ {i} :
              Of(t, issues[i].account, issues[i].kind) => tokens'[t].used]_tokenVars

\* Nobody's address is verified but by a token that has been sent to it, a
\* verification's or a reset's.
VerifiedByToken ==
    \A a \in Addresses :
        Exists(a) /\ accounts[a].verified =>
            \E t \in Issues : issues[t].pc = "done" /\ issues[t].account = a
=============================================================================
