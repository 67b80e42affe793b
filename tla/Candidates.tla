----------------------------- MODULE Candidates -----------------------------
(***************************************************************************)
(* Aspirants: an administrator creates one for a party and an office, with *)
(* the account it signs in with, in one transaction, and has a token sent  *)
(* to verify the address.  Accounts without an aspirant of their own, of   *)
(* administrators and team members, are created in between.                *)
(***************************************************************************)
EXTENDS Tokens

CONSTANTS
    Creations,   \* requests that create an aspirant; each issues a token, too
    Tickets      \* a party and an office each

ASSUME CreationsAssumption == Creations \subseteq Issues

VARIABLES
    aspirants,   \* rows by the request that made them
    owns,        \* the aspirant an account signs in for, of each account
    creations    \* the local state of each creation

candidateVars == <<tokenVars, aspirants, owns, creations>>

Aspirant == [ticket : Tickets, account : Addresses]

CreationState ==
    {Idle, [pc |-> "ended"]}
        \cup [pc : {"insert", "commit"}, ticket : Tickets, account : Addresses, calm : BOOLEAN]

ASSUME NoAspirantAssumption == NONE \notin Aspirant \cup Creations

CandidatesInit ==
    /\ TokensInit
    /\ aspirants = [c \in Creations |-> NONE]
    /\ owns = [a \in Addresses |-> NONE]
    /\ creations = [c \in Creations |-> Idle]

\* The unique index on addresses, of rows that a transaction has inserted and
\* not committed.
Held(a) == \E c \in Creations : creations[c].pc = "commit" /\ creations[c].account = a

Stands(ticket) == \E c \in Creations : aspirants[c] # NONE /\ aspirants[c].ticket = ticket
----------------------------------------------------------------------------
CheckTicketOfOwn(c) ==
    /\ creations[c].pc = "idle"
    /\ \E ticket \in Tickets, a \in Addresses :
         /\ ~\E d \in Creations : owns[a] = d /\ aspirants[d].ticket = ticket
         /\ creations' = [creations EXCEPT
               ![c] = [pc |-> "insert", ticket |-> ticket, account |-> a, calm |-> TRUE]]
    /\ UNCHANGED <<tokenVars, aspirants, owns>>

\* create: no aspirant of the party stands for the office.  "calm" is a history
\* variable: no aspirant of the ticket has been committed since.
CheckTicket(c) ==
    /\ creations[c].pc = "idle"
    /\ \E ticket \in Tickets, a \in Addresses :
         /\ ~Stands(ticket)
         /\ creations' = [creations EXCEPT
               ![c] = [pc |-> "insert", ticket |-> ticket, account |-> a, calm |-> TRUE]]
    /\ UNCHANGED <<tokenVars, aspirants, owns>>

InsertAtOnce(c) ==
    /\ creations[c].pc = "insert"
    /\ aspirants' = [aspirants EXCEPT ![c] = [ticket  |-> creations[c].ticket,
                                              account |-> creations[c].account]]
    /\ IF Exists(creations[c].account)
       THEN creations' = [creations EXCEPT ![c] = [pc |-> "ended"]]
       ELSE /\ ~Held(creations[c].account)
            /\ creations' = [creations EXCEPT ![c].pc = "commit"]
    /\ UNCHANGED <<tokenVars, owns>>

\* The transaction: the aspirant, then its account, whose address is waited for
\* while another transaction holds it; when it is taken, both are rolled back.
Insert(c) ==
    /\ creations[c].pc = "insert"
    /\ IF Exists(creations[c].account)
       THEN creations' = [creations EXCEPT ![c] = [pc |-> "ended"]]
       ELSE /\ ~Held(creations[c].account)
            /\ creations' = [creations EXCEPT ![c].pc = "commit"]
    /\ UNCHANGED <<tokenVars, aspirants, owns>>

\* Aspirant, account and the link between them are there at once, and the
\* verification of the address begins.
Commit(c) ==
    /\ creations[c].pc = "commit"
    /\ LET a == creations[c].account
       IN  /\ aspirants' = [aspirants EXCEPT ![c] = [ticket |-> creations[c].ticket,
                                                     account |-> a]]
           /\ accounts' = [accounts EXCEPT ![a] = NewAccount]
           /\ owns' = [owns EXCEPT ![a] = c]
           /\ issues' = [issues EXCEPT ![c] = Issue("retire", a, "verify")]
    /\ creations' = [d \in Creations |->
         CASE d = c -> [pc |-> "ended"]
           [] d # c /\ creations[d].pc \in {"insert", "commit"}
                    /\ creations[d].ticket = creations[c].ticket ->
                  [creations[d] EXCEPT !.calm = FALSE]
           [] OTHER -> creations[d]]
    /\ UNCHANGED <<tokens, uses>>

\* A statement fails or the process ends: the transaction is rolled back.
CreationDies(c) ==
    /\ creations[c].pc \in {"insert", "commit"}
    /\ creations' = [creations EXCEPT ![c] = [pc |-> "ended"]]
    /\ UNCHANGED <<tokenVars, aspirants, owns>>

\* create of an administrator or a team member, as far as it matters here.
CreateAccount(i) ==
    /\ issues[i].pc = "idle"
    /\ \E a \in Addresses :
         /\ ~Exists(a) /\ ~Held(a)
         /\ accounts' = [accounts EXCEPT ![a] = NewAccount]
         /\ issues' = [issues EXCEPT ![i] = Issue("retire", a, "verify")]
    /\ UNCHANGED <<tokens, uses, aspirants, owns, creations>>

CreationStep(c) == CheckTicket(c) \/ Insert(c) \/ Commit(c) \/ CreationDies(c)

\* What happens to tokens and accounts once they are there.
Elsewhere(step) == step /\ UNCHANGED <<aspirants, owns, creations>>

Ask(i) == Resend(i) \/ RequestPasswordResetToken(i) \/ SignInForced(i)

CandidatesNext ==
    \/ \E c \in Creations : CreationStep(c)
    \/ \E i \in Issues \ Creations : CreateAccount(i) \/ Elsewhere(Ask(i))
    \/ \E i \in Issues : Elsewhere(IssueStep(i)) \/ Elsewhere(ExpireToken(i))
    \/ \E u \in Uses : Elsewhere(UseStep(u))
    \/ \E a \in Addresses : Elsewhere(AccountStep(a))

CandidatesSpec == CandidatesInit /\ [][CandidatesNext]_candidateVars
----------------------------------------------------------------------------
\* An aspirant and the account it signs in with lead to each other.
AspirantsLinked ==
    /\ \A c \in Creations :
         aspirants[c] # NONE => Exists(aspirants[c].account) /\ owns[aspirants[c].account] = c
    /\ \A a \in Addresses :
         owns[a] # NONE => aspirants[owns[a]] # NONE /\ aspirants[owns[a]].account = a

\* Type correctness; an aspirant and its account have been created together,
\* whatever failed on the way.
CandidatesTypeOK ==
    /\ TokensTypeOK
    /\ aspirants \in [Creations -> Aspirant \cup {NONE}]
    /\ owns \in [Addresses -> Creations \cup {NONE}]
    /\ creations \in [Creations -> CreationState]
    /\ AspirantsLinked

\* "An aspirant for this political party and electoral office already exists":
\* a creation during which no aspirant of the ticket has been committed adds
\* none beside another (create; overlapping creations may, as no index stops
\* them).
UncontestedCandidatesUnique ==
    [][\A c \in Creations :
          aspirants'[c] # aspirants[c] /\ creations[c].calm =>
              ~Stands(creations[c].ticket)]_candidateVars
=============================================================================
