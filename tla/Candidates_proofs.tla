------------------------- MODULE Candidates_proofs -------------------------
(***************************************************************************)
(* Proofs about Candidates and the tokens of its accounts.                 *)
(***************************************************************************)
EXTENDS Candidates, TLAPS

\* An issue that nobody has overlapped since it retired the older tokens finds
\* none of them open.
CalmIssues ==
    \A i \in Issues :
        issues[i].pc = "save" /\ issues[i].calm =>
            \A t \in Issues : Of(t, issues[i].account, issues[i].kind) => tokens[t].used

TokenInv == TokensTypeOK /\ CalmIssues /\ VerifiedByToken

\* A creation that nobody has overtaken since its check finds its ticket free;
\* one that holds an address is the only one, and it is not in the table; the
\* request has not begun to issue a token.
CreationFits(c) ==
    /\ creations[c].pc # "ended" => issues[c].pc = "idle" /\ aspirants[c] = NONE
    /\ creations[c].pc \in {"insert", "commit"} /\ creations[c].calm =>
         ~Stands(creations[c].ticket)
    /\ creations[c].pc = "commit" =>
         /\ ~Exists(creations[c].account)
         /\ \A d \in Creations \ {c} :
              creations[d].pc = "commit" => creations[d].account # creations[c].account

CandidateInv == CandidatesTypeOK /\ TokenInv /\ \A c \in Creations : CreationFits(c)
----------------------------------------------------------------------------
LEMMA IssueTypes ==
    ASSUME NEW x \in IssueState
    PROVE  /\ x.pc \in {"idle", "retire", "save", "send", "done", "dead"}
           /\ x.pc # "idle" => x = [pc |-> x.pc, account |-> x.account, kind |-> x.kind,
                                    calm |-> x.calm]
           /\ x.pc # "idle" => /\ x.account \in Addresses
                               /\ x.kind \in TokenKinds
                               /\ x.calm \in BOOLEAN
BY DEF IssueState, Idle

LEMMA UseTypes ==
    ASSUME NEW x \in UseState
    PROVE  /\ x.pc \in {"idle", "apply", "mark"}
           /\ x.pc # "idle" => x.token \in Issues
BY DEF UseState, Idle

LEMMA TokenInvInit == TokensInit => TokenInv
<1> SUFFICES ASSUME TokensInit PROVE TokenInv
  OBVIOUS
<1>1. TokensTypeOK
  BY DEF TokensInit, TokensTypeOK, IssueState, UseState, IssueFits, UseFits, Idle
<1>2. CalmIssues /\ VerifiedByToken
  BY DEF TokensInit, CalmIssues, VerifiedByToken, Idle, Exists
<1> QED BY <1>1, <1>2 DEF TokenInv

\* Changes of accounts that keep rows, and verify none without a token.
LEMMA AccountsChange ==
    ASSUME TokenInv, UNCHANGED <<tokens, issues>>,
           uses' \in [Uses -> UseState], \A u \in Uses : UseFits(u)',
           accounts' \in [Addresses -> Account \cup {NONE}],
           \A a \in Addresses : Exists(a) => Exists(a)',
           \A a \in Addresses :
               \/ accounts'[a] = accounts[a]
               \/ ~accounts'[a].verified
               \/ Exists(a) /\ accounts'[a].verified = accounts[a].verified
               \/ \E t \in Issues : issues[t].pc = "done" /\ issues[t].account = a
    PROVE  TokenInv'
<1>1. \A i \in Issues : issues[i].pc # "idle" => issues[i].account \in Addresses
  BY IssueTypes DEF TokenInv, TokensTypeOK
<1>2. \A i \in Issues : IssueFits(i)'
  BY <1>1 DEF TokenInv, TokensTypeOK, IssueFits, Of
<1>3. TokensTypeOK'
  BY <1>2 DEF TokenInv, TokensTypeOK
<1>4. CalmIssues'
  BY DEF TokenInv, CalmIssues, Of
<1>5. VerifiedByToken'
  BY DEF TokenInv, VerifiedByToken, Exists
<1> QED BY <1>3, <1>4, <1>5 DEF TokenInv

\* A request begins to issue a token.
LEMMA IssueBegins ==
    ASSUME TokenInv, NEW i \in Issues, issues[i].pc = "idle",
           NEW a \in Addresses, NEW kind \in TokenKinds,
           accounts' \in [Addresses -> Account \cup {NONE}],
           \A b \in Addresses : Exists(b) => Exists(b)',
           \A b \in Addresses : accounts'[b] = accounts[b] \/ ~accounts'[b].verified,
           Exists(a)',
           issues' = [issues EXCEPT ![i] = Issue("retire", a, kind)],
           UNCHANGED <<tokens, uses>>
    PROVE  TokenInv'
<1> USE DEF TokenInv
<1>1. issues \in [Issues -> IssueState]
  BY DEF TokensTypeOK
<1>2. /\ Issue("retire", a, kind) \in IssueState
      /\ issues'[i] = Issue("retire", a, kind)
      /\ \A j \in Issues \ {i} : issues'[j] = issues[j]
  BY <1>1 DEF Issue, IssueState
<1>3. /\ issues'[i].pc = "retire" /\ issues'[i].account = a /\ issues'[i].kind = kind
      /\ tokens[i] = NONE
  BY <1>2 DEF Issue, TokensTypeOK, IssueFits
<1>4. \A j \in Issues : IssueFits(j)'
  <2> TAKE j \in Issues
  <2>1. CASE j = i
    BY <1>3, <2>1 DEF IssueFits
  <2>2. CASE j # i
    <3>1. issues[j].pc # "idle" => issues[j].account \in Addresses
      BY <1>1, IssueTypes
    <3>2. IssueFits(j)
      BY DEF TokensTypeOK
    <3> QED BY <1>2, <2>2, <3>1, <3>2 DEF IssueFits, Of
  <2> QED BY <2>1, <2>2
<1>5. \A u \in Uses : UseFits(u)'
  <2> TAKE u \in Uses
  <2>1. UseFits(u) /\ uses[u] \in UseState
    BY DEF TokensTypeOK
  <2>2. uses[u].pc # "idle" => uses[u].token \in Issues \ {i}
    BY <2>1, UseTypes DEF UseFits
  <2> QED BY <1>2, <2>1, <2>2 DEF UseFits
<1>6. TokensTypeOK'
  <2>1. issues' \in [Issues -> IssueState]
    BY <1>1, <1>2
  <2> QED BY <1>4, <1>5, <2>1 DEF TokensTypeOK
<1>7. CalmIssues'
  BY <1>2, <1>3 DEF CalmIssues, Of
<1>8. VerifiedByToken'
  BY <1>2 DEF VerifiedByToken, Exists
<1> QED BY <1>6, <1>7, <1>8

\* Steps of an issue that leave its token alone.
LEMMA IssueAdvances ==
    ASSUME TokenInv, NEW i \in Issues, NEW pc \in {"done", "dead"},
           issues[i].pc \in {"retire", "save", "send"},
           pc = "done" => issues[i].pc = "send",
           issues' = [issues EXCEPT ![i].pc = pc],
           UNCHANGED <<accounts, tokens, uses>>
    PROVE  TokenInv'
<1> USE DEF TokenInv
<1>1. issues \in [Issues -> IssueState]
  BY DEF TokensTypeOK
<1>2. issues'[i] = [issues[i] EXCEPT !.pc = pc] /\ \A j \in Issues \ {i} : issues'[j] = issues[j]
  BY <1>1
<1>3. /\ issues'[i].pc = pc /\ issues'[i].account = issues[i].account
      /\ issues'[i].kind = issues[i].kind /\ issues'[i] \in IssueState
  BY <1>1, <1>2, IssueTypes DEF IssueState
<1>4. \A j \in Issues : IssueFits(j)'
  <2> TAKE j \in Issues
  <2>1. IssueFits(j)
    BY DEF TokensTypeOK
  <2> QED BY <1>2, <1>3, <2>1 DEF IssueFits, Of, Exists
<1>5. \A u \in Uses : UseFits(u)'
  <2> TAKE u \in Uses
  <2>1. UseFits(u) /\ uses[u] \in UseState
    BY DEF TokensTypeOK
  <2>2. uses[u].pc # "idle" => uses[u].token \in Issues \ {i}
    BY <2>1, UseTypes DEF UseFits
  <2> QED BY <1>2, <2>1, <2>2 DEF UseFits
<1>6. TokensTypeOK'
  <2>1. issues' \in [Issues -> IssueState]
    BY <1>1, <1>2, <1>3
  <2> QED BY <1>4, <1>5, <2>1 DEF TokensTypeOK
<1>7. CalmIssues'
  BY <1>2, <1>3 DEF CalmIssues, Of
<1>8. VerifiedByToken'
  BY <1>2, <1>3 DEF VerifiedByToken, Exists
<1> QED BY <1>6, <1>7, <1>8

\* Steps that only mark tokens, as used or as expired.
LEMMA TokensMarked ==
    ASSUME TokenInv, NEW S \in SUBSET Issues, NEW f \in {"used", "expired"},
           \A t \in S : tokens[t] # NONE,
           tokens' = [t \in Issues |-> IF t \in S THEN [tokens[t] EXCEPT ![f] = TRUE]
                                       ELSE tokens[t]]
    PROVE  /\ tokens' \in [Issues -> Token \cup {NONE}]
           /\ \A t \in Issues : /\ tokens'[t] = NONE <=> tokens[t] = NONE
                                /\ \A a, kind : Of(t, a, kind)' <=> Of(t, a, kind)
                                /\ tokens[t] # NONE /\ tokens[t].used => tokens'[t].used
<1>1. tokens \in [Issues -> Token \cup {NONE}]
  BY DEF TokenInv, TokensTypeOK
<1> SUFFICES ASSUME NEW t \in Issues
             PROVE  /\ tokens'[t] \in Token \cup {NONE}
                    /\ tokens'[t] = NONE <=> tokens[t] = NONE
                    /\ \A a, kind : Of(t, a, kind)' <=> Of(t, a, kind)
                    /\ tokens[t] # NONE /\ tokens[t].used => tokens'[t].used
  BY <1>1
<1>2. CASE t \notin S
  BY <1>1, <1>2 DEF Of
<1>3. CASE t \in S
  <2>1. tokens[t] \in Token /\ tokens'[t] = [tokens[t] EXCEPT ![f] = TRUE]
    BY <1>1, <1>3
  <2>2. /\ tokens'[t] \in Token
        /\ tokens'[t].account = tokens[t].account /\ tokens'[t].kind = tokens[t].kind
        /\ tokens[t].used => tokens'[t].used
    <3>1. CASE f = "used"
      BY <2>1, <3>1 DEF Token
    <3>2. CASE f = "expired"
      BY <2>1, <3>2 DEF Token
    <3> QED BY <3>1, <3>2
  <2> QED BY <2>1, <2>2, NoRowAssumption DEF Of
<1> QED BY <1>2, <1>3

LEMMA RetireKeeps ==
    ASSUME TokenInv, NEW i \in Issues, Retire(i)
    PROVE  TokenInv'
<1> USE DEF TokenInv
<1> DEFINE S == {t \in Issues : Of(t, issues[i].account, issues[i].kind)}
<1>1. issues \in [Issues -> IssueState]
  BY DEF TokensTypeOK
<1>2. /\ issues[i].pc = "retire" /\ UNCHANGED <<accounts, uses>>
      /\ issues' = [issues EXCEPT ![i].pc = "save"]
      /\ tokens' = [t \in Issues |-> IF t \in S THEN [tokens[t] EXCEPT !["used"] = TRUE]
                                     ELSE tokens[t]]
  BY DEF Retire
<1>3. /\ tokens' \in [Issues -> Token \cup {NONE}]
      /\ \A t \in Issues : /\ tokens'[t] = NONE <=> tokens[t] = NONE
                           /\ \A a, kind : Of(t, a, kind)' <=> Of(t, a, kind)
                           /\ tokens[t] # NONE /\ tokens[t].used => tokens'[t].used
  <2>1. S \in SUBSET Issues /\ \A t \in S : tokens[t] # NONE
    BY DEF Of
  <2> QED BY <1>2, <2>1, TokensMarked
<1>4. issues'[i] = [issues[i] EXCEPT !.pc = "save"] /\ \A j \in Issues \ {i} : issues'[j] = issues[j]
  BY <1>1, <1>2
<1>5. /\ issues'[i].pc = "save" /\ issues'[i].account = issues[i].account
      /\ issues'[i].kind = issues[i].kind /\ issues'[i] \in IssueState
  BY <1>1, <1>2, <1>4, IssueTypes DEF IssueState
<1>6. \A j \in Issues : IssueFits(j)'
  <2> TAKE j \in Issues
  <2>1. IssueFits(j)
    BY DEF TokensTypeOK
  <2> QED BY <1>2, <1>3, <1>4, <1>5, <2>1 DEF IssueFits, Exists
<1>7. \A u \in Uses : UseFits(u)'
  <2> TAKE u \in Uses
  <2>1. UseFits(u) /\ uses[u] \in UseState
    BY DEF TokensTypeOK
  <2>2. uses[u].pc # "idle" => uses[u].token \in Issues \ {i}
    BY <1>2, <2>1, UseTypes DEF UseFits
  <2> QED BY <1>2, <1>4, <2>1, <2>2 DEF UseFits
<1>8. TokensTypeOK'
  <2>1. issues' \in [Issues -> IssueState]
    BY <1>1, <1>2, <1>5
  <2> QED BY <1>2, <1>3, <1>6, <1>7, <2>1 DEF TokensTypeOK
<1>9. CalmIssues'
  <2> SUFFICES ASSUME NEW j \in Issues, issues'[j].pc = "save", issues'[j].calm,
                      NEW t \in Issues, Of(t, issues[j].account, issues[j].kind)'
               PROVE  tokens'[t].used
    BY DEF CalmIssues
  <2>1. CASE j = i
    <3>1. t \in S /\ tokens[t] \in Token
      BY <1>3, <1>5, <2>1 DEF Of, TokensTypeOK
    <3> QED BY <1>2, <3>1 DEF Token
  <2>2. CASE j # i
    <3>1. issues'[j] = issues[j] /\ issues[j].pc = "save" /\ issues[j].calm
      BY <1>4, <2>2
    <3>2. Of(t, issues[j].account, issues[j].kind) /\ tokens[t] # NONE
      BY <1>3, <3>1 DEF Of
    <3> QED BY <1>3, <3>1, <3>2 DEF CalmIssues
  <2> QED BY <2>1, <2>2
<1>10. VerifiedByToken'
  BY <1>2, <1>4, <1>5 DEF VerifiedByToken, Exists
<1> QED BY <1>8, <1>9, <1>10

LEMMA SaveKeeps ==
    ASSUME TokenInv, NEW i \in Issues, Save(i)
    PROVE  TokenInv'
<1> USE DEF TokenInv
<1> DEFINE token == [account |-> issues[i].account, kind |-> issues[i].kind,
                     used |-> FALSE, expired |-> FALSE]
           same(j) == /\ issues[j].pc = "save" /\ issues[j].account = issues[i].account
                      /\ issues[j].kind = issues[i].kind
<1>1. issues \in [Issues -> IssueState] /\ tokens \in [Issues -> Token \cup {NONE}]
  BY DEF TokensTypeOK
<1>2. /\ issues[i].pc = "save" /\ UNCHANGED <<accounts, uses>>
      /\ tokens' = [tokens EXCEPT ![i] = token]
      /\ issues'[i] = [issues[i] EXCEPT !.pc = "send"]
      /\ \A j \in Issues \ {i} :
           issues'[j] = IF same(j) THEN [issues[j] EXCEPT !.calm = FALSE] ELSE issues[j]
      /\ issues' = [j \in Issues |-> issues'[j]]
  BY DEF Save
<1>3. /\ issues'[i].pc = "send" /\ issues'[i].account = issues[i].account
      /\ issues'[i].kind = issues[i].kind /\ issues'[i] \in IssueState
  BY <1>1, <1>2, IssueTypes DEF IssueState
<1>4. \A j \in Issues \ {i} : /\ issues'[j].pc = issues[j].pc
                              /\ issues'[j].pc # "idle" =>
                                   /\ issues'[j].account = issues[j].account
                                   /\ issues'[j].kind = issues[j].kind
                              /\ issues'[j] \in IssueState
                              /\ same(j) => ~issues'[j].calm
                              /\ ~same(j) => issues'[j] = issues[j]
  <2> TAKE j \in Issues \ {i}
  <2>1. CASE ~same(j)
    BY <1>1, <1>2, <2>1
  <2>2. CASE same(j)
    <3>1. issues'[j] = [issues[j] EXCEPT !.calm = FALSE]
      BY <1>2, <2>2
    <3>2. issues[j] = [pc |-> issues[j].pc, account |-> issues[j].account,
                       kind |-> issues[j].kind, calm |-> issues[j].calm]
      BY <1>1, <2>2, IssueTypes
    <3>3. issues'[j] = [pc |-> issues[j].pc, account |-> issues[j].account,
                        kind |-> issues[j].kind, calm |-> FALSE]
      BY <3>1, <3>2
    <3> QED BY <1>1, <2>2, <3>3, IssueTypes DEF IssueState
  <2> QED BY <2>1, <2>2
<1>5. token \in Token /\ token # NONE
  <2>1. issues[i].account \in Addresses /\ issues[i].kind \in TokenKinds
    BY <1>1, <1>2, IssueTypes
  <2>2. token \in Token
    BY <2>1 DEF Token
  <2> QED BY <2>2, NoRowAssumption
<1>6. tokens'[i] = token /\ \A t \in Issues \ {i} : tokens'[t] = tokens[t]
  BY <1>1, <1>2
<1>7. \A j \in Issues : IssueFits(j)'
  <2> TAKE j \in Issues
  <2>1. IssueFits(j)
    BY DEF TokensTypeOK
  <2>2. CASE j = i
    <3>1. tokens'[i].account = issues'[i].account /\ tokens'[i].kind = issues'[i].kind
      BY <1>3, <1>6
    <3>2. Exists(issues[i].account)
      BY <1>2, <2>1, <2>2 DEF IssueFits
    <3> QED BY <1>2, <1>3, <1>5, <1>6, <2>2, <3>1, <3>2 DEF IssueFits, Of, Exists
  <2>3. CASE j # i
    BY <1>2, <1>4, <1>6, <2>1, <2>3 DEF IssueFits, Of, Exists
  <2> QED BY <2>2, <2>3
<1>8. \A u \in Uses : UseFits(u)'
  <2> TAKE u \in Uses
  <2>1. UseFits(u) /\ uses[u] \in UseState
    BY DEF TokensTypeOK
  <2>2. uses[u].pc # "idle" => uses[u].token \in Issues \ {i}
    BY <1>2, <2>1, UseTypes DEF UseFits
  <2> QED BY <1>2, <1>4, <2>1, <2>2 DEF UseFits
<1>9. TokensTypeOK'
  <2>1. issues' \in [Issues -> IssueState] /\ tokens' \in [Issues -> Token \cup {NONE}]
    BY <1>1, <1>2, <1>3, <1>4, <1>5
  <2> QED BY <1>2, <1>7, <1>8, <2>1 DEF TokensTypeOK
<1>10. CalmIssues'
  <2> SUFFICES ASSUME NEW j \in Issues, issues'[j].pc = "save", issues'[j].calm,
                      NEW t \in Issues, Of(t, issues[j].account, issues[j].kind)'
               PROVE  tokens'[t].used
    BY DEF CalmIssues
  <2>1. j # i
    BY <1>3
  <2>2. ~same(j) /\ issues'[j] = issues[j]
    BY <1>4, <2>1
  <2>3. t # i
    BY <1>6, <2>2 DEF Of
  <2> QED BY <1>6, <2>2, <2>3 DEF CalmIssues, Of
<1>11. VerifiedByToken'
  BY <1>2, <1>3, <1>4 DEF VerifiedByToken, Exists
<1> QED BY <1>9, <1>10, <1>11

\* Steps of a use that change no account.
LEMMA UseKeeps ==
    ASSUME TokenInv, NEW u \in Uses, FindToken(u) \/ UseDies(u)
    PROVE  TokenInv'
<1> USE DEF TokenInv
<1>1. UNCHANGED <<accounts, tokens, issues>>
  BY DEF FindToken, UseDies
<1>2. PICK x \in UseState : /\ uses' = [uses EXCEPT ![u] = x]
                            /\ x.pc # "idle" => issues[x.token].pc = "done"
  <2>1. CASE FindToken(u)
    <3>1. PICK t \in Issues : /\ issues[t].pc = "done"
                              /\ uses' = [uses EXCEPT ![u] = [pc |-> "apply", token |-> t]]
      BY <2>1 DEF FindToken
    <3> DEFINE y == [pc |-> "apply", token |-> t]
    <3>2. y \in UseState /\ y.token = t
      BY DEF UseState
    <3> HIDE DEF y
    <3> QED BY <3>1, <3>2 DEF y
  <2>2. CASE UseDies(u)
    <3>1. Idle \in UseState /\ Idle.pc = "idle"
      BY DEF UseState, Idle
    <3>2. uses' = [uses EXCEPT ![u] = Idle]
      BY <2>2 DEF UseDies
    <3> QED BY <3>1, <3>2
  <2> QED BY <2>1, <2>2
<1>3. uses' \in [Uses -> UseState] /\ \A v \in Uses : UseFits(v)'
  BY <1>1, <1>2 DEF TokensTypeOK, UseFits
<1> QED BY <1>1, <1>3, AccountsChange DEF TokensTypeOK, Exists

LEMMA ApplyKeeps ==
    ASSUME TokenInv, NEW u \in Uses, Apply(u)
    PROVE  TokenInv'
<1> USE DEF TokenInv
<1> DEFINE t == uses[u].token
           a == tokens[t].account
           forced == IF tokens[t].kind = "reset" THEN FALSE ELSE accounts[a].forced
<1>1. /\ uses[u] \in UseState /\ uses[u].pc = "apply" /\ UNCHANGED <<tokens, issues>>
      /\ uses' = [uses EXCEPT ![u].pc = "mark"]
  BY DEF Apply, TokensTypeOK
<1>2. t \in Issues /\ issues[t].pc = "done" /\ IssueFits(t)
  BY <1>1, UseTypes DEF TokensTypeOK, UseFits
<1>3. /\ tokens[t] # NONE /\ a = issues[t].account /\ a \in Addresses
      /\ Exists(a) /\ accounts[a] \in Account
  BY <1>2, IssueTypes DEF IssueFits, Of, TokensTypeOK, Exists
<1>4. /\ uses' \in [Uses -> UseState]
      /\ \A v \in Uses : UseFits(v)'
  <2>1. uses[u] = [pc |-> "apply", token |-> t]
    BY <1>1 DEF UseState, Idle
  <2>2. uses'[u] = [pc |-> "mark", token |-> t] /\ \A v \in Uses \ {u} : uses'[v] = uses[v]
    BY <1>1, <2>1 DEF TokensTypeOK
  <2>3. uses' \in [Uses -> UseState]
    BY <1>1, <1>2, <2>2 DEF TokensTypeOK, UseState
  <2> QED BY <1>1, <1>2, <2>2, <2>3 DEF TokensTypeOK, UseFits
<1>5. accounts' = [accounts EXCEPT ![a] = [status |-> "ACTIVE", verified |-> TRUE,
                                           forced |-> forced, deleted |-> accounts[a].deleted]]
  <2>1. accounts' = [accounts EXCEPT ![a].status = "ACTIVE", ![a].verified = TRUE,
                                     ![a].forced = forced]
    BY DEF Apply
  <2>2. accounts'[a] = [status |-> "ACTIVE", verified |-> TRUE,
                        forced |-> forced, deleted |-> accounts[a].deleted]
    BY <1>3, <2>1 DEF Account, TokensTypeOK
  <2> QED BY <1>3, <2>1, <2>2 DEF TokensTypeOK
<1>6. [status |-> "ACTIVE", verified |-> TRUE, forced |-> forced,
       deleted |-> accounts[a].deleted] \in Account
  BY <1>3 DEF Account, UserStatus
<1>7. /\ accounts' \in [Addresses -> Account \cup {NONE}]
      /\ \A b \in Addresses : Exists(b) => Exists(b)'
      /\ \A b \in Addresses \ {a} : accounts'[b] = accounts[b]
  BY <1>3, <1>5, <1>6, NoRowAssumption DEF TokensTypeOK, Exists
<1> QED BY <1>1, <1>2, <1>3, <1>4, <1>7, AccountsChange

\* Marking one token.
LEMMA TokenMarkedKeeps ==
    ASSUME TokenInv, NEW t \in Issues, tokens[t] # NONE, NEW f \in {"used", "expired"},
           tokens' = [tokens EXCEPT ![t] = [tokens[t] EXCEPT ![f] = TRUE]],
           uses' \in [Uses -> UseState], \A u \in Uses : UseFits(u)',
           UNCHANGED <<accounts, issues>>
    PROVE  TokenInv'
<1> USE DEF TokenInv
<1>1. tokens' = [s \in Issues |-> IF s \in {t} THEN [tokens[s] EXCEPT ![f] = TRUE]
                                  ELSE tokens[s]]
  BY DEF TokensTypeOK
<1>2. /\ tokens' \in [Issues -> Token \cup {NONE}]
      /\ \A s \in Issues : /\ tokens'[s] = NONE <=> tokens[s] = NONE
                           /\ \A a, kind : Of(s, a, kind)' <=> Of(s, a, kind)
                           /\ tokens[s] # NONE /\ tokens[s].used => tokens'[s].used
  BY <1>1, TokensMarked
<1>3. \A i \in Issues : IssueFits(i)'
  BY <1>2 DEF TokensTypeOK, IssueFits, Exists
<1>4. TokensTypeOK'
  BY <1>2, <1>3 DEF TokensTypeOK
<1>5. CalmIssues'
  <2> SUFFICES ASSUME NEW i \in Issues, issues[i].pc = "save", issues[i].calm,
                      NEW s \in Issues, Of(s, issues[i].account, issues[i].kind)'
               PROVE  tokens'[s].used
    BY DEF CalmIssues
  <2>1. Of(s, issues[i].account, issues[i].kind)
    BY <1>2
  <2>2. tokens[s].used /\ tokens[s] # NONE
    BY <2>1 DEF CalmIssues, Of
  <2> QED BY <1>2, <2>2
<1>6. VerifiedByToken'
  BY DEF VerifiedByToken, Exists
<1> QED BY <1>4, <1>5, <1>6

LEMMA MarkKeeps ==
    ASSUME TokenInv, NEW u \in Uses, Mark(u)
    PROVE  TokenInv'
<1> USE DEF TokenInv
<1> DEFINE t == uses[u].token
<1>1. /\ uses[u].pc = "mark" /\ uses' = [uses EXCEPT ![u] = Idle] /\ UNCHANGED <<accounts, issues>>
      /\ tokens' = [tokens EXCEPT ![t].used = TRUE]
  BY DEF Mark
<1>2. t \in Issues /\ tokens[t] # NONE
  BY <1>1, UseTypes DEF TokensTypeOK, UseFits, IssueFits
<1>3. uses' \in [Uses -> UseState] /\ \A v \in Uses : UseFits(v)'
  BY <1>1 DEF TokensTypeOK, UseFits, UseState, Idle
<1>4. tokens' = [tokens EXCEPT ![t] = [tokens[t] EXCEPT !["used"] = TRUE]]
  BY <1>1
<1> HIDE DEF t
<1> QED BY <1>1, <1>2, <1>3, <1>4, TokenMarkedKeeps

LEMMA ExpireKeeps ==
    ASSUME TokenInv, NEW t \in Issues, ExpireToken(t)
    PROVE  TokenInv'
<1>1. /\ tokens[t] # NONE /\ UNCHANGED <<accounts, issues, uses>>
      /\ tokens' = [tokens EXCEPT ![t] = [tokens[t] EXCEPT !["expired"] = TRUE]]
  BY DEF ExpireToken
<1>2. uses' \in [Uses -> UseState] /\ \A u \in Uses : UseFits(u)'
  BY <1>1 DEF TokenInv, TokensTypeOK, UseFits
<1> QED BY <1>1, <1>2, TokenMarkedKeeps

LEMMA AccountKeeps ==
    ASSUME TokenInv, NEW a \in Addresses, AccountStep(a)
    PROVE  TokenInv'
<1>1. /\ Exists(a) /\ UNCHANGED <<tokens, issues, uses>>
      /\ accounts[a] \in Account
      /\ accounts \in [Addresses -> Account \cup {NONE}]
  BY DEF AccountStep, SetStatus, ChangePassword, DeleteAccount, Found, Exists, TokenInv,
         TokensTypeOK
<1>2. PICK x \in Account : /\ accounts' = [accounts EXCEPT ![a] = x]
                           /\ x.verified = accounts[a].verified
  <2>1. CASE SetStatus(a)
    <3>1. PICK status \in UserStatus : accounts' = [accounts EXCEPT ![a].status = status]
      BY <2>1 DEF SetStatus
    <3> DEFINE y == [accounts[a] EXCEPT !.status = status]
    <3>2. y \in Account /\ y.verified = accounts[a].verified
      BY <1>1 DEF Account
    <3>3. accounts' = [accounts EXCEPT ![a] = y]
      BY <3>1
    <3> HIDE DEF y
    <3> QED BY <3>2, <3>3
  <2>2. CASE ChangePassword(a)
    <3> DEFINE y == [accounts[a] EXCEPT !.forced = FALSE]
    <3>1. y \in Account /\ y.verified = accounts[a].verified
      BY <1>1 DEF Account
    <3>2. accounts' = [accounts EXCEPT ![a] = y]
      BY <2>2 DEF ChangePassword
    <3> HIDE DEF y
    <3> QED BY <3>1, <3>2
  <2>3. CASE DeleteAccount(a)
    <3> DEFINE y == [accounts[a] EXCEPT !.status = "INACTIVE", !.deleted = TRUE]
    <3>1. y \in Account /\ y.verified = accounts[a].verified
      BY <1>1 DEF Account, UserStatus
    <3>2. accounts' = [accounts EXCEPT ![a] = y]
      BY <1>1, <2>3 DEF DeleteAccount
    <3> HIDE DEF y
    <3> QED BY <3>1, <3>2
  <2> QED BY <2>1, <2>2, <2>3 DEF AccountStep
<1>3. /\ accounts' \in [Addresses -> Account \cup {NONE}]
      /\ \A b \in Addresses : Exists(b) => Exists(b)'
      /\ accounts'[a] = x
      /\ \A b \in Addresses \ {a} : accounts'[b] = accounts[b]
  BY <1>1, <1>2, NoRowAssumption DEF Exists
<1>4. uses' \in [Uses -> UseState] /\ \A u \in Uses : UseFits(u)'
  BY <1>1 DEF TokenInv, TokensTypeOK, UseFits
<1> QED BY <1>1, <1>2, <1>3, <1>4, AccountsChange

LEMMA AskKeeps ==
    ASSUME TokenInv, NEW i \in Issues, Ask(i)
    PROVE  TokenInv'
<1>1. PICK a \in Addresses, kind \in TokenKinds :
         Found(a) /\ issues' = [issues EXCEPT ![i] = Issue("retire", a, kind)]
  BY DEF Ask, Resend, RequestPasswordResetToken, SignInForced, TokenKinds
<1>2. issues[i].pc = "idle" /\ UNCHANGED <<accounts, tokens, uses>>
  BY DEF Ask, Resend, RequestPasswordResetToken, SignInForced
<1>3. accounts' \in [Addresses -> Account \cup {NONE}]
  BY <1>2 DEF TokenInv, TokensTypeOK
<1> QED BY <1>1, <1>2, <1>3, IssueBegins DEF Found, Exists

LEMMA IssueKeeps ==
    ASSUME TokenInv, NEW i \in Issues, IssueStep(i)
    PROVE  TokenInv'
<1>1. CASE Send(i)
  BY <1>1, IssueAdvances DEF Send
<1>2. CASE IssueDies(i)
  BY <1>2, IssueAdvances DEF IssueDies
<1> QED BY <1>1, <1>2, RetireKeeps, SaveKeeps DEF IssueStep
----------------------------------------------------------------------------
LEMMA CreationTypes ==
    ASSUME NEW x \in CreationState
    PROVE  /\ x.pc \in {"idle", "insert", "commit", "ended"}
           /\ x.pc \in {"insert", "commit"} =>
                /\ x.ticket \in Tickets /\ x.account \in Addresses /\ x.calm \in BOOLEAN
                /\ x = [pc |-> x.pc, ticket |-> x.ticket, account |-> x.account, calm |-> x.calm]
BY DEF CreationState, Idle

\* Requests to the accounts leave no address without its row, and free none.
LEMMA ElsewhereFrame ==
    ASSUME TokenInv, TokenInv',
           \/ \E i \in Issues \ Creations : Ask(i)
           \/ \E i \in Issues : IssueStep(i) \/ ExpireToken(i)
           \/ \E u \in Uses : UseStep(u)
           \/ \E a \in Addresses : AccountStep(a)
    PROVE  /\ \A a \in Addresses : Exists(a)' <=> Exists(a)
           /\ \A c \in Creations : issues[c].pc = "idle" => issues'[c].pc = "idle"
<1> USE DEF TokenInv
<1>1. ASSUME NEW i \in Issues \ Creations, Ask(i)
      PROVE  /\ UNCHANGED accounts
             /\ \A c \in Creations : issues'[c] = issues[c]
  BY <1>1, CreationsAssumption DEF Ask, Resend, RequestPasswordResetToken, SignInForced,
                                   TokensTypeOK
<1>2. ASSUME NEW i \in Issues, IssueStep(i) \/ ExpireToken(i)
      PROVE  /\ UNCHANGED accounts
             /\ \A c \in Creations : issues[c].pc = "idle" => issues'[c].pc = "idle"
  <2> USE CreationsAssumption DEF TokensTypeOK
  <2>1. CASE Retire(i)
    BY <2>1 DEF Retire
  <2>2. CASE Save(i)
    BY <2>2 DEF Save
  <2>3. CASE Send(i)
    BY <2>3 DEF Send
  <2>4. CASE IssueDies(i)
    BY <2>4 DEF IssueDies
  <2>5. CASE ExpireToken(i)
    BY <2>5 DEF ExpireToken
  <2> QED BY <1>2, <2>1, <2>2, <2>3, <2>4, <2>5 DEF IssueStep
<1>3. ASSUME NEW u \in Uses, UseStep(u)
      PROVE  (\A a \in Addresses : Exists(a)' <=> Exists(a)) /\ UNCHANGED issues
  <2>1. CASE FindToken(u) \/ Mark(u) \/ UseDies(u)
    BY <2>1 DEF FindToken, Mark, UseDies, Exists
  <2>2. CASE Apply(u)
    <3> DEFINE t == uses[u].token
    <3>1. t \in Issues /\ IssueFits(t) /\ issues[t].pc = "done" /\ UNCHANGED issues
      BY <2>2, UseTypes DEF Apply, TokensTypeOK, UseFits
    <3>2. PICK a \in Addresses : a = tokens[t].account /\ Exists(a)
      BY <3>1, IssueTypes DEF IssueFits, Of, TokensTypeOK
    <3>3. \A b \in Addresses \ {a} : accounts'[b] = accounts[b]
      BY <2>2, <3>2 DEF Apply, TokensTypeOK
    <3>4. Exists(a)'
      <4>1. accounts[a] \in Account
        BY <3>2 DEF TokensTypeOK, Exists
      <4>2. accounts'[a] = [accounts[a] EXCEPT !.status = "ACTIVE", !.verified = TRUE,
               !.forced = IF tokens[t].kind = "reset" THEN FALSE ELSE accounts[a].forced]
        BY <2>2, <3>2 DEF Apply, TokensTypeOK
      <4>3. accounts'[a] \in Account
        BY <4>1, <4>2 DEF Account, UserStatus
      <4> QED BY <4>3, NoRowAssumption DEF Exists
    <3> QED BY <3>1, <3>2, <3>3, <3>4 DEF Exists
  <2> QED BY <1>3, <2>1, <2>2 DEF UseStep
<1>4. ASSUME NEW a \in Addresses, AccountStep(a)
      PROVE  (\A b \in Addresses : Exists(b)' <=> Exists(b)) /\ UNCHANGED issues
  <2>1. accounts[a] \in Account /\ Exists(a) /\ UNCHANGED issues
    BY <1>4 DEF AccountStep, SetStatus, ChangePassword, DeleteAccount, Found, Exists,
                TokensTypeOK
  <2>2. \A b \in Addresses \ {a} : accounts'[b] = accounts[b]
    BY <1>4 DEF AccountStep, SetStatus, ChangePassword, DeleteAccount, TokensTypeOK
  <2>3. accounts'[a] # NONE
    <3>1. CASE SetStatus(a)
      <4>1. PICK status \in UserStatus : accounts' = [accounts EXCEPT ![a].status = status]
        BY <3>1 DEF SetStatus
      <4>2. accounts'[a] = [accounts[a] EXCEPT !.status = status]
        BY <4>1 DEF TokensTypeOK
      <4>3. accounts'[a] \in Account
        BY <2>1, <4>2 DEF Account
      <4> QED BY <4>3, NoRowAssumption
    <3>2. CASE ChangePassword(a)
      <4>1. accounts'[a] = [accounts[a] EXCEPT !.forced = FALSE]
        BY <3>2 DEF ChangePassword, TokensTypeOK
      <4>2. accounts'[a] \in Account
        BY <2>1, <4>1 DEF Account
      <4> QED BY <4>2, NoRowAssumption
    <3>3. CASE DeleteAccount(a)
      <4>1. accounts'[a] = [accounts[a] EXCEPT !.status = "INACTIVE", !.deleted = TRUE]
        BY <3>3 DEF DeleteAccount, TokensTypeOK
      <4>2. accounts'[a] \in Account
        BY <2>1, <4>1 DEF Account, UserStatus
      <4> QED BY <4>2, NoRowAssumption
    <3> QED BY <1>4, <3>1, <3>2, <3>3 DEF AccountStep
  <2> QED BY <2>1, <2>2, <2>3 DEF Exists
<1> QED BY <1>1, <1>2, <1>3, <1>4 DEF Exists

\* What happens elsewhere keeps the invariant.
LEMMA ElsewhereKeeps ==
    ASSUME CandidateInv, TokenInv', UNCHANGED <<aspirants, owns, creations>>,
           \A a \in Addresses : Exists(a)' <=> Exists(a),
           \A c \in Creations : issues[c].pc = "idle" => issues'[c].pc = "idle"
    PROVE  CandidateInv'
<1> USE DEF CandidateInv
<1>1. AspirantsLinked'
  <2>1. \A c \in Creations : aspirants[c] # NONE => aspirants[c].account \in Addresses
    BY DEF CandidatesTypeOK, Aspirant
  <2> QED BY <2>1 DEF CandidatesTypeOK, AspirantsLinked
<1>2. CandidatesTypeOK'
  BY <1>1 DEF CandidatesTypeOK, TokenInv
<1>3. \A c \in Creations : CreationFits(c)'
  <2> TAKE c \in Creations
  <2>1. CreationFits(c)
    OBVIOUS
  <2>2. creations[c].pc = "commit" => creations[c].account \in Addresses
    BY CreationTypes DEF CandidatesTypeOK
  <2> QED BY <2>1, <2>2 DEF CreationFits, Stands
<1> QED BY <1>2, <1>3

\* Creations that change their own state only.
LEMMA CreationMoves ==
    ASSUME CandidateInv, NEW c \in Creations, NEW x \in CreationState,
           creations' = [creations EXCEPT ![c] = x],
           UNCHANGED <<tokenVars, aspirants, owns>>,
           CreationFits(c)',
           x.pc = "commit" => \A d \in Creations \ {c} :
               creations[d].pc = "commit" => creations[d].account # x.account
    PROVE  CandidateInv'
<1> USE DEF CandidateInv
<1>1. TokenInv' /\ \A a : Exists(a)' <=> Exists(a)
  BY DEF TokenInv, TokensTypeOK, CalmIssues, VerifiedByToken, IssueFits, UseFits, Of, Exists,
         tokenVars
<1>2. CandidatesTypeOK'
  <2>1. creations' \in [Creations -> CreationState]
    BY DEF CandidatesTypeOK
  <2> QED BY <1>1, <2>1 DEF CandidatesTypeOK, AspirantsLinked, TokenInv
<1>3. creations'[c] = x /\ \A d \in Creations \ {c} : creations'[d] = creations[d]
  BY DEF CandidatesTypeOK
<1>4. \A d \in Creations : CreationFits(d)'
  <2> TAKE d \in Creations
  <2>1. CASE d # c
    <3>1. CreationFits(d)
      OBVIOUS
    <3> QED BY <1>1, <1>3, <2>1, <3>1 DEF CreationFits, Stands, tokenVars
  <2> QED BY <2>1
<1> QED BY <1>1, <1>2, <1>4

LEMMA CheckTicketKeeps ==
    ASSUME CandidateInv, NEW c \in Creations, CheckTicket(c)
    PROVE  CandidateInv'
<1>1. PICK ticket \in Tickets, a \in Addresses :
        /\ ~Stands(ticket)
        /\ creations' = [creations EXCEPT
              ![c] = [pc |-> "insert", ticket |-> ticket, account |-> a, calm |-> TRUE]]
  BY DEF CheckTicket
<1> DEFINE x == [pc |-> "insert", ticket |-> ticket, account |-> a, calm |-> TRUE]
<1>2. x \in CreationState /\ x.pc = "insert" /\ x.ticket = ticket
  BY DEF CreationState
<1>3. /\ creations[c].pc = "idle" /\ UNCHANGED <<tokenVars, aspirants, owns>>
      /\ creations' = [creations EXCEPT ![c] = x]
  BY <1>1 DEF CheckTicket
<1> HIDE DEF x
<1>4. CreationFits(c)'
  BY <1>1, <1>2, <1>3 DEF CandidateInv, CandidatesTypeOK, CreationFits, Stands, tokenVars
<1> QED BY <1>2, <1>3, <1>4, CreationMoves

LEMMA CreationEnds ==
    ASSUME CandidateInv, NEW c \in Creations,
           creations' = [creations EXCEPT ![c] = [pc |-> "ended"]],
           UNCHANGED <<tokenVars, aspirants, owns>>
    PROVE  CandidateInv'
<1> DEFINE x == [pc |-> "ended"]
<1>1. x \in CreationState /\ x.pc = "ended" /\ creations' = [creations EXCEPT ![c] = x]
  BY DEF CreationState
<1> HIDE DEF x
<1>2. CreationFits(c)'
  BY <1>1 DEF CandidateInv, CandidatesTypeOK, CreationFits
<1> QED BY <1>1, <1>2, CreationMoves

LEMMA InsertKeeps ==
    ASSUME CandidateInv, NEW c \in Creations, Insert(c)
    PROVE  CandidateInv'
<1> USE DEF CandidateInv
<1>1. /\ creations[c].pc = "insert" /\ UNCHANGED <<tokenVars, aspirants, owns>>
      /\ creations[c] \in CreationState /\ CreationFits(c)
  BY DEF Insert, CandidatesTypeOK
<1>2. CASE Exists(creations[c].account)
  BY <1>1, <1>2, CreationEnds DEF Insert
<1>3. CASE ~Exists(creations[c].account)
  <2> DEFINE x == [creations[c] EXCEPT !.pc = "commit"]
  <2>1. /\ x \in CreationState /\ x.pc = "commit" /\ x.ticket = creations[c].ticket
        /\ x.account = creations[c].account /\ x.calm = creations[c].calm
    BY <1>1, CreationTypes DEF CreationState
  <2>2. creations' = [creations EXCEPT ![c] = x] /\ ~Held(creations[c].account)
    BY <1>3 DEF Insert
  <2> HIDE DEF x
  <2>3. \A d \in Creations \ {c} :
          creations[d].pc = "commit" => creations[d].account # x.account
    BY <2>1, <2>2 DEF Held
  <2>4. creations'[c] = x /\ \A d \in Creations \ {c} : creations'[d] = creations[d]
    BY <2>2 DEF CandidatesTypeOK
  <2>5. CreationFits(c)'
    BY <1>1, <1>3, <2>1, <2>3, <2>4 DEF CreationFits, Stands, Exists, tokenVars
  <2> QED BY <1>1, <2>1, <2>2, <2>3, <2>5, CreationMoves
<1> QED BY <1>2, <1>3

LEMMA NewAccountTypes == NewAccount \in Account /\ NewAccount # NONE /\ ~NewAccount.verified
<1>1. NewAccount \in Account /\ ~NewAccount.verified
  BY DEF NewAccount, Account, UserStatus
<1> HIDE DEF NewAccount
<1> QED BY <1>1, NoRowAssumption

LEMMA CommitKeeps ==
    ASSUME CandidateInv, NEW c \in Creations, Commit(c)
    PROVE  CandidateInv'
<1> USE DEF CandidateInv
<1> DEFINE a == creations[c].account
           row == [ticket |-> creations[c].ticket, account |-> a]
           overtaken(d) == /\ creations[d].pc \in {"insert", "commit"}
                           /\ creations[d].ticket = creations[c].ticket
<1>1. /\ creations[c].pc = "commit" /\ creations[c] \in CreationState /\ CreationFits(c)
      /\ c \in Issues /\ issues[c].pc = "idle" /\ aspirants[c] = NONE
  BY CreationsAssumption DEF Commit, CandidatesTypeOK, CreationFits
<1>2. /\ a \in Addresses /\ ~Exists(a) /\ creations[c].ticket \in Tickets
      /\ row \in Aspirant /\ row # NONE
  BY <1>1, CreationTypes, NoAspirantAssumption DEF CreationFits, Aspirant
<1>3. /\ aspirants' = [aspirants EXCEPT ![c] = row]
      /\ accounts' = [accounts EXCEPT ![a] = NewAccount]
      /\ owns' = [owns EXCEPT ![a] = c]
      /\ issues' = [issues EXCEPT ![c] = Issue("retire", a, "verify")]
      /\ UNCHANGED <<tokens, uses>>
  BY DEF Commit
<1>4. /\ creations'[c] = [pc |-> "ended"]
      /\ \A d \in Creations \ {c} :
           creations'[d] = IF overtaken(d) THEN [creations[d] EXCEPT !.calm = FALSE]
                           ELSE creations[d]
      /\ creations' = [d \in Creations |-> creations'[d]]
  BY DEF Commit
<1>5. NewAccount \in Account /\ NewAccount # NONE /\ ~NewAccount.verified /\ "verify" \in TokenKinds
  BY NewAccountTypes DEF TokenKinds
<1>6. /\ accounts' \in [Addresses -> Account \cup {NONE}]
      /\ accounts'[a] = NewAccount
      /\ \A b \in Addresses \ {a} : accounts'[b] = accounts[b]
  BY <1>2, <1>3, <1>5 DEF CandidatesTypeOK, TokensTypeOK
<1>7. PICK e \in Addresses : e = a
  BY <1>2
<1>8. Exists(e)' /\ \A b \in Addresses \ {e} : Exists(b)' <=> Exists(b)
  BY <1>5, <1>6, <1>7 DEF Exists
<1>9. TokenInv'
  <2>1. \A b \in Addresses : Exists(b) => Exists(b)'
    BY <1>8
  <2>2. \A b \in Addresses : accounts'[b] = accounts[b] \/ ~accounts'[b].verified
    BY <1>5, <1>6
  <2>3. issues' = [issues EXCEPT ![c] = Issue("retire", e, "verify")]
    BY <1>3, <1>7
  <2> QED BY <1>1, <1>3, <1>5, <1>6, <1>8, <2>1, <2>2, <2>3, IssueBegins
<1>10. aspirants'[c] = row /\ \A d \in Creations \ {c} : aspirants'[d] = aspirants[d]
  BY <1>3 DEF CandidatesTypeOK
<1>11. owns[e] = NONE /\ owns'[e] = c /\ \A b \in Addresses \ {e} : owns'[b] = owns[b]
  BY <1>2, <1>3, <1>7, NoAspirantAssumption DEF CandidatesTypeOK, AspirantsLinked
<1>12. AspirantsLinked'
  <2>1. \A d \in Creations : aspirants[d] # NONE => aspirants[d].account \in Addresses \ {e}
    BY <1>2, <1>7 DEF CandidatesTypeOK, AspirantsLinked, Aspirant
  <2>2. ASSUME NEW d \in Creations, aspirants'[d] # NONE
        PROVE  Exists(aspirants[d].account)' /\ owns'[aspirants'[d].account] = d
    <3>1. CASE d = c
      BY <1>7, <1>8, <1>10, <1>11, <3>1 DEF Exists
    <3>2. CASE d # c
      BY <1>8, <1>10, <1>11, <2>1, <2>2, <3>2 DEF CandidatesTypeOK, AspirantsLinked, Exists
    <3> QED BY <3>1, <3>2
  <2>3. ASSUME NEW b \in Addresses, owns'[b] # NONE
        PROVE  aspirants'[owns'[b]] # NONE /\ aspirants'[owns'[b]].account = b
    <3>1. CASE b = e
      BY <1>2, <1>7, <1>10, <1>11, <3>1
    <3>2. CASE b # e
      <4>1. owns'[b] = owns[b] /\ owns[b] \in Creations /\ aspirants[owns[b]].account = b
        BY <1>11, <2>3, <3>2 DEF CandidatesTypeOK, AspirantsLinked
      <4>2. owns[b] # c
        BY <1>1, <1>11, <2>3, <3>2 DEF CandidatesTypeOK, AspirantsLinked
      <4> QED BY <1>10, <1>11, <2>3, <4>1, <4>2 DEF CandidatesTypeOK, AspirantsLinked
    <3> QED BY <3>1, <3>2
  <2> QED BY <2>2, <2>3 DEF AspirantsLinked
<1>13. \A d \in Creations : creations'[d] \in CreationState
  <2> TAKE d \in Creations
  <2>1. creations[d] \in CreationState
    BY DEF CandidatesTypeOK
  <2>2. CASE d # c /\ overtaken(d)
    <3>1. creations'[d] = [creations[d] EXCEPT !.calm = FALSE]
      BY <1>4, <2>2
    <3> QED BY <2>1, <2>2, <3>1, CreationTypes DEF CreationState
  <2>3. CASE d = c
    BY <1>4, <2>3 DEF CreationState
  <2> QED BY <1>4, <2>1, <2>2, <2>3
<1>14. CandidatesTypeOK'
  <2>1. creations' \in [Creations -> CreationState]
    BY <1>4, <1>13
  <2>2. aspirants' \in [Creations -> Aspirant \cup {NONE}] /\ owns' \in [Addresses -> Creations \cup {NONE}]
    BY <1>2, <1>3 DEF CandidatesTypeOK
  <2> QED BY <1>9, <1>12, <2>1, <2>2 DEF CandidatesTypeOK, TokenInv
<1>15. \A d \in Creations : CreationFits(d)'
  <2> TAKE d \in Creations
  <2>1. CASE d = c
    BY <1>4, <2>1 DEF CreationFits
  <2>2. CASE d # c
    <3>1. /\ creations[d] \in CreationState /\ CreationFits(d)
          /\ d \in Issues /\ issues'[d] = issues[d] /\ aspirants'[d] = aspirants[d]
      BY <1>3, <1>10, <2>2, CreationsAssumption DEF CandidatesTypeOK, TokensTypeOK
    <3>2. /\ creations'[d].pc = creations[d].pc
          /\ creations[d].pc \in {"insert", "commit"} =>
               /\ creations'[d].ticket = creations[d].ticket
               /\ creations'[d].account = creations[d].account
               /\ creations'[d].calm => creations[d].calm /\ ~overtaken(d)
      <4>1. CASE overtaken(d)
        <5>1. creations'[d] = [pc |-> creations[d].pc, ticket |-> creations[d].ticket,
                               account |-> creations[d].account, calm |-> FALSE]
          BY <1>4, <2>2, <3>1, <4>1, CreationTypes
        <5> QED BY <5>1
      <4>2. CASE ~overtaken(d)
        BY <1>4, <2>2, <4>2
      <4> QED BY <4>1, <4>2
    <3>3. creations[d].pc \in {"insert", "commit"} /\ creations'[d].calm =>
            ~Stands(creations[d].ticket)'
      BY <1>10, <3>1, <3>2 DEF CreationFits, Stands
    <3>4. creations[d].pc = "commit" =>
            /\ creations[d].account \in Addresses \ {e}
            /\ ~Exists(creations[d].account)
            /\ \A f \in Creations \ {d} :
                 creations'[f].pc = "commit" => creations'[f].account # creations[d].account
      <4>1. SUFFICES ASSUME creations[d].pc = "commit"
                     PROVE  /\ creations[d].account \in Addresses \ {e}
                            /\ ~Exists(creations[d].account)
                            /\ \A f \in Creations \ {d} : creations'[f].pc = "commit" =>
                                 creations'[f].account # creations[d].account
        OBVIOUS
      <4>2. creations[d].account \in Addresses \ {e} /\ ~Exists(creations[d].account)
        BY <1>1, <1>7, <2>2, <3>1, <4>1, CreationTypes DEF CreationFits
      <4>3. ASSUME NEW f \in Creations \ {d}, creations'[f].pc = "commit"
            PROVE  creations'[f].account # creations[d].account
        <5>1. f # c
          BY <1>4, <4>3
        <5>2. creations[f].pc = "commit" /\ creations'[f].account = creations[f].account
          <6>1. creations[f] \in CreationState
            BY DEF CandidatesTypeOK
          <6>2. CASE overtaken(f)
            <7>1. creations'[f] = [pc |-> creations[f].pc, ticket |-> creations[f].ticket,
                                   account |-> creations[f].account, calm |-> FALSE]
              BY <1>4, <5>1, <6>1, <6>2, CreationTypes
            <7> QED BY <4>3, <7>1
          <6>3. CASE ~overtaken(f)
            BY <1>4, <4>3, <5>1, <6>3
          <6> QED BY <6>2, <6>3
        <5> QED BY <3>1, <4>1, <5>2 DEF CreationFits
      <4> QED BY <4>2, <4>3
    <3>5. creations[d].pc = "commit" => accounts'[creations[d].account] = NONE
      BY <1>6, <1>7, <3>4 DEF Exists
    <3>6. creations'[d].pc # "ended" => issues'[d].pc = "idle" /\ aspirants'[d] = NONE
      BY <3>1, <3>2 DEF CreationFits
    <3>7. creations'[d].pc = "commit" =>
            /\ accounts'[creations'[d].account] = NONE
            /\ \A f \in Creations \ {d} :
                 creations'[f].pc = "commit" => creations'[f].account # creations'[d].account
      BY <3>2, <3>4, <3>5
    <3> QED BY <3>2, <3>3, <3>6, <3>7 DEF CreationFits, Exists
  <2> QED BY <2>1, <2>2
<1> QED BY <1>9, <1>14, <1>15

LEMMA CreateAccountKeeps ==
    ASSUME CandidateInv, NEW i \in Issues \ Creations, CreateAccount(i)
    PROVE  CandidateInv'
<1> USE DEF CandidateInv
<1>1. PICK a \in Addresses :
        /\ ~Exists(a) /\ ~Held(a)
        /\ accounts' = [accounts EXCEPT ![a] = NewAccount]
        /\ issues' = [issues EXCEPT ![i] = Issue("retire", a, "verify")]
  BY DEF CreateAccount
<1>2. issues[i].pc = "idle" /\ UNCHANGED <<tokens, uses, aspirants, owns, creations>>
  BY DEF CreateAccount
<1>3. NewAccount \in Account /\ NewAccount # NONE /\ ~NewAccount.verified /\ "verify" \in TokenKinds
  BY NewAccountTypes DEF TokenKinds
<1>4. /\ accounts' \in [Addresses -> Account \cup {NONE}]
      /\ accounts'[a] = NewAccount
      /\ \A b \in Addresses \ {a} : accounts'[b] = accounts[b]
      /\ \A c \in Creations : issues'[c] = issues[c]
  BY <1>1, <1>3, CreationsAssumption DEF CandidatesTypeOK, TokensTypeOK
<1>5. Exists(a)' /\ \A b \in Addresses \ {a} : Exists(b)' <=> Exists(b)
  BY <1>3, <1>4 DEF Exists
<1>6. TokenInv'
  <2>1. \A b \in Addresses : Exists(b) => Exists(b)'
    BY <1>5
  <2>2. \A b \in Addresses : accounts'[b] = accounts[b] \/ ~accounts'[b].verified
    BY <1>3, <1>4
  <2> QED BY <1>1, <1>2, <1>3, <1>4, <1>5, <2>1, <2>2, IssueBegins
<1>7. AspirantsLinked'
  <2>1. \A c \in Creations : aspirants[c] # NONE => aspirants[c].account \in Addresses
    BY DEF CandidatesTypeOK, Aspirant
  <2> QED BY <1>1, <1>2, <1>5, <2>1 DEF CandidatesTypeOK, AspirantsLinked
<1>8. CandidatesTypeOK'
  BY <1>2, <1>6, <1>7 DEF CandidatesTypeOK, TokenInv
<1>9. \A c \in Creations : CreationFits(c)'
  <2> TAKE c \in Creations
  <2>1. CreationFits(c)
    OBVIOUS
  <2>2. creations[c].pc = "commit" => creations[c].account \in Addresses \ {a}
    BY <1>1, CreationTypes DEF CandidatesTypeOK, Held
  <2> QED BY <1>2, <1>4, <1>5, <2>1, <2>2 DEF CreationFits, Stands
<1> QED BY <1>6, <1>8, <1>9

LEMMA CandidateInvInit == CandidatesInit => CandidateInv
<1> SUFFICES ASSUME CandidatesInit PROVE CandidateInv
  OBVIOUS
<1>1. TokenInv
  BY TokenInvInit DEF CandidatesInit
<1>2. CandidatesTypeOK
  BY <1>1 DEF CandidatesInit, CandidatesTypeOK, AspirantsLinked, CreationState, TokenInv
<1>3. \A c \in Creations : CreationFits(c)
  BY CreationsAssumption DEF CandidatesInit, TokensInit, CreationFits, Idle
<1> QED BY <1>1, <1>2, <1>3 DEF CandidateInv

LEMMA CandidateInvNext ==
    ASSUME CandidateInv, [CandidatesNext]_candidateVars
    PROVE  CandidateInv'
<1>1. CASE UNCHANGED candidateVars
  BY <1>1 DEF candidateVars, tokenVars, CandidateInv, CandidatesTypeOK, AspirantsLinked,
              CreationFits, Stands, TokenInv, TokensTypeOK, CalmIssues, VerifiedByToken,
              IssueFits, UseFits, Of, Exists
<1>2. ASSUME NEW c \in Creations, CreationStep(c) PROVE CandidateInv'
  <2>1. CASE CreationDies(c)
    BY <2>1, CreationEnds DEF CreationDies
  <2> QED BY <1>2, <2>1, CheckTicketKeeps, InsertKeeps, CommitKeeps DEF CreationStep
<1>3. ASSUME NEW i \in Issues \ Creations, CreateAccount(i) PROVE CandidateInv'
  BY <1>3, CreateAccountKeeps
<1>4. ASSUME UNCHANGED <<aspirants, owns, creations>>,
             \/ \E i \in Issues \ Creations : Ask(i)
             \/ \E i \in Issues : IssueStep(i) \/ ExpireToken(i)
             \/ \E u \in Uses : UseStep(u)
             \/ \E a \in Addresses : AccountStep(a)
      PROVE  CandidateInv'
  <2>1. TokenInv
    BY DEF CandidateInv
  <2>2. TokenInv'
    BY <1>4, <2>1, AskKeeps, IssueKeeps, ExpireKeeps, UseKeeps, ApplyKeeps, MarkKeeps,
       AccountKeeps DEF UseStep
  <2> QED BY <1>4, <2>1, <2>2, ElsewhereFrame, ElsewhereKeeps
<1> QED BY <1>1, <1>2, <1>3, <1>4 DEF CandidatesNext, Elsewhere

\* The inductive invariant holds in every reachable state.
THEOREM CandidateInvAlways == CandidatesSpec => []CandidateInv
<1>1. CandidatesInit => CandidateInv
  BY CandidateInvInit
<1>2. CandidateInv /\ [CandidatesNext]_candidateVars => CandidateInv'
  BY CandidateInvNext
<1> QED BY <1>1, <1>2, PTL DEF CandidatesSpec

\* Type correctness of accounts, tokens and aspirants for every number of
\* requests; an aspirant and its account are there together.
THEOREM CandidatesTypes == CandidatesSpec => []CandidatesTypeOK
<1>1. CandidateInv => CandidatesTypeOK
  BY DEF CandidateInv
<1> QED BY <1>1, CandidateInvAlways, PTL

\* create adds no aspirant beside another of the party and the office, but in
\* creations that overlap.
THEOREM CandidatesUnique == CandidatesSpec => UncontestedCandidatesUnique
<1>1. ASSUME CandidateInv, [CandidatesNext]_candidateVars,
             NEW c \in Creations, aspirants'[c] # aspirants[c], creations[c].calm
      PROVE  ~Stands(creations[c].ticket)
  <2>1. PICK d \in Creations : Commit(d)
    BY <1>1 DEF candidateVars, CandidatesNext, CreationStep, CheckTicket, Insert, CreationDies,
                CreateAccount, Elsewhere
  <2>2. d = c
    BY <1>1, <2>1 DEF Commit, CandidateInv, CandidatesTypeOK
  <2> QED BY <1>1, <2>1, <2>2 DEF Commit, CandidateInv, CreationFits
<1>2. CandidateInv /\ [CandidatesNext]_candidateVars =>
        [\A c \in Creations :
            aspirants'[c] # aspirants[c] /\ creations[c].calm =>
                ~Stands(creations[c].ticket)]_candidateVars
  BY <1>1
<1> QED BY <1>2, CandidateInvAlways, PTL DEF CandidatesSpec, UncontestedCandidatesUnique

\* Whoever is alone in asking for a token leaves one that works, however many
\* were open.
THEOREM IssueLeavesOne == CandidatesSpec => UncontestedIssueLeavesOne
<1>1. ASSUME CandidateInv, [CandidatesNext]_candidateVars, NEW i \in Issues,
             issues[i].pc = "save", issues'[i].pc = "send", issues[i].calm,
             NEW t \in Issues \ {i}, Of(t, issues[i].account, issues[i].kind)
      PROVE  tokens'[t].used
  <2>1. issues \in [Issues -> IssueState] /\ tokens \in [Issues -> Token \cup {NONE}]
    BY <1>1 DEF CandidateInv, CandidatesTypeOK, TokensTypeOK
  <2>2. Save(i)
    <3>1. CASE UNCHANGED issues
      BY <1>1, <3>1
    <3>2. ASSUME NEW j \in Issues, Save(j) PROVE Save(i)
      <4>1. CASE j = i
        BY <3>2, <4>1
      <4>2. CASE j # i
        <5>1. issues'[i] = issues[i] \/ issues'[i] = [issues[i] EXCEPT !.calm = FALSE]
          BY <3>2, <4>2 DEF Save
        <5>2. issues[i] = [pc |-> "save", account |-> issues[i].account,
                           kind |-> issues[i].kind, calm |-> issues[i].calm]
          BY <1>1, <2>1, IssueTypes
        <5> QED BY <1>1, <5>1, <5>2
      <4> QED BY <4>1, <4>2
    <3>3. ASSUME NEW j \in Issues, Retire(j) \/ Send(j) \/ IssueDies(j) PROVE Save(i)
      BY <1>1, <2>1, <3>3, IssueTypes DEF Retire, Send, IssueDies, IssueState, Idle
    <3>4. ASSUME NEW j \in Issues, Ask(j) \/ CreateAccount(j) PROVE Save(i)
      BY <1>1, <2>1, <3>4
         DEF Ask, Resend, RequestPasswordResetToken, SignInForced, CreateAccount, Issue
    <3>5. ASSUME NEW c \in Creations, CreationStep(c) PROVE Save(i)
      BY <1>1, <2>1, <3>5, CreationsAssumption
         DEF CreationStep, CheckTicket, Insert, Commit, CreationDies, Issue, tokenVars
    <3>6. ASSUME NEW u \in Uses, UseStep(u) PROVE UNCHANGED issues
      BY <3>6 DEF UseStep, FindToken, Apply, Mark, UseDies
    <3>7. ASSUME NEW a \in Addresses, AccountStep(a) PROVE UNCHANGED issues
      BY <3>7 DEF AccountStep, SetStatus, ChangePassword, DeleteAccount
    <3>8. ASSUME NEW j \in Issues, ExpireToken(j) PROVE UNCHANGED issues
      BY <3>8 DEF ExpireToken
    <3> QED BY <1>1, <3>1, <3>2, <3>3, <3>4, <3>5, <3>6, <3>7, <3>8
            DEF CandidatesNext, candidateVars, tokenVars, Elsewhere, IssueStep
  <2>3. tokens'[t] = tokens[t]
    BY <2>1, <2>2 DEF Save
  <2> QED BY <1>1, <2>3 DEF CandidateInv, TokenInv, CalmIssues
<1>2. CandidateInv /\ [CandidatesNext]_candidateVars =>
        [\A i \in Issues :
            issues[i].pc = "save" /\ issues'[i].pc = "send" /\ issues[i].calm =>
              \A t \in Issues \ {i} :
                Of(t, issues[i].account, issues[i].kind) => tokens'[t].used]_tokenVars
  BY <1>1
<1> QED BY <1>2, CandidateInvAlways, PTL DEF CandidatesSpec, UncontestedIssueLeavesOne

\* An address counts as verified only once a token has been sent to it
\* (verifyUser, verifyAdmin and the two password resets).
THEOREM VerifiedByTokens == CandidatesSpec => []VerifiedByToken
<1>1. CandidateInv => VerifiedByToken
  BY DEF CandidateInv, TokenInv
<1> QED BY <1>1, CandidateInvAlways, PTL
=============================================================================
