-------------------------- MODULE Identity_proofs --------------------------
(***************************************************************************)
(* Proofs about Identity: types and unique indexes, and that the users and *)
(* teams of MongoDB agree.                                                 *)
(***************************************************************************)
EXTENDS Identity, TLAPS

-----------------------------------------------------------------------------
(***************************************************************************)
(* The invariant.                                                          *)
(***************************************************************************)
InHand == {"insert user", "undo"}

\* What is awaited tells what was asked for; signups and registrations await different
\* calls, and a registration's id, once it has one, is kept.
RequestsTyped ==
  /\ \A q \in Signups :
       request[q].pc \notin {"new", "done"} => request[q].handle \in Handles /\ request[q].name \in Names
  /\ \A q \in Contestants :
       /\ request[q].pc \in {"new", "find team", "insert team", "done"}
       /\ request[q].pc \in {"find team", "insert team"} => request[q].name \in Names
       /\ request[q].pc # "done" => request[q].id = NoId

\* Nobody is served while the process starts.
ServedWhenUp == ~Serving => \A q \in Requests : request[q].pc \in {"new", "done"}

\* The migration has still to do the accounts without a team id, and no others.
MigrationCovers ==
  /\ start.pc \in {"upsert", "update"} => start.todo = {u \in users : Legacy(u)}
  /\ start.pc = "up" => \A u \in users : ~Legacy(u)

\* A team's id is that of nothing with another name.
IdsNameTeams ==
  \A t \in teams :
    /\ \A u \in users : u.id = t.id => u.team = t.name
    /\ \A q \in Signups : request[q].pc \in InHand /\ request[q].id = t.id => request[q].name = t.name

\* The ids in hand of signups are different, none of them is an account's yet, and a
\* team in hand is there.
HandsAreDistinct ==
  /\ \A p, q \in Signups :
       p # q /\ request[p].pc \in InHand /\ request[q].pc \in InHand => request[p].id # request[q].id
  /\ \A q \in Signups : \A u \in users :
       \/ request[q].pc = "insert user"
       \/ request[q].pc = "undo" /\ "user kept" \notin wentWrong
       => u.id # request[q].id
  /\ \A q \in Signups : request[q].pc = "insert user" =>
       [name |-> request[q].name, id |-> request[q].id] \in teams

IInv ==
  /\ TypeOK /\ RequestsTyped /\ ServedWhenUp /\ MigrationCovers /\ IdsNameTeams /\ HandsAreDistinct
  /\ AccountsAgree

RequestType == [pc : Pcs, handle : Handles \cup {""}, name : Names \cup {""}, id : 0..lastId]

-----------------------------------------------------------------------------
(***************************************************************************)
(* Steps that store nothing.                                               *)
(***************************************************************************)
\* The types of what is stored do not depend on the requests.
LEMMA RequestKeepsType ==
  ASSUME TypeOK, request' \in [Requests -> RequestType],
         \A p \in Requests : request'[p].pc \in {"insert user", "undo"} => request'[p].id # NoId,
         UNCHANGED <<users, teams, lastId, tokens, start, crashes, wentWrong>>
  PROVE  TypeOK'
<1>1. Accounts' = Accounts /\ RequestType' = RequestType
  BY DEF Accounts, RequestType
<1> QED
  BY <1>1 DEF TypeOK, RequestType, Legacy

LEMMA HandHasId ==
  ASSUME TypeOK, NEW p \in Requests, request[p].pc \in {"insert user", "undo"}
  PROVE  request[p].id # NoId
  BY DEF TypeOK

\* A request that neither was nor gets its hands on a team changes nothing that the
\* other parts of the invariant speak of.
LEMMA RequestsApart ==
  ASSUME IInv, NEW q \in Requests,
         \A p \in Requests : p # q => request'[p] = request[p],
         request[q].pc \notin InHand, request'[q].pc \notin InHand,
         q \in Contestants => request'[q].id = request[q].id,
         UNCHANGED <<users, teams, lastId, tokens, start, crashes, wentWrong>>
  PROVE  MigrationCovers' /\ IdsNameTeams' /\ HandsAreDistinct' /\ AccountsAgree'
<1> USE DEF Requests
<1>1. \A p \in Signups : request'[p].pc \in InHand <=> request[p].pc \in InHand
  OBVIOUS
<1>2. \A p \in Signups : request[p].pc \in InHand => request'[p] = request[p]
  OBVIOUS
<1>3. MigrationCovers'
  BY DEF IInv, MigrationCovers, Legacy
<1>4. IdsNameTeams'
  BY <1>1, <1>2 DEF IInv, IdsNameTeams
<1>5. HandsAreDistinct'
  BY <1>1, <1>2 DEF IInv, HandsAreDistinct, InHand
<1>6. AccountsHaveTheirTeam <=> AccountsHaveTheirTeam'
  BY DEF AccountsHaveTheirTeam, Legacy
<1>7. TeamsHaveAnOwner => TeamsHaveAnOwner'
  <2> SUFFICES ASSUME TeamsHaveAnOwner, NEW t \in teams
               PROVE  \/ \E u \in users : u.team = t.name
                      \/ \E p \in Contestants : request'[p].id = t.id
                      \/ \E p \in Signups : request'[p].id = t.id /\ request'[p].pc \in {"insert user", "undo"}
    BY DEF TeamsHaveAnOwner
  <2>1. CASE \E u \in users : u.team = t.name
    BY <2>1
  <2>2. CASE \E p \in Contestants : request[p].id = t.id
    BY <2>2
  <2>3. CASE \E p \in Signups : request[p].id = t.id /\ request[p].pc \in {"insert user", "undo"}
    BY <1>2, <2>3 DEF InHand
  <2> QED
    BY <2>1, <2>2, <2>3 DEF TeamsHaveAnOwner
<1>8. AccountsAgree'
  BY <1>6, <1>7 DEF IInv, AccountsAgree, TokensAreGood, Legacy
<1> QED
  BY <1>3, <1>4, <1>5, <1>8

\* A request goes on, or ends, without having stored anything.
LEMMA PcKeeps ==
  ASSUME IInv, NEW q \in Requests, Serving,
         request[q].pc \in {"find user", "find team", "insert team"},
         NEW pc \in {"done", "find team", "insert team"}, Goto(q, pc),
         UNCHANGED <<users, teams, lastId, tokens, start, crashes, wentWrong>>
  PROVE  IInv'
<1> USE DEF Requests
<1>1. /\ request' = [request EXCEPT ![q].pc = pc]
      /\ request[q] \in RequestType
      /\ request \in [Requests -> RequestType]
  BY DEF Goto, IInv, TypeOK, RequestType
<1>2. /\ \A p \in Requests : p # q => request'[p] = request[p]
      /\ request'[q].pc = pc /\ request'[q].id = request[q].id
      /\ request'[q].handle = request[q].handle /\ request'[q].name = request[q].name
      /\ request' \in [Requests -> RequestType]
  BY <1>1 DEF RequestType, Pcs
<1>3. TypeOK'
  <2>1. \A p \in Requests : request'[p].pc \in {"insert user", "undo"} => request'[p].id # NoId
    BY <1>2, HandHasId DEF IInv
  <2> QED
    BY <1>2, <2>1, RequestKeepsType DEF IInv
<1>4. RequestsTyped' /\ ServedWhenUp'
  BY <1>2 DEF IInv, RequestsTyped, ServedWhenUp, Serving
<1>5. MigrationCovers' /\ IdsNameTeams' /\ HandsAreDistinct' /\ AccountsAgree'
  BY <1>2, RequestsApart DEF InHand
<1> QED
  BY <1>3, <1>4, <1>5 DEF IInv

LEMMA FindKeeps ==
  ASSUME IInv, NEW q \in Requests,
         FindUser(q) \/ FindTeam(q) \/ FindRegistered(q) \/ AnswersError(q)
  PROVE  IInv'
  BY PcKeeps DEF FindUser, FindTeam, FindRegistered, AnswersError, At, documents

LEMMA SignUpKeeps ==
  ASSUME IInv, NEW q \in Signups, NEW handle \in Handles, NEW name \in Names, SignUp(q, handle, name)
  PROVE  IInv'
<1> USE DEF Requests
<1>1. /\ request' = [request EXCEPT ![q] =
                       [pc |-> "find user", handle |-> handle, name |-> name, id |-> NoId]]
      /\ request[q].pc = "new" /\ Serving
      /\ UNCHANGED <<users, teams, lastId, tokens, start, crashes, wentWrong>>
      /\ request \in [Requests -> RequestType] /\ lastId \in Nat
  BY DEF SignUp, At, documents, IInv, TypeOK, RequestType
<1>2. /\ \A p \in Requests : p # q => request'[p] = request[p]
      /\ request'[q] = [pc |-> "find user", handle |-> handle, name |-> name, id |-> NoId]
      /\ request' \in [Requests -> RequestType]
  <2>1. lastId \in Nat
    BY <1>1
  <2>2. NoId \in 0..lastId
    BY ONLY <2>1 DEF NoId
  <2>3. [pc |-> "find user", handle |-> handle, name |-> name, id |-> NoId] \in RequestType
    BY ONLY <2>2, handle \in Handles, name \in Names DEF RequestType, Pcs
  <2> QED
    BY <1>1, <2>3
<1>3. TypeOK'
  <2>1. \A p \in Requests : request'[p].pc \in {"insert user", "undo"} => request'[p].id # NoId
    <3>1. request'[q].pc = [pc |-> "find user", handle |-> handle, name |-> name, id |-> NoId].pc
      BY <1>2, Zenon
    <3> QED
      BY <1>2, <3>1, HandHasId DEF IInv
  <2> QED
    BY <1>1, <1>2, <2>1, RequestKeepsType DEF IInv
<1>4. RequestsTyped' /\ ServedWhenUp'
  BY <1>1, <1>2, RequestsAssumption DEF IInv, RequestsTyped, ServedWhenUp, Serving
<1>5. MigrationCovers' /\ IdsNameTeams' /\ HandsAreDistinct' /\ AccountsAgree'
  BY <1>1, <1>2, RequestsApart, RequestsAssumption DEF InHand
<1> QED
  BY <1>3, <1>4, <1>5 DEF IInv

LEMMA RegisterKeeps ==
  ASSUME IInv, NEW q \in Contestants, NEW name \in Names, Register(q, name)
  PROVE  IInv'
<1> USE DEF Requests
<1>1. /\ request' = [request EXCEPT ![q].pc = "find team", ![q].name = name]
      /\ request[q].pc = "new" /\ Serving
      /\ UNCHANGED <<users, teams, lastId, tokens, start, crashes, wentWrong>>
      /\ request \in [Requests -> RequestType]
  BY DEF Register, At, documents, IInv, TypeOK, RequestType
<1>2. /\ \A p \in Requests : p # q => request'[p] = request[p]
      /\ request'[q].pc = "find team" /\ request'[q].name = name
      /\ request'[q].id = request[q].id
      /\ request' \in [Requests -> RequestType]
  BY <1>1 DEF RequestType, Pcs
<1>3. TypeOK'
  <2>1. \A p \in Requests : request'[p].pc \in {"insert user", "undo"} => request'[p].id # NoId
    BY <1>2, HandHasId DEF IInv
  <2> QED
    BY <1>1, <1>2, <2>1, RequestKeepsType DEF IInv
<1>4. RequestsTyped' /\ ServedWhenUp'
  BY <1>1, <1>2, RequestsAssumption DEF IInv, RequestsTyped, ServedWhenUp, Serving
<1>5. MigrationCovers' /\ IdsNameTeams' /\ HandsAreDistinct' /\ AccountsAgree'
  BY <1>1, <1>2, RequestsApart DEF InHand
<1> QED
  BY <1>3, <1>4, <1>5 DEF IInv

LEMMA LogInKeeps ==
  ASSUME IInv, NEW u \in users, LogIn(u)
  PROVE  IInv'
<1>1. /\ tokens' = tokens \cup {u} /\ ~Legacy(u)
      /\ UNCHANGED <<users, teams, lastId, request, start, crashes, wentWrong>>
  BY DEF LogIn, Serving, documents, IInv, MigrationCovers
<1>2. TypeOK'
  BY <1>1 DEF IInv, TypeOK, Accounts, Legacy
<1>3. AccountsAgree'
  BY <1>1 DEF IInv, AccountsAgree, AccountsHaveTheirTeam, TeamsHaveAnOwner, TokensAreGood, Legacy
<1>4. RequestsTyped' /\ ServedWhenUp' /\ MigrationCovers' /\ IdsNameTeams' /\ HandsAreDistinct'
  BY <1>1 DEF IInv, RequestsTyped, ServedWhenUp, Serving, MigrationCovers, Legacy, IdsNameTeams,
              HandsAreDistinct
<1> QED
  BY <1>2, <1>3, <1>4 DEF IInv

-----------------------------------------------------------------------------
(***************************************************************************)
(* Steps that store a team.                                                *)
(***************************************************************************)
\* What a change of a request's pc leaves alone.
LEMMA GotoChanges ==
  ASSUME TypeOK, NEW q \in Requests, NEW pc \in Pcs, Goto(q, pc)
  PROVE  /\ \A p \in Requests : p # q => request'[p] = request[p]
         /\ request'[q].pc = pc /\ request'[q].id = request[q].id
         /\ request'[q].handle = request[q].handle /\ request'[q].name = request[q].name
         /\ request' \in [Requests -> RequestType]
<1>1. /\ request' = [request EXCEPT ![q].pc = pc]
      /\ request[q] \in RequestType
      /\ request \in [Requests -> RequestType]
  BY DEF Goto, TypeOK, RequestType
<1> QED
  BY <1>1 DEF RequestType

\* The id of a team that is added is above all others.
LEMMA TeamIsAdded ==
  ASSUME TypeOK, NEW name \in Names, TeamNamed(name) = {}, AddsTeam(name)
  PROVE  /\ lastId' \in Nat /\ lastId' = lastId + 1
         /\ Accounts \subseteq Accounts' /\ RequestType \subseteq RequestType'
         /\ lastId' \in 0..lastId'
         /\ \A i \in 0..lastId : i \in 0..lastId' /\ i # lastId'
         /\ teams' = teams \cup {[name |-> name, id |-> lastId']}
         /\ teams' \subseteq [name : Names, id : 1..lastId']
         /\ \A s, t \in teams' : s # t => s.name # t.name /\ s.id # t.id
         /\ \A t \in teams : t.id # lastId' /\ t.id # NoId
         /\ \A u \in users : u.id # lastId'
         /\ \A q \in Requests : request[q].id # lastId'
         /\ lastId' # NoId
<1>1. /\ lastId' \in Nat /\ lastId' = lastId + 1 /\ lastId \in Nat
      /\ \A i \in 0..lastId : i \in 0..lastId' /\ i # lastId'
      /\ \A i \in 1..lastId : i \in 1..lastId' /\ i # lastId' /\ i # NoId
      /\ lastId' \in 1..lastId' /\ lastId' \in 0..lastId' /\ lastId' # NoId
  <2>1. lastId \in Nat /\ lastId' = lastId + 1
    BY DEF TypeOK, AddsTeam
  <2> QED
    BY ONLY <2>1 DEF NoId
<1>2. teams' = teams \cup {[name |-> name, id |-> lastId']}
  BY DEF AddsTeam
<1>3. Accounts \subseteq Accounts' /\ RequestType \subseteq RequestType'
  BY <1>1 DEF Accounts, RequestType
<1>4. teams \subseteq [name : Names, id : 1..lastId]
  BY DEF TypeOK
<1>5. \A t \in teams : t \in [name : Names, id : 1..lastId'] /\ t.id # lastId' /\ t.id # NoId
  BY <1>1, <1>4
<1>6. [name |-> name, id |-> lastId'] \in [name : Names, id : 1..lastId']
  BY <1>1
<1>7. teams' \subseteq [name : Names, id : 1..lastId']
  BY <1>2, <1>5, <1>6
<1>8. \A t \in teams : t.name # name
  BY DEF TeamNamed
<1>9. \A s, t \in teams' : s # t => s.name # t.name /\ s.id # t.id
  <2>1. \A s, t \in teams : s # t => s.name # t.name /\ s.id # t.id
    BY DEF TypeOK
  <2>2. [name |-> name, id |-> lastId'].name = name /\ [name |-> name, id |-> lastId'].id = lastId'
    OBVIOUS
  <2> QED
    BY <1>2, <1>5, <1>8, <2>1, <2>2, Zenon
<1>10. (\A u \in users : u.id # lastId') /\ (\A q \in Requests : request[q].id # lastId')
  BY <1>1 DEF TypeOK, Accounts
<1> QED
  BY <1>1, <1>2, <1>3, <1>5, <1>7, <1>9, <1>10

\* A team that is added leaves the accounts as they are; what is asked for is an owner.
LEMMA AddedTeamAgrees ==
  ASSUME IInv, NEW name \in Names, TeamNamed(name) = {}, AddsTeam(name),
         UNCHANGED <<users, tokens>>, wentWrong \subseteq wentWrong',
         \A t \in teams : (\E p \in Contestants : request[p].id = t.id) =>
                            (\E p \in Contestants : request'[p].id = t.id),
         \A p \in Signups : request[p].pc \in InHand =>
                              request'[p].id = request[p].id /\ request'[p].pc \in InHand,
         \/ "team kept" \in wentWrong'
         \/ \E u \in users : u.team = name
         \/ \E p \in Contestants : request'[p].id = lastId'
         \/ \E p \in Signups : request'[p].id = lastId' /\ request'[p].pc \in InHand
  PROVE  AccountsAgree'
<1>1. teams' = teams \cup {[name |-> name, id |-> lastId']}
  BY TeamIsAdded DEF IInv
<1>2. AccountsHaveTheirTeam => AccountsHaveTheirTeam'
  BY <1>1 DEF AccountsHaveTheirTeam, Legacy
<1>3. ASSUME TeamsHaveAnOwner, "team kept" \notin wentWrong'
      PROVE  TeamsHaveAnOwner'
  <2> SUFFICES ASSUME NEW t \in teams'
               PROVE  \/ \E u \in users : u.team = t.name
                      \/ \E p \in Contestants : request'[p].id = t.id
                      \/ \E p \in Signups : request'[p].id = t.id /\ request'[p].pc \in {"insert user", "undo"}
    BY DEF TeamsHaveAnOwner
  <2>1. CASE t \in teams
    <3>1. CASE \E u \in users : u.team = t.name
      BY <3>1
    <3>2. CASE \E p \in Contestants : request[p].id = t.id
      BY <2>1, <3>2
    <3>3. CASE \E p \in Signups : request[p].id = t.id /\ request[p].pc \in {"insert user", "undo"}
      BY <3>3 DEF InHand
    <3> QED
      BY <1>3, <2>1, <3>1, <3>2, <3>3 DEF TeamsHaveAnOwner
  <2>2. CASE t = [name |-> name, id |-> lastId']
    <3>1. t.id = lastId' /\ t.name = name
      BY <2>2
    <3> QED
      BY <1>3, <3>1 DEF InHand
  <2> QED
    BY <1>1, <2>1, <2>2
<1>4. TokensAreGood'
  BY DEF IInv, AccountsAgree, TokensAreGood, Legacy
<1> QED
  BY <1>2, <1>3, <1>4 DEF IInv, AccountsAgree

LEMMA InsertTeamKeeps ==
  ASSUME IInv, NEW q \in Requests, InsertTeam(q)
  PROVE  IInv'
<1>1. CASE TeamNamed(request[q].name) # {}
  <2>1. /\ Serving /\ request[q].pc = "insert team" /\ Goto(q, "done")
        /\ UNCHANGED <<users, teams, lastId, tokens, start, crashes, wentWrong>>
    BY <1>1, Zenon DEF InsertTeam, At
  <2> QED
    BY <2>1, PcKeeps
<1>2. CASE TeamNamed(request[q].name) = {}
  <2> DEFINE name == request[q].name
  <2>1. /\ q \in Signups /\ q \in Requests /\ Serving /\ request[q].pc = "insert team"
        /\ AddsTeam(name)
        /\ request' = [request EXCEPT ![q].pc = "insert user", ![q].id = lastId']
        /\ UNCHANGED <<users, tokens, start, crashes, wentWrong>>
        /\ name \in Names
    BY <1>2 DEF InsertTeam, At, IInv, RequestsTyped
  <2>2. /\ lastId' \in Nat /\ lastId' = lastId + 1
        /\ Accounts \subseteq Accounts' /\ RequestType \subseteq RequestType'
        /\ lastId' \in 0..lastId'
        /\ \A i \in 0..lastId : i \in 0..lastId' /\ i # lastId'
        /\ teams' = teams \cup {[name |-> name, id |-> lastId']}
        /\ teams' \subseteq [name : Names, id : 1..lastId']
        /\ \A s, t \in teams' : s # t => s.name # t.name /\ s.id # t.id
        /\ \A t \in teams : t.id # lastId' /\ t.id # NoId
        /\ \A u \in users : u.id # lastId'
        /\ \A p \in Requests : request[p].id # lastId'
        /\ lastId' # NoId
    BY <1>2, <2>1, TeamIsAdded DEF IInv
  <2>3. request \in [Requests -> RequestType] /\ request \in [Requests -> RequestType']
    BY <2>2 DEF IInv, TypeOK, RequestType
  <2>4. /\ \A p \in Requests : p # q => request'[p] = request[p]
        /\ request'[q].pc = "insert user" /\ request'[q].id = lastId'
        /\ request'[q].handle = request[q].handle /\ request'[q].name = name
        /\ request' \in [Requests -> RequestType']
    <3>1. request[q] \in [pc : Pcs, handle : Handles \cup {""}, name : Names \cup {""}, id : 0..lastId']
      BY <2>1, <2>3 DEF RequestType
    <3>2. [request[q] EXCEPT !.pc = "insert user", !.id = lastId'] \in RequestType'
      BY <3>1, <2>2 DEF RequestType, Pcs
    <3> QED
      BY <2>1, <2>3, <3>1, <3>2
  <2>5. TypeOK'
    <3>1. \A p \in Requests : request'[p].pc \in {"insert user", "undo"} => request'[p].id # NoId
      BY <2>2, <2>4, HandHasId DEF IInv
    <3>2. start \in [pc : {"legacy", "upsert", "update", "up"}, todo : SUBSET Accounts', id : 0..lastId']
      BY <2>2 DEF IInv, TypeOK
    <3> QED
      BY <2>1, <2>2, <2>4, <3>1, <3>2 DEF IInv, TypeOK, RequestType, Legacy
  <2>6. RequestsTyped' /\ ServedWhenUp'
    BY <2>1, <2>4, RequestsAssumption DEF IInv, RequestsTyped, ServedWhenUp, Serving, Requests
  <2>7. MigrationCovers'
    BY <2>1 DEF IInv, MigrationCovers, Legacy
  <2>0. Signups \subseteq Requests
    BY DEF Requests
  <2>11. /\ \A p \in Signups : p # q => request'[p] = request[p] /\ request[p].id # lastId'
         /\ request'[q].pc = "insert user" /\ request'[q].id = lastId' /\ request'[q].name = name
         /\ \A t \in teams : t.id # lastId'
         /\ \A u \in users : u.id # lastId'
    BY <2>0, <2>2, <2>4
  <2>12. IdsNameTeams /\ HandsAreDistinct
    BY DEF IInv
  <2>8. IdsNameTeams'
    <3> SUFFICES ASSUME NEW t \in teams'
                 PROVE  /\ \A u \in users : u.id = t.id => u.team = t.name
                        /\ \A p \in Signups : request'[p].pc \in InHand /\ request'[p].id = t.id =>
                                               request'[p].name = t.name
      BY <2>1 DEF IdsNameTeams
    <3>1. CASE t \in teams
      BY <2>11, <2>12, <3>1 DEF IdsNameTeams
    <3>2. CASE t = [name |-> name, id |-> lastId']
      <4>1. t.id = lastId' /\ t.name = name
        BY <3>2
      <4> QED
        BY <2>11, <4>1
    <3> QED
      BY <2>2, <3>1, <3>2
  <2>9. HandsAreDistinct'
    <3>1. \A p, r \in Signups :
            p # r /\ request'[p].pc \in InHand /\ request'[r].pc \in InHand => request'[p].id # request'[r].id
      BY <2>11, <2>12 DEF HandsAreDistinct, InHand
    <3>2. \A p \in Signups : \A u \in users :
            \/ request'[p].pc = "insert user"
            \/ request'[p].pc = "undo" /\ "user kept" \notin wentWrong
            => u.id # request'[p].id
      BY <2>11, <2>12 DEF HandsAreDistinct, InHand
    <3>3. \A p \in Signups : request'[p].pc = "insert user" =>
            [name |-> request'[p].name, id |-> request'[p].id] \in teams'
      BY <2>2, <2>11, <2>12 DEF HandsAreDistinct, InHand
    <3> QED
      BY <2>1, <3>1, <3>2, <3>3 DEF HandsAreDistinct
  <2>10. AccountsAgree'
    <3>1. \A t \in teams : (\E p \in Contestants : request[p].id = t.id) =>
                             (\E p \in Contestants : request'[p].id = t.id)
      BY <2>1, <2>4, RequestsAssumption DEF Requests
    <3>2. \A p \in Signups : request[p].pc \in InHand =>
                               request'[p].id = request[p].id /\ request'[p].pc \in InHand
      BY <2>1, <2>4 DEF InHand, Requests
    <3>3. \E p \in Signups : request'[p].id = lastId' /\ request'[p].pc \in InHand
      BY <2>1, <2>4 DEF InHand
    <3> QED
      BY <1>2, <2>1, <3>1, <3>2, <3>3, AddedTeamAgrees
  <2> QED
    BY <2>5, <2>6, <2>7, <2>8, <2>9, <2>10 DEF IInv
<1> QED
  BY <1>1, <1>2

\* A request that ends with a team stored: one that was registered, or a signup's whose
\* insertion threw.
LEMMA TeamIsLeft ==
  ASSUME IInv, NEW q \in Requests, Serving, request[q].pc = "insert team",
         TeamNamed(request[q].name) = {}, AddsTeam(request[q].name),
         NEW id \in 0..lastId',
         request' = [request EXCEPT ![q].pc = "done", ![q].id = id],
         UNCHANGED <<users, tokens, start, crashes>>,
         \/ q \in Contestants /\ id = lastId' /\ UNCHANGED wentWrong
         \/ id = request[q].id /\ Blames("team kept")
  PROVE  IInv'
<1> DEFINE name == request[q].name
<1>1. /\ name \in Names /\ Signups \subseteq Requests /\ Contestants \subseteq Requests
      /\ wentWrong \subseteq wentWrong' /\ wentWrong' \subseteq {"team kept", "user kept"}
      /\ "user kept" \in wentWrong' => "user kept" \in wentWrong
  BY DEF IInv, RequestsTyped, Requests, Blames, TypeOK
<1>2. /\ lastId' \in Nat
      /\ Accounts \subseteq Accounts' /\ RequestType \subseteq RequestType'
      /\ teams' = teams \cup {[name |-> name, id |-> lastId']}
      /\ teams' \subseteq [name : Names, id : 1..lastId']
      /\ \A s, t \in teams' : s # t => s.name # t.name /\ s.id # t.id
      /\ \A t \in teams : t.id # lastId' /\ t.id # NoId
      /\ \A u \in users : u.id # lastId'
      /\ \A p \in Requests : request[p].id # lastId'
      /\ \A i \in 0..lastId : i \in 0..lastId'
  BY <1>1, TeamIsAdded DEF IInv
<1>3. request \in [Requests -> RequestType]
  BY DEF IInv, TypeOK, RequestType
<1>4. /\ \A p \in Requests : p # q => request'[p] = request[p]
      /\ request'[q].pc = "done" /\ request'[q].id = id
      /\ request'[q].handle = request[q].handle /\ request'[q].name = name
      /\ request' \in [Requests -> RequestType']
  <2>1. request[q] \in [pc : Pcs, handle : Handles \cup {""}, name : Names \cup {""}, id : 0..lastId']
    BY <1>2, <1>3 DEF RequestType
  <2>2. [request[q] EXCEPT !.pc = "done", !.id = id] \in RequestType'
    BY <2>1, <1>2 DEF RequestType, Pcs
  <2>3. request \in [Requests -> RequestType']
    BY <1>2, <1>3
  <2> QED
    BY <1>3, <2>1, <2>2, <2>3
<1>5. TypeOK'
  <2>1. \A p \in Requests : request'[p].pc \in {"insert user", "undo"} => request'[p].id # NoId
    BY <1>4, HandHasId DEF IInv
  <2>2. start \in [pc : {"legacy", "upsert", "update", "up"}, todo : SUBSET Accounts', id : 0..lastId']
    BY <1>2 DEF IInv, TypeOK
  <2> QED
    BY <1>1, <1>2, <1>4, <2>1, <2>2 DEF IInv, TypeOK, RequestType, Legacy
<1>6. RequestsTyped' /\ ServedWhenUp'
  BY <1>1, <1>4 DEF IInv, RequestsTyped, ServedWhenUp, Serving
<1>7. MigrationCovers'
  BY DEF IInv, MigrationCovers, Legacy
<1>8. \A p \in Signups : request'[p].pc \in InHand =>
                           /\ request[p].pc = request'[p].pc /\ request[p].id = request'[p].id
                           /\ request[p].name = request'[p].name /\ request'[p].id # lastId'
  BY <1>1, <1>2, <1>4 DEF InHand
<1>9. IdsNameTeams /\ HandsAreDistinct
  BY DEF IInv
<1>10. IdsNameTeams'
  <2> SUFFICES ASSUME NEW t \in teams'
               PROVE  /\ \A u \in users : u.id = t.id => u.team = t.name
                      /\ \A p \in Signups : request'[p].pc \in InHand /\ request'[p].id = t.id =>
                                             request'[p].name = t.name
    BY DEF IdsNameTeams
  <2>1. CASE t \in teams
    <3>1. \A p \in Signups : request'[p].pc \in InHand /\ request'[p].id = t.id => request'[p].name = t.name
      <4> SUFFICES ASSUME NEW p \in Signups, request'[p].pc \in InHand, request'[p].id = t.id
                   PROVE  request'[p].name = t.name
        OBVIOUS
      <4>1. request[p].pc \in InHand /\ request[p].id = t.id /\ request[p].name = request'[p].name
        BY <1>8
      <4> QED
        BY <1>9, <2>1, <4>1 DEF IdsNameTeams
    <3> QED
      BY <1>9, <2>1, <3>1 DEF IdsNameTeams
  <2>2. CASE t = [name |-> name, id |-> lastId']
    <3>1. t.id = lastId' /\ t.name = name
      BY <2>2
    <3> QED
      BY <1>2, <1>8, <3>1
  <2> QED
    BY <1>2, <2>1, <2>2
<1>11. HandsAreDistinct'
  <2>1. \A p, r \in Signups :
          p # r /\ request'[p].pc \in InHand /\ request'[r].pc \in InHand => request'[p].id # request'[r].id
    <3> SUFFICES ASSUME NEW p \in Signups, NEW r \in Signups, p # r,
                        request'[p].pc \in InHand, request'[r].pc \in InHand
                 PROVE  request'[p].id # request'[r].id
      OBVIOUS
    <3>1. /\ request[p].pc \in InHand /\ request[p].id = request'[p].id
          /\ request[r].pc \in InHand /\ request[r].id = request'[r].id
      BY <1>8
    <3> QED
      BY <1>9, <3>1 DEF HandsAreDistinct
  <2>2. \A p \in Signups : \A u \in users :
          \/ request'[p].pc = "insert user"
          \/ request'[p].pc = "undo" /\ "user kept" \notin wentWrong'
          => u.id # request'[p].id
    <3> SUFFICES ASSUME NEW p \in Signups, NEW u \in users,
                        \/ request'[p].pc = "insert user"
                        \/ request'[p].pc = "undo" /\ "user kept" \notin wentWrong'
                 PROVE  u.id # request'[p].id
      OBVIOUS
    <3>1. request[p].pc = request'[p].pc /\ request[p].id = request'[p].id
      BY <1>8 DEF InHand
    <3>2. "user kept" \in wentWrong => "user kept" \in wentWrong'
      BY <1>1
    <3> QED
      BY <1>9, <3>1, <3>2 DEF HandsAreDistinct
  <2>3. \A p \in Signups : request'[p].pc = "insert user" =>
          [name |-> request'[p].name, id |-> request'[p].id] \in teams'
    <3> SUFFICES ASSUME NEW p \in Signups, request'[p].pc = "insert user"
                 PROVE  [name |-> request'[p].name, id |-> request'[p].id] \in teams'
      OBVIOUS
    <3>1. request[p].pc = "insert user" /\ request[p].id = request'[p].id /\ request[p].name = request'[p].name
      BY <1>8 DEF InHand
    <3>2. [name |-> request[p].name, id |-> request[p].id] \in teams
      BY <1>9, <3>1 DEF HandsAreDistinct
    <3>3. teams \subseteq teams'
      BY <1>2
    <3> QED
      BY <3>1, <3>2, <3>3, Zenon
  <2> QED
    BY <2>1, <2>2, <2>3 DEF HandsAreDistinct
<1>12. AccountsAgree'
  <2>1. \A t \in teams : (\E p \in Contestants : request[p].id = t.id) =>
                           (\E p \in Contestants : request'[p].id = t.id)
    <3>1. q \in Contestants => request[q].id = NoId
      BY DEF IInv, RequestsTyped
    <3>2. \A p \in Contestants : p # q => request'[p] = request[p]
      BY <1>1, <1>4
    <3>3. \A t \in teams : t.id # NoId
      BY <1>2
    <3> QED
      BY <3>1, <3>2, <3>3, Zenon
  <2>2. \A p \in Signups : request[p].pc \in InHand =>
                             request'[p].id = request[p].id /\ request'[p].pc \in InHand
    BY <1>1, <1>4 DEF InHand
  <2>3. \/ "team kept" \in wentWrong'
        \/ \E p \in Contestants : request'[p].id = lastId'
    BY <1>4 DEF Blames
  <2> QED
    BY <1>1, <2>1, <2>2, <2>3, AddedTeamAgrees
<1> QED
  BY <1>5, <1>6, <1>7, <1>10, <1>11, <1>12 DEF IInv

LEMMA InsertTeamThrowsKeeps ==
  ASSUME IInv, NEW q \in Requests, InsertTeamThrows(q)
  PROVE  IInv'
<1>1. /\ Serving /\ request[q].pc = "insert team" /\ Goto(q, "done")
      /\ UNCHANGED <<users, tokens, start, crashes>>
  BY DEF InsertTeamThrows, At
<1>2. CASE UNCHANGED <<teams, lastId, wentWrong>>
  BY <1>1, <1>2, PcKeeps
<1>3. CASE TeamNamed(request[q].name) = {} /\ AddsTeam(request[q].name) /\ Blames("team kept")
  <2>1. /\ request \in [Requests -> RequestType] /\ request[q] \in RequestType
        /\ request[q].id \in 0..lastId'
    <3>1. request \in [Requests -> RequestType] /\ request[q] \in RequestType /\ request[q].id \in 0..lastId
      BY DEF IInv, TypeOK, RequestType
    <3>2. lastId \in Nat /\ lastId' = lastId + 1
      BY <1>3 DEF AddsTeam, IInv, TypeOK
    <3> QED
      BY <3>1, <3>2
  <2>2. [request[q] EXCEPT !.pc = "done"] = [request[q] EXCEPT !.pc = "done", !.id = request[q].id]
    BY <2>1 DEF RequestType
  <2>3. request' = [request EXCEPT ![q].pc = "done", ![q].id = request[q].id]
    BY <1>1, <2>1, <2>2 DEF Goto
  <2> QED
    BY <1>1, <1>3, <2>1, <2>3, TeamIsLeft
<1> QED
  BY <1>2, <1>3 DEF InsertTeamThrows

LEMMA InsertRegisteredKeeps ==
  ASSUME IInv, NEW q \in Requests, InsertRegistered(q)
  PROVE  IInv'
<1>1. /\ q \in Contestants /\ Serving /\ request[q].pc = "insert team"
      /\ UNCHANGED <<users, tokens, start, crashes, wentWrong>>
  BY DEF InsertRegistered, At
<1>2. CASE TeamNamed(request[q].name) # {}
  <2>1. Goto(q, "done") /\ UNCHANGED <<teams, lastId>>
    BY <1>2, Zenon DEF InsertRegistered
  <2> QED
    BY <1>1, <2>1, PcKeeps
<1>3. CASE TeamNamed(request[q].name) = {}
  <2>1. /\ AddsTeam(request[q].name)
        /\ request' = [request EXCEPT ![q].pc = "done", ![q].id = lastId']
    BY <1>3 DEF InsertRegistered
  <2>2. lastId \in Nat /\ lastId' = lastId + 1
    BY <2>1 DEF AddsTeam, IInv, TypeOK
  <2>3. lastId' \in 0..lastId'
    BY ONLY <2>2
  <2> QED
    BY <1>1, <1>3, <2>1, <2>3, TeamIsLeft
<1> QED
  BY <1>2, <1>3

-----------------------------------------------------------------------------
(***************************************************************************)
(* Steps that store an account, or delete a team.                          *)
(***************************************************************************)
\* Only signups insert accounts, and the account in hand is a new one.
LEMMA AccountInHand ==
  ASSUME IInv, NEW q \in Requests, request[q].pc \in InHand
  PROVE  /\ q \in Signups /\ Account(q) \in Accounts /\ ~Legacy(Account(q))
         /\ Account(q).team = request[q].name /\ Account(q).id = request[q].id
         /\ Signups \subseteq Requests /\ Contestants \subseteq Requests
<1>1. q \in Signups
  BY DEF IInv, RequestsTyped, Requests, InHand
<1>2. request[q].handle \in Handles /\ request[q].name \in Names
  BY <1>1 DEF IInv, RequestsTyped, InHand
<1>3. request[q].id \in 0..lastId /\ request[q].id # NoId
  BY DEF IInv, TypeOK, InHand
<1> QED
  BY <1>1, <1>2, <1>3 DEF Account, Accounts, Legacy, Requests

\* The request goes on to what is after the insertion, and the account may be stored.
LEMMA AccountStoredKeeps ==
  ASSUME IInv, NEW q \in Requests, Serving, request[q].pc = "insert user",
         NEW pc \in {"done", "undo"}, Goto(q, pc), ~Clashes(Account(q)),
         users' = users \cup {Account(q)},
         tokens \subseteq tokens', tokens' \subseteq tokens \cup {Account(q)},
         wentWrong \subseteq wentWrong', wentWrong' \subseteq wentWrong \cup {"user kept"},
         pc = "undo" => "user kept" \in wentWrong',
         UNCHANGED <<teams, lastId, start, crashes>>
  PROVE  IInv'
<1> DEFINE a == Account(q)
<1>1. /\ q \in Signups /\ a \in Accounts /\ ~Legacy(a)
      /\ a.team = request[q].name /\ a.id = request[q].id
      /\ Signups \subseteq Requests /\ Contestants \subseteq Requests
  BY AccountInHand DEF InHand
<1>2. /\ \A p \in Requests : p # q => request'[p] = request[p]
      /\ request'[q].pc = pc /\ request'[q].id = request[q].id
      /\ request'[q].handle = request[q].handle /\ request'[q].name = request[q].name
      /\ request' \in [Requests -> RequestType]
  <2>1. pc \in Pcs
    BY DEF Pcs
  <2> QED
    BY <2>1, GotoChanges DEF IInv
<1>3. \A v \in users : v.handle # a.handle /\ v.team # a.team /\ v.id # a.id
  BY DEF Clashes
<1>4. TypeOK'
  <2>1. \A p \in Requests : request'[p].pc \in {"insert user", "undo"} => request'[p].id # NoId
    BY <1>2, HandHasId DEF IInv
  <2>2. \A u, v \in users' : u # v =>
          u.handle # v.handle /\ u.team # v.team /\ (u.id = v.id => u.id = NoId)
    <3>1. \A u, v \in users : u # v =>
            u.handle # v.handle /\ u.team # v.team /\ (u.id = v.id => u.id = NoId)
      BY DEF IInv, TypeOK, Legacy
    <3> QED
      BY <1>3, <3>1, Zenon
  <2>3. Accounts' = Accounts /\ RequestType' = RequestType
    BY DEF Accounts, RequestType
  <2>4. wentWrong' \subseteq {"team kept", "user kept"}
    BY DEF IInv, TypeOK
  <2>5. users' \subseteq Accounts /\ tokens' \subseteq Accounts
    BY <1>1 DEF IInv, TypeOK
  <2> QED
    BY <1>2, <2>1, <2>2, <2>3, <2>4, <2>5 DEF IInv, TypeOK, RequestType, Legacy
<1>5. RequestsTyped' /\ ServedWhenUp'
  BY <1>1, <1>2, RequestsAssumption DEF IInv, RequestsTyped, ServedWhenUp, Serving
<1>6. MigrationCovers'
  BY <1>1 DEF IInv, MigrationCovers, Legacy, Serving
<1>7. \A p \in Signups : p # q => /\ request[p].pc = request'[p].pc /\ request[p].id = request'[p].id
                                  /\ request[p].name = request'[p].name
  BY <1>1, <1>2
<1>8. IdsNameTeams /\ HandsAreDistinct
  BY DEF IInv
<1>9. \A t \in teams : t.id = a.id => t.name = a.team
  BY <1>1, <1>8 DEF IdsNameTeams, InHand
<1>10. IdsNameTeams'
  <2> SUFFICES ASSUME NEW t \in teams
               PROVE  /\ \A u \in users' : u.id = t.id => u.team = t.name
                      /\ \A p \in Signups : request'[p].pc \in InHand /\ request'[p].id = t.id =>
                                             request'[p].name = t.name
    BY DEF IdsNameTeams
  <2>1. \A u \in users' : u.id = t.id => u.team = t.name
    BY <1>8, <1>9 DEF IdsNameTeams
  <2>2. \A p \in Signups : request'[p].pc \in InHand /\ request'[p].id = t.id => request'[p].name = t.name
    <3> SUFFICES ASSUME NEW p \in Signups, request'[p].pc \in InHand, request'[p].id = t.id
                 PROVE  request'[p].name = t.name
      OBVIOUS
    <3>1. CASE p = q
      BY <1>1, <1>2, <1>9, <3>1
    <3>2. CASE p # q
      BY <1>7, <1>8, <3>2 DEF IdsNameTeams
    <3> QED
      BY <3>1, <3>2
  <2> QED
    BY <2>1, <2>2
<1>11. HandsAreDistinct'
  <2>1. \A p \in Signups : p # q /\ request[p].pc \in InHand => request[p].id # request[q].id
    BY <1>1, <1>8 DEF HandsAreDistinct, InHand
  <2>2. \A p, r \in Signups :
          p # r /\ request'[p].pc \in InHand /\ request'[r].pc \in InHand => request'[p].id # request'[r].id
    <3> SUFFICES ASSUME NEW p \in Signups, NEW r \in Signups, p # r,
                        request'[p].pc \in InHand, request'[r].pc \in InHand
                 PROVE  request'[p].id # request'[r].id
      OBVIOUS
    <3>1. CASE p # q /\ r # q
      BY <1>7, <1>8, <3>1 DEF HandsAreDistinct
    <3>2. CASE p = q
      BY <1>2, <1>7, <2>1, <3>2
    <3>3. CASE r = q
      BY <1>2, <1>7, <2>1, <3>3
    <3> QED
      BY <3>1, <3>2, <3>3
  <2>3. \A p \in Signups : \A u \in users' :
          \/ request'[p].pc = "insert user"
          \/ request'[p].pc = "undo" /\ "user kept" \notin wentWrong'
          => u.id # request'[p].id
    <3> SUFFICES ASSUME NEW p \in Signups, NEW u \in users',
                        \/ request'[p].pc = "insert user"
                        \/ request'[p].pc = "undo" /\ "user kept" \notin wentWrong'
                 PROVE  u.id # request'[p].id
      OBVIOUS
    <3>1. p # q
      BY <1>2
    <3>2. request[p].pc = request'[p].pc /\ request[p].id = request'[p].id
      BY <1>7, <3>1
    <3>3. CASE u = a
      BY <1>1, <2>1, <3>1, <3>2, <3>3 DEF InHand
    <3>4. CASE u \in users
      BY <1>8, <3>2, <3>4 DEF HandsAreDistinct
    <3> QED
      BY <3>3, <3>4
  <2>4. \A p \in Signups : request'[p].pc = "insert user" =>
          [name |-> request'[p].name, id |-> request'[p].id] \in teams
    <3> SUFFICES ASSUME NEW p \in Signups, request'[p].pc = "insert user"
                 PROVE  [name |-> request'[p].name, id |-> request'[p].id] \in teams
      OBVIOUS
    <3>1. p # q
      BY <1>2
    <3>2. /\ request[p].pc = request'[p].pc /\ request[p].id = request'[p].id
          /\ request[p].name = request'[p].name
      BY <1>7, <3>1
    <3> QED
      BY <1>8, <3>2 DEF HandsAreDistinct
  <2> QED
    BY <2>2, <2>3, <2>4 DEF HandsAreDistinct
<1>12. AccountsAgree'
  <2>1. [name |-> a.team, id |-> a.id] \in teams
    BY <1>1, <1>8 DEF HandsAreDistinct
  <2>2. AccountsHaveTheirTeam => AccountsHaveTheirTeam'
    BY <2>1 DEF AccountsHaveTheirTeam, Legacy
  <2>3. ASSUME TeamsHaveAnOwner
        PROVE  TeamsHaveAnOwner'
    <3> SUFFICES ASSUME NEW t \in teams
                 PROVE  \/ \E u \in users' : u.team = t.name
                        \/ \E p \in Contestants : request'[p].id = t.id
                        \/ \E p \in Signups : request'[p].id = t.id /\ request'[p].pc \in {"insert user", "undo"}
      BY DEF TeamsHaveAnOwner
    <3>1. CASE \E u \in users : u.team = t.name
      BY <3>1
    <3>2. CASE \E p \in Contestants : request[p].id = t.id
      BY <1>1, <1>2, <3>2, RequestsAssumption
    <3>3. CASE \E p \in Signups : request[p].id = t.id /\ request[p].pc \in {"insert user", "undo"}
      <4>1. PICK p \in Signups : request[p].id = t.id /\ request[p].pc \in {"insert user", "undo"}
        BY <3>3
      <4>2. CASE p = q
        BY <1>1, <1>9, <4>1, <4>2
      <4>3. CASE p # q
        BY <1>7, <4>1, <4>3
      <4> QED
        BY <4>2, <4>3
    <3> QED
      BY <2>3, <3>1, <3>2, <3>3 DEF TeamsHaveAnOwner
  <2>4. TokensAreGood'
    BY <1>1 DEF IInv, AccountsAgree, TokensAreGood, Legacy
  <2> QED
    BY <2>2, <2>3, <2>4 DEF IInv, AccountsAgree
<1> QED
  BY <1>4, <1>5, <1>6, <1>10, <1>11, <1>12 DEF IInv

LEMMA IdsNameTeamsStill ==
  ASSUME IdsNameTeams, teams' \subseteq teams, UNCHANGED users,
         \A p \in Signups : request'[p].pc \in InHand =>
           /\ request[p].pc \in InHand
           /\ request[p].id = request'[p].id /\ request[p].name = request'[p].name
  PROVE  IdsNameTeams'
<1> SUFFICES ASSUME NEW t \in teams'
             PROVE  /\ \A u \in users : u.id = t.id => u.team = t.name
                    /\ \A p \in Signups : request'[p].pc \in InHand /\ request'[p].id = t.id =>
                                           request'[p].name = t.name
  BY DEF IdsNameTeams
<1>1. t \in teams
  OBVIOUS
<1>2. \A p \in Signups : request'[p].pc \in InHand /\ request'[p].id = t.id => request'[p].name = t.name
  <2> SUFFICES ASSUME NEW p \in Signups, request'[p].pc \in InHand, request'[p].id = t.id
               PROVE  request'[p].name = t.name
    OBVIOUS
  <2>1. request[p].pc \in InHand /\ request[p].id = t.id /\ request[p].name = request'[p].name
    OBVIOUS
  <2> QED
    BY <1>1, <2>1 DEF IdsNameTeams
<1> QED
  BY <1>1, <1>2 DEF IdsNameTeams

\* Teams keep their owner when signups keep what they have in hand.
LEMMA OwnersStay ==
  ASSUME TeamsHaveAnOwner, UNCHANGED <<teams, users>>,
         \A p \in Contestants : request'[p].id = request[p].id,
         \A p \in Signups : request[p].pc \in InHand =>
           request'[p].pc \in InHand /\ request'[p].id = request[p].id
  PROVE  TeamsHaveAnOwner'
<1> SUFFICES ASSUME NEW t \in teams
             PROVE  \/ \E u \in users : u.team = t.name
                    \/ \E p \in Contestants : request'[p].id = t.id
                    \/ \E p \in Signups : request'[p].id = t.id /\ request'[p].pc \in {"insert user", "undo"}
  BY DEF TeamsHaveAnOwner
<1>1. CASE \E u \in users : u.team = t.name
  BY <1>1
<1>2. CASE \E p \in Contestants : request[p].id = t.id
  BY <1>2
<1>3. CASE \E p \in Signups : request[p].id = t.id /\ request[p].pc \in {"insert user", "undo"}
  BY <1>3 DEF InHand
<1> QED
  BY <1>1, <1>2, <1>3 DEF TeamsHaveAnOwner

LEMMA NotStoredKeeps ==
  ASSUME IInv, NEW q \in Requests, Serving, request[q].pc = "insert user", Goto(q, "undo"),
         UNCHANGED <<users, teams, lastId, tokens, start, crashes, wentWrong>>
  PROVE  IInv'
<1>1. q \in Signups /\ Signups \subseteq Requests /\ Contestants \subseteq Requests
  BY AccountInHand DEF InHand
<1>2. /\ \A p \in Requests : p # q => request'[p] = request[p]
      /\ request'[q].pc = "undo" /\ request'[q].id = request[q].id
      /\ request'[q].handle = request[q].handle /\ request'[q].name = request[q].name
      /\ request' \in [Requests -> RequestType]
  BY GotoChanges DEF IInv, Pcs
<1>3. TypeOK'
  <2>1. \A p \in Requests : request'[p].pc \in {"insert user", "undo"} => request'[p].id # NoId
    BY <1>2, HandHasId DEF IInv
  <2> QED
    BY <1>2, <2>1, RequestKeepsType DEF IInv
<1>4. RequestsTyped' /\ ServedWhenUp'
  BY <1>1, <1>2, RequestsAssumption DEF IInv, RequestsTyped, ServedWhenUp, Serving
<1>5. MigrationCovers'
  BY DEF IInv, MigrationCovers, Legacy
<1>6. \A p \in Signups : /\ request'[p].pc \in InHand <=> request[p].pc \in InHand
                         /\ request[p].id = request'[p].id /\ request[p].name = request'[p].name
                         /\ request'[p].pc = "insert user" => request[p].pc = "insert user"
                         /\ request'[p].pc = "undo" => request[p].pc \in {"insert user", "undo"}
  BY <1>1, <1>2 DEF InHand
<1>7. IdsNameTeams'
  BY <1>6, IdsNameTeamsStill DEF IInv
<1>8. HandsAreDistinct'
  <2>1. HandsAreDistinct
    BY DEF IInv
  <2>2. \A p, r \in Signups :
          p # r /\ request'[p].pc \in InHand /\ request'[r].pc \in InHand => request'[p].id # request'[r].id
    BY <1>6, <2>1 DEF HandsAreDistinct
  <2>3. \A p \in Signups : \A u \in users :
          \/ request'[p].pc = "insert user"
          \/ request'[p].pc = "undo" /\ "user kept" \notin wentWrong
          => u.id # request'[p].id
    BY <1>6, <2>1 DEF HandsAreDistinct
  <2>4. \A p \in Signups : request'[p].pc = "insert user" =>
          [name |-> request'[p].name, id |-> request'[p].id] \in teams
    BY <1>6, <2>1 DEF HandsAreDistinct
  <2> QED
    BY <2>2, <2>3, <2>4 DEF HandsAreDistinct
<1>9. AccountsAgree'
  <2>1. AccountsHaveTheirTeam => AccountsHaveTheirTeam'
    BY DEF AccountsHaveTheirTeam, Legacy
  <2>2. TeamsHaveAnOwner => TeamsHaveAnOwner'
    <3>1. \A p \in Contestants : request'[p].id = request[p].id
      BY <1>1, <1>2, RequestsAssumption
    <3>2. \A p \in Signups : request[p].pc \in {"insert user", "undo"} =>
            request'[p].pc \in {"insert user", "undo"} /\ request'[p].id = request[p].id
      BY <1>6 DEF InHand
    <3> QED
      BY <3>1, <3>2, OwnersStay DEF InHand
  <2> QED
    BY <2>1, <2>2 DEF IInv, AccountsAgree, TokensAreGood, Legacy
<1> QED
  BY <1>3, <1>4, <1>5, <1>7, <1>8, <1>9 DEF IInv

LEMMA InsertUserKeeps ==
  ASSUME IInv, NEW q \in Requests, InsertUser(q) \/ InsertUserThrows(q)
  PROVE  IInv'
<1>1. Serving /\ request[q].pc = "insert user" /\ UNCHANGED <<teams, lastId, start, crashes>>
  BY DEF InsertUser, InsertUserThrows, At
<1>2. CASE Goto(q, "undo") /\ UNCHANGED <<users, tokens, wentWrong>>
  BY <1>1, <1>2, NotStoredKeeps
<1>3. CASE /\ ~Clashes(Account(q)) /\ users' = users \cup {Account(q)}
           /\ tokens' = tokens \cup {Account(q)} /\ Goto(q, "done") /\ UNCHANGED wentWrong
  BY <1>1, <1>3, AccountStoredKeeps
<1>4. CASE /\ ~Clashes(Account(q)) /\ users' = users \cup {Account(q)}
           /\ UNCHANGED tokens /\ Goto(q, "undo") /\ Blames("user kept")
  <2>1. wentWrong' = wentWrong \cup {"user kept"}
    BY <1>4 DEF Blames
  <2> QED
    BY <1>1, <1>4, <2>1, AccountStoredKeeps
<1>5. CASE InsertUser(q)
  BY <1>2, <1>3, <1>5, Zenon DEF InsertUser
<1>6. CASE InsertUserThrows(q)
  BY <1>2, <1>4, <1>6, Zenon DEF InsertUserThrows
<1> QED
  BY <1>5, <1>6

LEMMA UndoTeamKeeps ==
  ASSUME IInv, NEW q \in Requests, UndoTeam(q)
  PROVE  IInv'
<1> DEFINE mine == [name |-> request[q].name, id |-> request[q].id]
<1>1. /\ Serving /\ request[q].pc = "undo" /\ Goto(q, "done")
      /\ UNCHANGED <<users, lastId, tokens, start, crashes>>
      /\ \/ teams' = teams \ {mine} /\ UNCHANGED wentWrong
         \/ UNCHANGED teams /\ wentWrong' = wentWrong \cup {"team kept"}
  BY DEF UndoTeam, At, Blames
<1>2. q \in Signups /\ Signups \subseteq Requests /\ Contestants \subseteq Requests
  BY <1>1, AccountInHand DEF InHand
<1>3. /\ \A p \in Requests : p # q => request'[p] = request[p]
      /\ request'[q].pc = "done" /\ request'[q].id = request[q].id
      /\ request'[q].handle = request[q].handle /\ request'[q].name = request[q].name
      /\ request' \in [Requests -> RequestType]
  BY <1>1, GotoChanges DEF IInv, Pcs
<1>4. teams' \subseteq teams /\ wentWrong \subseteq wentWrong'
  BY <1>1
<1>5. TypeOK'
  <2>1. \A p \in Requests : request'[p].pc \in {"insert user", "undo"} => request'[p].id # NoId
    BY <1>3, HandHasId DEF IInv
  <2>2. wentWrong' \subseteq {"team kept", "user kept"}
    BY <1>1 DEF IInv, TypeOK
  <2>3. Accounts' = Accounts /\ RequestType' = RequestType
    BY <1>1 DEF Accounts, RequestType
  <2> QED
    BY <1>1, <1>3, <1>4, <2>1, <2>2, <2>3 DEF IInv, TypeOK, RequestType, Legacy
<1>6. RequestsTyped' /\ ServedWhenUp'
  BY <1>1, <1>2, <1>3, RequestsAssumption DEF IInv, RequestsTyped, ServedWhenUp, Serving
<1>7. MigrationCovers'
  BY <1>1 DEF IInv, MigrationCovers, Legacy
<1>8. IdsNameTeams /\ HandsAreDistinct
  BY DEF IInv
<1>9. \A p \in Signups : request'[p].pc \in InHand =>
        /\ p # q /\ request'[p].pc = request[p].pc
        /\ request[p].id = request'[p].id /\ request[p].name = request'[p].name
  BY <1>2, <1>3 DEF InHand
<1>10. IdsNameTeams'
  BY <1>1, <1>4, <1>8, <1>9, IdsNameTeamsStill
<1>11. HandsAreDistinct'
  <2>1. \A p, r \in Signups :
          p # r /\ request'[p].pc \in InHand /\ request'[r].pc \in InHand => request'[p].id # request'[r].id
    <3> SUFFICES ASSUME NEW p \in Signups, NEW r \in Signups, p # r,
                        request'[p].pc \in InHand, request'[r].pc \in InHand
                 PROVE  request'[p].id # request'[r].id
      OBVIOUS
    <3>1. /\ request[p].pc \in InHand /\ request[p].id = request'[p].id
          /\ request[r].pc \in InHand /\ request[r].id = request'[r].id
      BY <1>9
    <3> QED
      BY <1>8, <3>1 DEF HandsAreDistinct
  <2>2. \A p \in Signups : \A u \in users :
          \/ request'[p].pc = "insert user"
          \/ request'[p].pc = "undo" /\ "user kept" \notin wentWrong'
          => u.id # request'[p].id
    <3> SUFFICES ASSUME NEW p \in Signups, NEW u \in users,
                        \/ request'[p].pc = "insert user"
                        \/ request'[p].pc = "undo" /\ "user kept" \notin wentWrong'
                 PROVE  u.id # request'[p].id
      OBVIOUS
    <3>1. request[p].pc = request'[p].pc /\ request[p].id = request'[p].id
      BY <1>9 DEF InHand
    <3> QED
      BY <1>4, <1>8, <3>1 DEF HandsAreDistinct
  <2>3. \A p \in Signups : request'[p].pc = "insert user" =>
          [name |-> request'[p].name, id |-> request'[p].id] \in teams'
    <3> SUFFICES ASSUME NEW p \in Signups, request'[p].pc = "insert user"
                 PROVE  [name |-> request'[p].name, id |-> request'[p].id] \in teams'
      OBVIOUS
    <3>1. /\ p # q /\ request[p].pc = "insert user" /\ request[p].id = request'[p].id
          /\ request[p].name = request'[p].name
      BY <1>9 DEF InHand
    <3>2. [name |-> request[p].name, id |-> request[p].id] \in teams /\ request[p].id # request[q].id
      BY <1>1, <1>2, <1>8, <3>1 DEF HandsAreDistinct, InHand
    <3>3. [name |-> request[p].name, id |-> request[p].id] # mine
      BY <3>2
    <3>4. [name |-> request[p].name, id |-> request[p].id] \in teams'
      BY <1>1, <3>2, <3>3
    <3> QED
      BY <3>1, <3>4
  <2> QED
    BY <1>1, <2>1, <2>2, <2>3 DEF HandsAreDistinct
<1>12. AccountsAgree'
  <2>1. ASSUME AccountsHaveTheirTeam, "user kept" \notin wentWrong'
        PROVE  AccountsHaveTheirTeam'
    <3>1. \A u \in users : u.id # request[q].id
      BY <1>1, <1>2, <1>4, <1>8, <2>1 DEF HandsAreDistinct
    <3>2. \A u \in users : [name |-> u.team, id |-> u.id] # mine
      BY <3>1
    <3> QED
      BY <1>1, <2>1, <3>2 DEF AccountsHaveTheirTeam, Legacy
  <2>2. ASSUME TeamsHaveAnOwner, "team kept" \notin wentWrong'
        PROVE  TeamsHaveAnOwner'
    <3> SUFFICES ASSUME NEW t \in teams'
                 PROVE  \/ \E u \in users : u.team = t.name
                        \/ \E p \in Contestants : request'[p].id = t.id
                        \/ \E p \in Signups : request'[p].id = t.id /\ request'[p].pc \in {"insert user", "undo"}
      BY <1>1 DEF TeamsHaveAnOwner
    <3>1. t \in teams /\ t # mine /\ t \in [name : Names, id : 1..lastId]
      BY <1>1, <2>2 DEF IInv, TypeOK
    <3>2. CASE \E u \in users : u.team = t.name
      BY <3>2
    <3>3. CASE \E p \in Contestants : request[p].id = t.id
      BY <1>2, <1>3, <3>3, RequestsAssumption
    <3>4. CASE \E p \in Signups : request[p].id = t.id /\ request[p].pc \in {"insert user", "undo"}
      <4>1. PICK p \in Signups : request[p].id = t.id /\ request[p].pc \in {"insert user", "undo"}
        BY <3>4
      <4>2. p # q
        <5>1. SUFFICES ASSUME p = q PROVE FALSE
          OBVIOUS
        <5>2. request[q].name = t.name
          BY <1>2, <1>8, <3>1, <4>1, <5>1 DEF IdsNameTeams, InHand
        <5> QED
          BY <3>1, <4>1, <5>1, <5>2
      <4> QED
        BY <1>2, <1>3, <4>1, <4>2
    <3> QED
      BY <2>2, <3>1, <3>2, <3>3, <3>4 DEF TeamsHaveAnOwner
  <2>3. TokensAreGood'
    BY <1>1 DEF IInv, AccountsAgree, TokensAreGood, Legacy
  <2> QED
    BY <1>4, <2>1, <2>2, <2>3 DEF IInv, AccountsAgree
<1> QED
  BY <1>5, <1>6, <1>7, <1>10, <1>11, <1>12 DEF IInv

-----------------------------------------------------------------------------
(***************************************************************************)
(* The start of the process.  It serves nobody, so nothing is in hand.     *)
(***************************************************************************)
LEMMA NothingInHand ==
  ASSUME IInv, ~Serving
  PROVE  \A q \in Requests : request[q].pc \in {"new", "done"} /\ request[q].pc \notin InHand
  BY DEF IInv, ServedWhenUp, InHand

LEMMA FindLegacyKeeps ==
  ASSUME IInv, FindLegacy
  PROVE  IInv'
<1>1. /\ ~Serving
      /\ start \in [pc : {"legacy", "upsert", "update", "up"}, todo : SUBSET Accounts, id : 0..lastId]
      /\ users \subseteq Accounts
      /\ start' = [start EXCEPT !.pc = "upsert", !.todo = {u \in users : Legacy(u)}]
      /\ UNCHANGED <<users, teams, lastId, request, tokens, crashes, wentWrong>>
  BY DEF FindLegacy, documents, Serving, IInv, TypeOK
<1>2. /\ start' \in [pc : {"legacy", "upsert", "update", "up"}, todo : SUBSET Accounts, id : 0..lastId]
      /\ start'.pc = "upsert" /\ start'.todo = {u \in users : Legacy(u)}
  <2>1. {u \in users : Legacy(u)} \in SUBSET Accounts
    BY <1>1
  <2> QED
    BY <1>1, <2>1
<1>3. TypeOK'
  BY <1>1, <1>2 DEF IInv, TypeOK, Accounts, Legacy
<1>4. MigrationCovers'
  BY <1>1, <1>2 DEF MigrationCovers, Legacy
<1>5. RequestsTyped' /\ ServedWhenUp' /\ IdsNameTeams' /\ HandsAreDistinct'
  BY <1>1, NothingInHand DEF IInv, RequestsTyped, ServedWhenUp, Serving, IdsNameTeams, HandsAreDistinct
<1>6. AccountsAgree'
  BY <1>1 DEF IInv, AccountsAgree, AccountsHaveTheirTeam, TeamsHaveAnOwner, TokensAreGood, Legacy
<1> QED
  BY <1>3, <1>4, <1>5, <1>6 DEF IInv

\* A team whose id the migration is to store: one with the account's name.
LEMMA UpsertTeamKeeps ==
  ASSUME IInv, NEW u \in start.todo, UpsertTeam(u)
  PROVE  IInv'
<1> DEFINE t0 == CHOOSE t \in teams' : t.name = u.team
<1>1. /\ start.pc = "upsert" /\ ~Serving
      /\ start \in [pc : {"legacy", "upsert", "update", "up"}, todo : SUBSET Accounts, id : 0..lastId]
      /\ start' = [start EXCEPT !.pc = "update", !.id = t0.id]
      /\ UNCHANGED <<users, request, tokens, crashes, wentWrong>>
      /\ u \in users /\ u.team \in Names /\ start.todo = {v \in users : Legacy(v)}
  BY DEF UpsertTeam, Serving, IInv, TypeOK, MigrationCovers, Accounts
<1>2. \A q \in Requests : request[q].pc \in {"new", "done"} /\ request[q].pc \notin InHand
  BY <1>1, NothingInHand
<1>3. /\ lastId' \in Nat /\ Accounts \subseteq Accounts' /\ RequestType \subseteq RequestType'
      /\ teams' \subseteq [name : Names, id : 1..lastId']
      /\ \A s, t \in teams' : s # t => s.name # t.name /\ s.id # t.id
      /\ \E t \in teams' : t.name = u.team
      /\ \A v \in users : \A t \in teams' : v.id = t.id => v.team = t.name
      /\ AccountsAgree'
      /\ 0..lastId \subseteq 0..lastId'
  <2>1. CASE TeamNamed(u.team) = {}
    <3>1. AddsTeam(u.team)
      BY <2>1, Zenon DEF UpsertTeam
    <3>2. /\ lastId' \in Nat /\ Accounts \subseteq Accounts' /\ RequestType \subseteq RequestType'
          /\ teams' \subseteq [name : Names, id : 1..lastId']
          /\ \A s, t \in teams' : s # t => s.name # t.name /\ s.id # t.id
          /\ teams' = teams \cup {[name |-> u.team, id |-> lastId']}
          /\ \A v \in users : v.id # lastId'
          /\ \A i \in 0..lastId : i \in 0..lastId'
      BY <1>1, <2>1, <3>1, TeamIsAdded DEF IInv
    <3>3. \E t \in teams' : t.name = u.team
      <4>1. [name |-> u.team, id |-> lastId'] \in teams' /\ [name |-> u.team, id |-> lastId'].name = u.team
        BY <3>2
      <4> QED
        BY <4>1, Zenon
    <3>4. \A v \in users : \A t \in teams' : v.id = t.id => v.team = t.name
      BY <3>2 DEF IInv, IdsNameTeams
    <3>5. AccountsAgree'
      <4>1. \A p \in Signups : request[p].pc \in InHand =>
                                 request'[p].id = request[p].id /\ request'[p].pc \in InHand
        BY <1>1
      <4>2. \A t \in teams : (\E p \in Contestants : request[p].id = t.id) =>
                               (\E p \in Contestants : request'[p].id = t.id)
        BY <1>1
      <4> QED
        BY <1>1, <2>1, <3>1, <4>1, <4>2, AddedTeamAgrees
    <3> QED
      BY <3>2, <3>3, <3>4, <3>5
  <2>2. CASE TeamNamed(u.team) # {}
    <3>1. UNCHANGED <<teams, lastId>>
      BY <2>2, Zenon DEF UpsertTeam
    <3>2. \E t \in teams' : t.name = u.team
      BY <2>2, <3>1 DEF TeamNamed
    <3>3. AccountsAgree'
      BY <1>1, <3>1 DEF IInv, AccountsAgree, AccountsHaveTheirTeam, TeamsHaveAnOwner, TokensAreGood, Legacy
    <3>4. /\ lastId' \in Nat /\ Accounts \subseteq Accounts' /\ RequestType \subseteq RequestType'
          /\ 0..lastId \subseteq 0..lastId'
      BY <3>1 DEF IInv, TypeOK, Accounts, RequestType
    <3>5. /\ teams' \subseteq [name : Names, id : 1..lastId']
          /\ \A s, t \in teams' : s # t => s.name # t.name /\ s.id # t.id
      BY <3>1 DEF IInv, TypeOK
    <3>6. \A v \in users : \A t \in teams' : v.id = t.id => v.team = t.name
      BY <3>1 DEF IInv, IdsNameTeams
    <3> QED
      BY <3>2, <3>3, <3>4, <3>5, <3>6
  <2> QED
    BY <2>1, <2>2
<1>4. t0 \in teams' /\ t0.name = u.team
  BY <1>3
<1>5. t0.id \in 0..lastId' /\ t0.id # NoId
  <2>1. t0.id \in 1..lastId'
    BY <1>3, <1>4
  <2> QED
    BY <1>3, <2>1 DEF NoId
<1>6. /\ start' \in [pc : {"legacy", "upsert", "update", "up"}, todo : SUBSET Accounts', id : 0..lastId']
      /\ start'.pc = "update" /\ start'.id = t0.id /\ start'.todo = start.todo
  BY <1>1, <1>3, <1>5
<1>7. TypeOK'
  <2>1. request \in [Requests -> RequestType] /\ users \subseteq Accounts /\ tokens \subseteq Accounts
    BY DEF IInv, TypeOK, RequestType
  <2>2. request' \in [Requests -> RequestType'] /\ users' \subseteq Accounts' /\ tokens' \subseteq Accounts'
    BY <1>1, <1>3, <2>1
  <2> QED
    BY <1>1, <1>3, <1>5, <1>6, <2>2 DEF IInv, TypeOK, RequestType, Legacy
<1>8. MigrationCovers'
  BY <1>1, <1>6 DEF MigrationCovers, Legacy
<1>9. RequestsTyped' /\ ServedWhenUp'
  BY <1>1, <1>2, <1>6 DEF IInv, RequestsTyped, ServedWhenUp, Serving
<1>10. \A p \in Signups : request'[p].pc \notin InHand
  BY <1>1, <1>2 DEF Requests
<1>11. IdsNameTeams'
  BY <1>1, <1>3, <1>10 DEF IdsNameTeams
<1>12. HandsAreDistinct'
  BY <1>10 DEF HandsAreDistinct, InHand
<1> QED
  BY <1>3, <1>7, <1>8, <1>9, <1>11, <1>12 DEF IInv

LEMMA UpdateUserKeeps ==
  ASSUME IInv, NEW u \in start.todo, UpdateUser(u)
  PROVE  IInv'
<1> DEFINE w == [u EXCEPT !.id = start.id]
<1>1. /\ start.pc = "update" /\ ~Serving
      /\ start \in [pc : {"legacy", "upsert", "update", "up"}, todo : SUBSET Accounts, id : 0..lastId]
      /\ start.id # NoId /\ start.id \in 0..lastId
      /\ start.todo = {v \in users : Legacy(v)} /\ u \in users /\ u \in Accounts /\ Legacy(u)
      /\ [name |-> u.team, id |-> start.id] \in teams
      /\ users' = {IF v = u THEN [v EXCEPT !.id = start.id] ELSE v : v \in users}
      /\ start' = [pc |-> "upsert", todo |-> start.todo \ {u}, id |-> NoId]
      /\ UNCHANGED <<teams, lastId, request, tokens, crashes, wentWrong>>
  <2>1. /\ start.pc = "update" /\ u \in start.todo
        /\ [name |-> u.team, id |-> start.id] \in teams
        /\ users' = {IF v = u THEN [v EXCEPT !.id = start.id] ELSE v : v \in users}
        /\ start' = [pc |-> "upsert", todo |-> start.todo \ {u}, id |-> NoId]
        /\ UNCHANGED <<teams, lastId, request, tokens, crashes, wentWrong>>
    BY Zenon DEF UpdateUser
  <2>2. /\ start \in [pc : {"legacy", "upsert", "update", "up"}, todo : SUBSET Accounts, id : 0..lastId]
        /\ start.id # NoId /\ users \subseteq Accounts
    BY <2>1 DEF IInv, TypeOK
  <2>3. start.todo = {v \in users : Legacy(v)}
    BY <2>1 DEF IInv, MigrationCovers
  <2>4. u \in users /\ Legacy(u)
    BY <2>1, <2>3
  <2> QED
    BY <2>1, <2>2, <2>3, <2>4 DEF Serving
<1>2. w \in Accounts /\ w.handle = u.handle /\ w.team = u.team /\ w.id = start.id /\ ~Legacy(w)
  BY <1>1 DEF Accounts, Legacy
<1>3. users' = (users \ {u}) \cup {w}
  <2>1. users' = {IF v = u THEN [v EXCEPT !.id = start.id] ELSE v : v \in users} /\ u \in users
    BY <1>1
  <2> QED
    BY ONLY <2>1
<1>4. \A v \in users : v.id = start.id => v.team = u.team
  BY <1>1 DEF IInv, IdsNameTeams
<1>5. \A p, v \in users : p # v => p.handle # v.handle /\ p.team # v.team /\ (p.id = v.id => p.id = NoId)
  BY DEF IInv, TypeOK, Legacy
<1>6. \A v \in users : v # u => v.handle # w.handle /\ v.team # w.team /\ v.id # w.id
  BY <1>1, <1>2, <1>4, <1>5
<1>7. start'.pc = "upsert" /\ start'.todo = start.todo \ {u} /\ start'.id = NoId
  BY <1>1
<1>8. TypeOK'
  <2>1. \A p, v \in users' : p # v =>
          p.handle # v.handle /\ p.team # v.team /\ (p.id = v.id => p.id = NoId)
    BY <1>3, <1>5, <1>6, Zenon
  <2>2. start' \in [pc : {"legacy", "upsert", "update", "up"}, todo : SUBSET Accounts, id : 0..lastId]
    <3>1. lastId \in Nat
      BY DEF IInv, TypeOK
    <3>2. NoId \in 0..lastId
      BY ONLY <3>1 DEF NoId
    <3> QED
      BY <1>1, <3>2
  <2>3. users' \subseteq Accounts
    BY <1>2, <1>3 DEF IInv, TypeOK
  <2>4. Accounts' = Accounts /\ RequestType' = RequestType
    BY <1>1 DEF Accounts, RequestType
  <2> QED
    BY <1>1, <1>7, <2>1, <2>2, <2>3, <2>4 DEF IInv, TypeOK, RequestType, Legacy
<1>9. MigrationCovers'
  <2>1. start'.todo = {v \in users' : v.id = NoId}
    BY <1>1, <1>2, <1>3, <1>7 DEF Legacy
  <2> QED
    BY <1>7, <2>1 DEF MigrationCovers, Legacy
<1>10. \A p \in Signups : request'[p].pc \notin InHand
  BY <1>1, NothingInHand DEF Requests
<1>11. RequestsTyped' /\ ServedWhenUp'
  BY <1>1, <1>7, NothingInHand DEF IInv, RequestsTyped, ServedWhenUp, Serving
<1>12. IdsNameTeams'
  <2>1. \A t \in teams : t.id = start.id => t.name = u.team
    <3>1. \A s, t \in teams : s # t => s.name # t.name /\ s.id # t.id
      BY DEF IInv, TypeOK
    <3>2. /\ [name |-> u.team, id |-> start.id].id = start.id
          /\ [name |-> u.team, id |-> start.id].name = u.team
      OBVIOUS
    <3> QED
      BY <1>1, <3>1, <3>2
  <2>2. \A t \in teams : \A v \in users' : v.id = t.id => v.team = t.name
    BY <1>2, <1>3, <2>1 DEF IInv, IdsNameTeams
  <2> QED
    BY <1>1, <1>10, <2>2 DEF IdsNameTeams
<1>13. HandsAreDistinct'
  BY <1>10 DEF HandsAreDistinct, InHand
<1>14. AccountsAgree'
  <2>1. AccountsHaveTheirTeam => AccountsHaveTheirTeam'
    BY <1>1, <1>2, <1>3 DEF AccountsHaveTheirTeam, Legacy
  <2>2. TeamsHaveAnOwner => TeamsHaveAnOwner'
    <3>1. \A v \in users : \E x \in users' : x.team = v.team
      BY <1>2, <1>3
    <3>2. UNCHANGED <<teams, request>>
      BY <1>1
    <3> SUFFICES ASSUME TeamsHaveAnOwner, NEW t \in teams
                 PROVE  \/ \E x \in users' : x.team = t.name
                        \/ \E q \in Contestants : request[q].id = t.id
                        \/ \E q \in Signups : request[q].id = t.id /\ request[q].pc \in {"insert user", "undo"}
      BY <3>2 DEF TeamsHaveAnOwner
    <3>3. CASE \E v \in users : v.team = t.name
      BY <3>1, <3>3
    <3> QED
      BY <3>3 DEF TeamsHaveAnOwner
  <2>3. TokensAreGood'
    BY <1>1, <1>3 DEF IInv, AccountsAgree, TokensAreGood, Legacy
  <2> QED
    BY <1>1, <2>1, <2>2, <2>3 DEF IInv, AccountsAgree
<1> QED
  BY <1>8, <1>9, <1>11, <1>12, <1>13, <1>14 DEF IInv

LEMMA ListenKeeps ==
  ASSUME IInv, Listen
  PROVE  IInv'
<1>1. /\ start.pc = "upsert" /\ ~Serving /\ start.todo = {}
      /\ start \in [pc : {"legacy", "upsert", "update", "up"}, todo : SUBSET Accounts, id : 0..lastId]
      /\ start' = [start EXCEPT !.pc = "up"]
      /\ UNCHANGED <<users, teams, lastId, request, tokens, crashes, wentWrong>>
  BY DEF Listen, documents, Serving, IInv, TypeOK
<1>2. /\ start' \in [pc : {"legacy", "upsert", "update", "up"}, todo : SUBSET Accounts, id : 0..lastId]
      /\ start'.pc = "up"
  BY <1>1
<1>3. TypeOK'
  BY <1>1, <1>2 DEF IInv, TypeOK, Accounts, Legacy
<1>4. MigrationCovers'
  BY <1>1, <1>2 DEF IInv, MigrationCovers, Legacy
<1>5. RequestsTyped' /\ ServedWhenUp' /\ IdsNameTeams' /\ HandsAreDistinct'
  BY <1>1, NothingInHand DEF IInv, RequestsTyped, ServedWhenUp, Serving, IdsNameTeams, HandsAreDistinct
<1>6. AccountsAgree'
  BY <1>1 DEF IInv, AccountsAgree, AccountsHaveTheirTeam, TeamsHaveAnOwner, TokensAreGood, Legacy
<1> QED
  BY <1>3, <1>4, <1>5, <1>6 DEF IInv

LEMMA CrashKeeps ==
  ASSUME IInv, Crash
  PROVE  IInv'
<1>1. /\ request \in [Requests -> RequestType] /\ lastId \in Nat
      /\ start' = [pc |-> "legacy", todo |-> {}, id |-> NoId]
      /\ request' = [q \in Requests |->
                       IF request[q].pc = "new" THEN request[q] ELSE [request[q] EXCEPT !.pc = "done"]]
      /\ crashes' \in 0..MaxCrashes
      /\ UNCHANGED <<users, teams, lastId, tokens>>
      /\ wentWrong \subseteq wentWrong' /\ wentWrong' \subseteq wentWrong \cup {"team kept"}
      /\ (\E q \in Signups : request[q].pc \in InHand) => "team kept" \in wentWrong'
  <2>1. request \in [Requests -> RequestType] /\ lastId \in Nat
    BY DEF IInv, TypeOK, RequestType
  <2>2. crashes' \in 0..MaxCrashes
    <3>1. crashes' = crashes + 1 /\ crashes < MaxCrashes /\ crashes \in 0..MaxCrashes
      BY DEF Crash, IInv, TypeOK
    <3> QED
      BY ONLY <3>1, CrashAssumption
  <2>3. /\ wentWrong \subseteq wentWrong' /\ wentWrong' \subseteq wentWrong \cup {"team kept"}
        /\ (\E q \in Signups : request[q].pc \in InHand) => "team kept" \in wentWrong'
    BY DEF Crash, Blames, InHand
  <2> QED
    BY <2>1, <2>2, <2>3, Zenon DEF Crash, documents
<1>2. /\ request' \in [Requests -> RequestType]
      /\ \A q \in Requests : /\ request'[q].pc \in {"new", "done"}
                             /\ request'[q].pc = "new" => request'[q] = request[q]
                             /\ request'[q].id = request[q].id
  <2>1. \A q \in Requests : request[q] \in RequestType
    BY <1>1
  <2>2. \A r \in RequestType : /\ [r EXCEPT !.pc = "done"] \in RequestType
                               /\ [r EXCEPT !.pc = "done"].pc = "done"
                               /\ [r EXCEPT !.pc = "done"].id = r.id
    BY DEF RequestType, Pcs
  <2> QED
    BY <1>1, <2>1, <2>2
<1>3. /\ start'.pc = "legacy" /\ start'.todo = {} /\ start'.id = NoId
      /\ start' \in [pc : {"legacy", "upsert", "update", "up"}, todo : SUBSET Accounts, id : 0..lastId]
  <2>0. lastId \in Nat
    BY <1>1
  <2>1. NoId \in 0..lastId
    BY ONLY <2>0 DEF NoId
  <2> QED
    BY <1>1, <2>1
<1>4. TypeOK'
  <2>1. \A p \in Requests : request'[p].pc \notin {"insert user", "undo"}
    BY <1>2
  <2>2. wentWrong' \subseteq {"team kept", "user kept"}
    BY <1>1 DEF IInv, TypeOK
  <2>3. Accounts' = Accounts /\ RequestType' = RequestType
    BY <1>1 DEF Accounts, RequestType
  <2>4. /\ \A u, v \in users : u # v => u.handle # v.handle /\ u.team # v.team /\ (u.id = v.id => u.id = NoId)
        /\ \A s, t \in teams : s # t => s.name # t.name /\ s.id # t.id
        /\ users \subseteq Accounts /\ tokens \subseteq Accounts /\ teams \subseteq [name : Names, id : 1..lastId]
    BY DEF IInv, TypeOK, Legacy
  <2>5. /\ users' \subseteq Accounts' /\ tokens' \subseteq Accounts' /\ lastId' \in Nat
        /\ teams' \subseteq [name : Names, id : 1..lastId']
        /\ \A s, t \in teams' : s # t => s.name # t.name /\ s.id # t.id
    BY <1>1, <2>3, <2>4
  <2>6. \A u, v \in users' : u # v => u.handle # v.handle /\ u.team # v.team /\ (u.id = v.id => u.id = NoId)
    BY <1>1, <2>4, Zenon
  <2>7. /\ start' \in [pc : {"legacy", "upsert", "update", "up"}, todo : SUBSET Accounts', id : 0..lastId']
        /\ start'.pc # "update"
    BY <1>1, <1>3, <2>3
  <2>8. request' \in [Requests -> RequestType']
    BY <1>2, <2>3
  <2> QED
    BY <1>1, <2>1, <2>2, <2>5, <2>6, <2>7, <2>8 DEF TypeOK, RequestType, Legacy
<1>5. RequestsTyped' /\ ServedWhenUp'
  BY <1>2 DEF IInv, RequestsTyped, ServedWhenUp, Serving, Requests
<1>6. MigrationCovers'
  BY <1>3 DEF MigrationCovers
<1>7. \A p \in Signups : request'[p].pc \notin InHand
  BY <1>2 DEF Requests, InHand
<1>8. IdsNameTeams'
  BY <1>1, <1>7 DEF IInv, IdsNameTeams
<1>9. HandsAreDistinct'
  BY <1>7 DEF HandsAreDistinct, InHand
<1>10. AccountsAgree'
  <2>1. AccountsHaveTheirTeam => AccountsHaveTheirTeam'
    BY <1>1 DEF AccountsHaveTheirTeam, Legacy
  <2>2. ASSUME TeamsHaveAnOwner, "team kept" \notin wentWrong'
        PROVE  TeamsHaveAnOwner'
    <3>1. \A q \in Contestants : request'[q].id = request[q].id
      BY <1>2 DEF Requests
    <3>2. \A q \in Signups : request[q].pc \notin {"insert user", "undo"}
      BY <1>1, <2>2 DEF InHand
    <3>3. UNCHANGED <<teams, users>>
      BY <1>1
    <3> QED
      BY <2>2, <3>1, <3>2, <3>3, OwnersStay DEF InHand
  <2>3. TokensAreGood'
    BY <1>1 DEF IInv, AccountsAgree, TokensAreGood, Legacy
  <2> QED
    BY <1>1, <2>1, <2>2, <2>3 DEF IInv, AccountsAgree
<1> QED
  BY <1>4, <1>5, <1>6, <1>8, <1>9, <1>10 DEF IInv

-----------------------------------------------------------------------------
(***************************************************************************)
(* The invariant, and what it gives.                                       *)
(***************************************************************************)
\* Accounts of an earlier release may be there, and one of their teams.
LEMMA InitIInv == Init => IInv
<1> SUFFICES ASSUME Init
             PROVE  IInv
  OBVIOUS
<1>1. PICK old \in SUBSET [handle : Handles, team : Names, id : {NoId}] :
        /\ \A u, v \in old : u # v => u.handle # v.handle /\ u.team # v.team
        /\ users = old
        /\ teams \in {{}} \cup {{[name |-> u.team, id |-> 1]} : u \in old}
  BY DEF Init
<1>2. /\ lastId = 1 /\ tokens = {} /\ start = [pc |-> "legacy", todo |-> {}, id |-> NoId]
      /\ request = [q \in Requests |-> [pc |-> "new", handle |-> "", name |-> "", id |-> NoId]]
      /\ crashes = 0 /\ wentWrong = {}
  BY DEF Init
<1>3. \A u \in users : u.id = NoId /\ u.team \in Names /\ u \in Accounts
  <2>1. lastId = 1 /\ users \subseteq [handle : Handles, team : Names, id : {NoId}]
    BY <1>1, <1>2
  <2>2. NoId \in 0..lastId
    BY ONLY <2>1 DEF NoId
  <2> QED
    BY <2>1, <2>2 DEF Accounts
<1>4. \A t \in teams : /\ t \in [name : Names, id : 1..lastId] /\ t.id = 1
                       /\ teams = {t} /\ \E u \in users : u.team = t.name
  <2> SUFFICES ASSUME NEW t \in teams
               PROVE  /\ t \in [name : Names, id : 1..lastId] /\ t.id = 1
                      /\ teams = {t} /\ \E u \in users : u.team = t.name
    OBVIOUS
  <2>1. PICK u \in users : teams = {[name |-> u.team, id |-> 1]}
    BY <1>1
  <2>2. t = [name |-> u.team, id |-> 1]
    BY <2>1
  <2>3. u.team \in Names
    BY <1>3
  <2>7. lastId = 1
    BY <1>2
  <2>8. 1 \in 1..lastId
    BY ONLY <2>7
  <2>4. t \in [name : Names, id : 1..lastId]
    BY <2>2, <2>3, <2>8
  <2>5. t.id = 1 /\ t.name = u.team
    BY <2>2
  <2>6. teams = {t}
    BY <2>1, <2>2
  <2> QED
    BY <2>4, <2>5, <2>6
<1>5. \A q \in Requests : request[q].pc = "new" /\ request[q].id = NoId
  BY <1>2
<1>6. TypeOK
  <2>6. lastId = 1
    BY <1>2
  <2>0. NoId \in 0..lastId /\ "new" \in Pcs /\ lastId \in Nat
    BY ONLY <2>6 DEF NoId, Pcs
  <2>1. request \in [Requests -> RequestType]
    <3>1. [pc |-> "new", handle |-> "", name |-> "", id |-> NoId] \in RequestType
      BY ONLY <2>0 DEF RequestType
    <3> QED
      BY <1>2, <3>1
  <2>2. /\ start \in [pc : {"legacy", "upsert", "update", "up"}, todo : SUBSET Accounts, id : 0..lastId]
        /\ start.pc = "legacy"
    BY <1>2, <2>0
  <2>3. \A u, v \in users : u # v => u.handle # v.handle /\ u.team # v.team /\ (u.id = v.id => Legacy(u))
    BY <1>1, <1>3 DEF Legacy
  <2>4. teams \subseteq [name : Names, id : 1..lastId] /\ \A s, t \in teams : s # t => s.name # t.name /\ s.id # t.id
    <3>1. \A s, t \in teams : s = t
      BY <1>4
    <3> QED
      BY <1>4, <3>1, Zenon
  <2>5. crashes \in 0..MaxCrashes
    <3>1. crashes = 0
      BY <1>2
    <3> QED
      BY ONLY <3>1, CrashAssumption
  <2> QED
    BY <1>2, <1>3, <1>5, <2>0, <2>1, <2>2, <2>3, <2>4, <2>5 DEF TypeOK, RequestType
<1>7. RequestsTyped /\ ServedWhenUp /\ MigrationCovers /\ HandsAreDistinct
  <2>1. start.pc = "legacy"
    BY <1>2
  <2>2. RequestsTyped /\ HandsAreDistinct
    BY <1>5 DEF RequestsTyped, HandsAreDistinct, Requests, InHand
  <2> QED
    BY <1>5, <2>1, <2>2 DEF ServedWhenUp, MigrationCovers
<1>8. IdsNameTeams
  <2>1. \A t \in teams : t.id # NoId
    BY <1>4 DEF NoId
  <2>2. \A u \in users : u.id = NoId
    BY <1>3
  <2>3. \A q \in Signups : request[q].pc \notin InHand
    BY <1>5 DEF Requests, InHand
  <2> QED
    BY <2>1, <2>2, <2>3, Zenon DEF IdsNameTeams
<1>9. AccountsAgree
  BY <1>2, <1>3, <1>4 DEF AccountsAgree, AccountsHaveTheirTeam, TeamsHaveAnOwner, TokensAreGood, Legacy
<1> QED
  BY <1>6, <1>7, <1>8, <1>9 DEF IInv

LEMMA NextIInv == IInv /\ [Next]_identVars => IInv'
<1> SUFFICES ASSUME IInv, [Next]_identVars
             PROVE  IInv'
  OBVIOUS
<1>1. ASSUME NEW q \in Requests,
             \/ \E handle \in Handles, name \in Names : SignUp(q, handle, name)
             \/ \E name \in Names : Register(q, name)
             \/ FindUser(q) \/ FindTeam(q) \/ InsertTeam(q) \/ InsertUser(q) \/ UndoTeam(q)
             \/ InsertTeamThrows(q) \/ InsertUserThrows(q)
             \/ FindRegistered(q) \/ InsertRegistered(q)
             \/ AnswersError(q)
      PROVE  IInv'
  <2>1. ASSUME NEW handle \in Handles, NEW name \in Names, SignUp(q, handle, name) PROVE IInv'
    BY <2>1, SignUpKeeps DEF SignUp
  <2>2. ASSUME NEW name \in Names, Register(q, name) PROVE IInv'
    BY <2>2, RegisterKeeps DEF Register
  <2> QED
    BY <1>1, <2>1, <2>2, FindKeeps, InsertTeamKeeps, InsertUserKeeps, UndoTeamKeeps,
       InsertTeamThrowsKeeps, InsertRegisteredKeeps
<1>2. ASSUME NEW u \in start.todo, UpsertTeam(u) \/ UpdateUser(u) PROVE IInv'
  BY <1>2, UpsertTeamKeeps, UpdateUserKeeps
<1>3. ASSUME UNCHANGED identVars PROVE IInv'
  <2>1. TypeOK'
    BY <1>3 DEF identVars, IInv, TypeOK, Accounts, Legacy
  <2>2. RequestsTyped' /\ ServedWhenUp' /\ MigrationCovers'
    BY <1>3 DEF identVars, IInv, RequestsTyped, ServedWhenUp, Serving, MigrationCovers, Legacy
  <2>3. IdsNameTeams' /\ HandsAreDistinct'
    BY <1>3 DEF identVars, IInv, IdsNameTeams, HandsAreDistinct
  <2>4. AccountsAgree'
    BY <1>3 DEF identVars, IInv, AccountsAgree, AccountsHaveTheirTeam, TeamsHaveAnOwner, TokensAreGood, Legacy
  <2> QED
    BY <2>1, <2>2, <2>3, <2>4 DEF IInv
<1> QED
  BY <1>1, <1>2, <1>3, LogInKeeps, FindLegacyKeeps, ListenKeeps, CrashKeeps DEF Next

\* The invariant holds in every state the orchestrator and MongoDB reach.
THEOREM Invariance == Spec => []IInv
<1> QED
  BY InitIInv, NextIInv, PTL DEF Spec

\* The types, the unique indexes, and that an id in hand is one of a team: concurrent
\* POST /auth/signup and POST /contestants, and the migration, keep them.
THEOREM TypeCorrect == Spec => []TypeOK
<1>1. IInv => TypeOK
  BY DEF IInv
<1> QED
  BY Invariance, <1>1, PTL

\* The users and the teams agree through every interleaving of signups, registrations,
\* logins, crashes and migrations, but for the leftovers that wentWrong names.
THEOREM AccountsAlwaysAgree == Spec => []AccountsAgree
<1>1. IInv => AccountsAgree
  BY DEF IInv
<1> QED
  BY Invariance, <1>1, PTL
=============================================================================
