------------------------------ MODULE Identity ------------------------------
(***************************************************************************)
(* Accounts and teams in MongoDB: POST /auth/signup and POST /contestants  *)
(* as they interleave, and the migration of accounts without a team id     *)
(* that every start of the orchestrator makes before it serves.            *)
(*                                                                         *)
(* A user and a team are two documents of two collections, written without *)
(* a transaction; unique indexes are what concurrent requests meet at.  A  *)
(* step is the code between two awaits with the effect of the call it      *)
(* awaited; a call that throws may have had its effect or not.  Handles    *)
(* are taken as normalised, passwords are left out.                        *)
(***************************************************************************)
EXTENDS Naturals, FiniteSets

CONSTANTS Signups,       \* calls of POST /auth/signup
          Contestants,   \* calls of POST /contestants
          Handles,       \* usernames
          Names,         \* team names
          MaxCrashes     \* bound on crashes of the orchestrator

ASSUME RequestsAssumption == Signups \cap Contestants = {}
ASSUME CrashAssumption    == MaxCrashes \in Nat

VARIABLES
  users,     \* documents of "users"
  teams,     \* documents of "teams"
  lastId,    \* the last ObjectId given to a team
  request,   \* per request: what it awaits, the handles it asks for, its team's id
  tokens,    \* the claims of the tokens that were signed
  start,     \* the start of the process: what it awaits, and the users it migrates
  crashes,
  wentWrong  \* what crashes and calls that threw may have left (history)

identVars == <<users, teams, lastId, request, tokens, start, crashes, wentWrong>>

NoId == 0

Requests == Signups \cup Contestants

Pcs == {"new", "find user", "find team", "insert team", "insert user", "undo", "done"}

\* An account of an earlier release has no team id.
Legacy(u) == u.id = NoId

Init ==
  /\ \E old \in SUBSET [handle : Handles, team : Names, id : {NoId}] :
       /\ \A u, v \in old : u # v => u.handle # v.handle /\ u.team # v.team
       /\ users = old
       /\ teams \in {{}} \cup {{[name |-> u.team, id |-> 1]} : u \in old}
  /\ lastId = 1
  /\ request = [q \in Requests |-> [pc |-> "new", handle |-> "", name |-> "", id |-> NoId]]
  /\ tokens = {}
  /\ start = [pc |-> "legacy", todo |-> {}, id |-> NoId]
  /\ crashes = 0 /\ wentWrong = {}

-----------------------------------------------------------------------------
Serving == start.pc = "up"

At(q, pc) == Serving /\ request[q].pc = pc

Goto(q, pc) == request' = [request EXCEPT ![q].pc = pc]

TeamNamed(name) == {t \in teams : t.name = name}

documents == <<users, teams, lastId>>

\* What a crash, or a call that threw after it had its effect, left behind.
Blames(what) == wentWrong' = wentWrong \cup {what}

-----------------------------------------------------------------------------
(***************************************************************************)
(* POST /auth/signup.                                                      *)
(***************************************************************************)
SignUp(q, handle, name) ==
  /\ q \in Signups /\ At(q, "new")
  /\ request' = [request EXCEPT ![q] = [pc |-> "find user", handle |-> handle, name |-> name, id |-> NoId]]
  /\ UNCHANGED <<documents, tokens, start, crashes, wentWrong>>

\* A user with the username, or of the team, is a conflict.
FindUser(q) ==
  /\ At(q, "find user")
  /\ Goto(q, IF \E u \in users : u.handle = request[q].handle \/ u.team = request[q].name
             THEN "done" ELSE "find team")
  /\ UNCHANGED <<documents, tokens, start, crashes, wentWrong>>

FindTeam(q) ==
  /\ q \in Signups /\ At(q, "find team")
  /\ Goto(q, IF TeamNamed(request[q].name) # {} THEN "done" ELSE "insert team")
  /\ UNCHANGED <<documents, tokens, start, crashes, wentWrong>>

\* teams.insertOne().
AddsTeam(name) ==
  /\ teams' = teams \cup {[name |-> name, id |-> lastId + 1]}
  /\ lastId' = lastId + 1

InsertTeam(q) ==
  /\ q \in Signups /\ At(q, "insert team")
  /\ IF TeamNamed(request[q].name) = {}
     THEN /\ AddsTeam(request[q].name)
          /\ request' = [request EXCEPT ![q].pc = "insert user", ![q].id = lastId']
     ELSE Goto(q, "done") /\ UNCHANGED <<teams, lastId>>
  /\ UNCHANGED <<users, tokens, start, crashes, wentWrong>>

Account(q) == [handle |-> request[q].handle, team |-> request[q].name, id |-> request[q].id]

\* The unique indexes of "users".
Clashes(u) == \E v \in users : v.handle = u.handle \/ v.team = u.team \/ v.id = u.id

\* Mutant of InsertUser: the team of an account that clashes is not deleted.
InsertUserOrGiveUp(q) ==
  /\ At(q, "insert user")
  /\ IF Clashes(Account(q))
     THEN UNCHANGED <<users, tokens>>
     ELSE users' = users \cup {Account(q)} /\ tokens' = tokens \cup {Account(q)}
  /\ Goto(q, "done")
  /\ UNCHANGED <<teams, lastId, start, crashes, wentWrong>>

\* users.insertOne(), and the token.
InsertUser(q) ==
  /\ At(q, "insert user")
  /\ IF Clashes(Account(q))
     THEN Goto(q, "undo") /\ UNCHANGED <<users, tokens>>
     ELSE /\ users' = users \cup {Account(q)}
          /\ tokens' = tokens \cup {Account(q)}
          /\ Goto(q, "done")
  /\ UNCHANGED <<teams, lastId, start, crashes, wentWrong>>

\* The catch block: teams.deleteOne(), whose error is ignored.
UndoTeam(q) ==
  /\ At(q, "undo")
  /\ \/ teams' = teams \ {[name |-> request[q].name, id |-> request[q].id]} /\ UNCHANGED wentWrong
     \/ UNCHANGED teams /\ Blames("team kept")
  /\ Goto(q, "done")
  /\ UNCHANGED <<users, lastId, tokens, start, crashes>>

\* A call throws and nothing was stored: the error is the answer.
AnswersError(q) ==
  /\ \/ \E pc \in {"find user", "find team"} : At(q, pc)
     \/ q \in Contestants /\ At(q, "insert team")
  /\ Goto(q, "done")
  /\ UNCHANGED <<documents, tokens, start, crashes, wentWrong>>

\* teams.insertOne() throws outside the inner try block.
InsertTeamThrows(q) ==
  /\ At(q, "insert team")
  /\ \/ UNCHANGED <<teams, lastId, wentWrong>>
     \/ TeamNamed(request[q].name) = {} /\ AddsTeam(request[q].name) /\ Blames("team kept")
  /\ Goto(q, "done")
  /\ UNCHANGED <<users, tokens, start, crashes>>

\* users.insertOne() throws: the team is deleted also if the user was stored.
InsertUserThrows(q) ==
  /\ At(q, "insert user")
  /\ \/ UNCHANGED <<users, wentWrong>>
     \/ /\ ~Clashes(Account(q))
        /\ users' = users \cup {Account(q)}
        /\ Blames("user kept")
  /\ Goto(q, "undo")
  /\ UNCHANGED <<teams, lastId, tokens, start, crashes>>

(***************************************************************************)
(* POST /contestants: a team without a user.  POST /auth/login.            *)
(***************************************************************************)
Register(q, name) ==
  /\ q \in Contestants /\ At(q, "new")
  /\ request' = [request EXCEPT ![q].pc = "find team", ![q].name = name]
  /\ UNCHANGED <<documents, tokens, start, crashes, wentWrong>>

\* A team that exists is returned.
FindRegistered(q) ==
  /\ q \in Contestants /\ At(q, "find team")
  /\ Goto(q, IF TeamNamed(request[q].name) # {} THEN "done" ELSE "insert team")
  /\ UNCHANGED <<documents, tokens, start, crashes, wentWrong>>

\* An insertion that threw, but was stored, is one whose answer is an error.
InsertRegistered(q) ==
  /\ q \in Contestants /\ At(q, "insert team")
  /\ IF TeamNamed(request[q].name) = {}
     THEN /\ AddsTeam(request[q].name)
          /\ request' = [request EXCEPT ![q].pc = "done", ![q].id = lastId']
     ELSE Goto(q, "done") /\ UNCHANGED <<teams, lastId>>
  /\ UNCHANGED <<users, tokens, start, crashes, wentWrong>>

LogIn(u) ==
  /\ Serving
  /\ tokens' = tokens \cup {u}
  /\ UNCHANGED <<documents, request, start, crashes, wentWrong>>

-----------------------------------------------------------------------------
(***************************************************************************)
(* initializeMongoSchema().                                                *)
(***************************************************************************)
\* users.find(): the list is read once.
FindLegacy ==
  /\ start.pc = "legacy"
  /\ start' = [start EXCEPT !.pc = "upsert", !.todo = {u \in users : Legacy(u)}]
  /\ UNCHANGED <<documents, request, tokens, crashes, wentWrong>>

\* Mutant of UpsertTeam: the one there was before, and nobody looks whether there was.
UpsertTeamBefore(u) ==
  /\ start.pc = "upsert" /\ u \in start.todo
  /\ IF TeamNamed(u.team) = {} THEN AddsTeam(u.team) ELSE UNCHANGED <<teams, lastId>>
  /\ start' = [start EXCEPT !.pc = "update",
                            !.id = IF TeamNamed(u.team) = {} THEN NoId
                                   ELSE (CHOOSE t \in teams : t.name = u.team).id]
  /\ UNCHANGED <<users, request, tokens, crashes, wentWrong>>

\* findOneAndUpdate() with upsert: the team's document as it is afterwards.
UpsertTeam(u) ==
  /\ start.pc = "upsert" /\ u \in start.todo
  /\ IF TeamNamed(u.team) = {} THEN AddsTeam(u.team) ELSE UNCHANGED <<teams, lastId>>
  /\ start' = [start EXCEPT !.pc = "update", !.id = (CHOOSE t \in teams' : t.name = u.team).id]
  /\ UNCHANGED <<users, request, tokens, crashes, wentWrong>>

\* updateOne(): the id of the team goes into the loop's user, unless that has one by now.
\* The loop's user is the one of the team whose id is in hand: nobody deletes teams now.
UpdateUser(u) ==
  /\ start.pc = "update" /\ u \in start.todo
  /\ [name |-> u.team, id |-> start.id] \in teams
  /\ users' = {IF v = u THEN [v EXCEPT !.id = start.id] ELSE v : v \in users}
  /\ start' = [pc |-> "upsert", todo |-> start.todo \ {u}, id |-> NoId]
  /\ UNCHANGED <<teams, lastId, request, tokens, crashes, wentWrong>>

\* The unique index on teamId, and listen().
Listen ==
  /\ start.pc = "upsert" /\ start.todo = {}
  /\ start' = [start EXCEPT !.pc = "up"]
  /\ UNCHANGED <<documents, request, tokens, crashes, wentWrong>>

\* The process dies, or a call of its start throws and it exits: it is started again,
\* and what its requests had left to do is lost.
Crash ==
  /\ crashes < MaxCrashes
  /\ crashes' = crashes + 1
  /\ start' = [pc |-> "legacy", todo |-> {}, id |-> NoId]
  /\ request' = [q \in Requests |->
                   IF request[q].pc = "new" THEN request[q] ELSE [request[q] EXCEPT !.pc = "done"]]
  /\ IF \E q \in Signups : request[q].pc \in {"insert user", "undo"}
     THEN Blames("team kept") ELSE UNCHANGED wentWrong
  /\ UNCHANGED <<documents, tokens>>

-----------------------------------------------------------------------------
Next ==
  \/ \E q \in Requests :
       \/ \E handle \in Handles, name \in Names : SignUp(q, handle, name)
       \/ \E name \in Names : Register(q, name)
       \/ FindUser(q) \/ FindTeam(q) \/ InsertTeam(q) \/ InsertUser(q) \/ UndoTeam(q)
       \/ InsertTeamThrows(q) \/ InsertUserThrows(q)
       \/ FindRegistered(q) \/ InsertRegistered(q)
       \/ AnswersError(q)
  \/ \E u \in users : LogIn(u)
  \/ FindLegacy
  \/ \E u \in start.todo : UpsertTeam(u) \/ UpdateUser(u)
  \/ Listen \/ Crash

Spec == Init /\ [][Next]_identVars

-----------------------------------------------------------------------------
(***************************************************************************)
(* Properties.                                                             *)
(***************************************************************************)
Accounts == [handle : Handles, team : Names, id : 0..lastId]

\* Types.  The documents respect their unique indexes, whatever requests insert at the
\* same time; an id in hand is one of a team that was stored.
TypeOK ==
  /\ users \subseteq Accounts
  /\ teams \subseteq [name : Names, id : 1..lastId]
  /\ lastId \in Nat
  /\ request \in [Requests -> [pc : Pcs, handle : Handles \cup {""}, name : Names \cup {""}, id : 0..lastId]]
  /\ tokens \subseteq Accounts
  /\ start \in [pc : {"legacy", "upsert", "update", "up"}, todo : SUBSET Accounts, id : 0..lastId]
  /\ start.pc = "update" => start.id # NoId
  /\ \A q \in Requests : request[q].pc \in {"insert user", "undo"} => request[q].id # NoId
  /\ crashes \in 0..MaxCrashes
  /\ wentWrong \subseteq {"team kept", "user kept"}
  /\ \A u, v \in users : u # v => u.handle # v.handle /\ u.team # v.team /\ (u.id = v.id => Legacy(u))
  /\ \A s, t \in teams : s # t => s.name # t.name /\ s.id # t.id

\* An account that has a team id has the team of that id and of its name, once its
\* signup has nothing left to do.
AccountsHaveTheirTeam ==
  \A u \in users : ~Legacy(u) => [name |-> u.team, id |-> u.id] \in teams

\* A team belongs to an account of its name, was registered by POST /contestants, or is
\* that of a signup under way: otherwise its name is taken, and by nobody.
TeamsHaveAnOwner ==
  \A t \in teams :
    \/ \E u \in users : u.team = t.name
    \/ \E q \in Contestants : request[q].id = t.id
    \/ \E q \in Signups : request[q].id = t.id /\ request[q].pc \in {"insert user", "undo"}

\* What POST /submissions asks of a token: a user with these claims, who has a team id.
TokensAreGood == \A claims \in tokens : claims \in users /\ ~Legacy(claims)

\* The two collections agree, although no transaction holds them together: through
\* concurrent signups for one handle or team, /contestants, crashes and migrations.
\* Excepted are exactly the leftovers of a signup that died or whose clean-up threw (a
\* team nobody can sign up for) and of an insertion that threw and yet was stored (an
\* account whose team was deleted).
AccountsAgree ==
  /\ "user kept" \notin wentWrong => AccountsHaveTheirTeam
  /\ "team kept" \notin wentWrong => TeamsHaveAnOwner
  /\ TokensAreGood
=============================================================================
