--------------------------- MODULE AccountsProofs ---------------------------
(***************************************************************************)
(* Theorems of Accounts for any users, groups, requests and lives of       *)
(* tokens that AccountsAssumption admits.                                  *)
(***************************************************************************)
EXTENDS Accounts, TLAPS

(* Requests about a user, which look for a group only if they name one,    *)
(* and requests about a group.                                             *)
Looks == {"insertMember", "findGroup"}
UserSteps  == Looks \cup {"insertUser", "saveUser", "sign"}
GroupSteps == {"syncUsers", "saveGroup", "unassign", "removeGroup", "seedGroup", "seedUser"}
UserJobs ==
  {j \in [next : UserSteps, user : Users, row : Rows, group : Groups \cup {Null}] :
     j.next \in Looks => j.group # Null}
GroupJobs ==
  [next : GroupSteps, user : {Null}, row : {Null}, group : Groups \cup {Null}, perms : Perms]
Tokens == [user : Users, perms : Perms, age : Nat]

(* What is stored and under way keeps its type, and only users that exist  *)
(* have refresh tokens and log in.                                         *)
StoreOK ==
  /\ user \in [Users -> Rows \cup {Null}]
  /\ group \in [Groups -> Perms \cup {"unused", "gone"}]
  /\ admin \in Groups \cup {Null}
  /\ job \in [Actors -> UserJobs \cup GroupJobs \cup {Null}]
  /\ refresh \subseteq {u \in Users : user[u] # Null}
  /\ \A a \in Actors : (job[a] # Null /\ job[a].next = "sign") => user[job[a].user] # Null

TokensOK ==
  /\ tokens \subseteq Tokens
  /\ had \in [Users -> [Perms -> Nat]]

(* No access token is younger than the time since its user was active with *)
(* its permissions, and none outlives Expiry; a login under way signs      *)
(* what its user has now, for no tick passes in it.                        *)
Fresh ==
  /\ \A t \in tokens : t.age < Expiry /\ had[t.user][t.perms] <= t.age
  /\ \A a \in Actors : (job[a] # Null /\ job[a].next = "sign") =>
       had[job[a].user][job[a].row.perms] = 0

TokenInv == StoreOK /\ TokensOK /\ Fresh

-----------------------------------------------------------------------------
(* What an action does to the rows and the requests: types are kept, and   *)
(* no row of a user goes.                                                  *)
Kept == StoreOK' /\ \A u \in Users : user[u] # Null => user'[u] # Null

LEMMA RowHasType ==
  ASSUME NEW active \in BOOLEAN, NEW p \in Perms, NEW g \in Groups \cup {Null}
  PROVE  Row(active, p, g) \in Rows
BY DEF Row, Rows

LEMMA JobsHaveType ==
  /\ \A next \in UserSteps, u \in Users, r \in Rows :
       (next \in Looks => r.group # Null) =>
         UserJob(next, u, r) \in UserJobs /\ UserJob(next, u, r).next = next
         /\ UserJob(next, u, r).user = u
  /\ \A next \in GroupSteps, g \in Groups \cup {Null}, p \in Perms :
       GroupJob(next, g, p) \in GroupJobs /\ GroupJob(next, g, p).next # "sign"
BY DEF UserJob, GroupJob, UserJobs, GroupJobs, Rows, GroupSteps

(* A request is taken up or goes on: the others stay as they are, and the  *)
(* rows have their type.                                                   *)
LEMMA JobKeeps ==
  ASSUME StoreOK, NEW a \in Actors, NEW j \in UserJobs \cup GroupJobs \cup {Null},
         j # Null /\ j.next = "sign" => user[j.user] # Null,
         job' = [job EXCEPT ![a] = j], UNCHANGED refresh,
         user' \in [Users -> Rows \cup {Null}], \A u \in Users : user[u] # Null => user'[u] # Null,
         group' \in [Groups -> Perms \cup {"unused", "gone"}], admin' \in Groups \cup {Null}
  PROVE  Kept
<1>1. job' \in [Actors -> UserJobs \cup GroupJobs \cup {Null}]
  BY DEF StoreOK
<1>2. refresh' \subseteq {u \in Users : user'[u] # Null}
  BY DEF StoreOK
<1>3. ASSUME NEW b \in Actors, job'[b] # Null, job'[b].next = "sign"
      PROVE  user'[job'[b].user] # Null
  <2>1. job'[b] \in UserJobs /\ job'[b].user \in Users
    BY <1>1, <1>3 DEF UserJobs, GroupJobs, GroupSteps
  <2>2. user[job'[b].user] # Null
    BY <1>3 DEF StoreOK
  <2> QED
    BY <2>1, <2>2
<1> QED
  BY <1>1, <1>2, <1>3 DEF StoreOK, Kept

LEMMA BeginUser ==
  ASSUME StoreOK, NEW a \in Actors, NEW next \in UserSteps, NEW u \in Users, NEW r \in Rows,
         next \in Looks => r.group # Null, next = "sign" => user[u] # Null,
         Begin(a, UserJob(next, u, r))
  PROVE  Kept
<1> DEFINE j == UserJob(next, u, r)
<1>1. j \in UserJobs /\ j.next = next /\ j.user = u
  BY JobsHaveType
<1>2. job' = [job EXCEPT ![a] = j] /\ UNCHANGED <<user, group, admin, refresh>>
  BY DEF Begin, rows
<1> HIDE DEF j
<1> QED
  BY <1>1, <1>2, JobKeeps DEF StoreOK

LEMMA BeginGroup ==
  ASSUME StoreOK, NEW a \in Actors, NEW next \in GroupSteps, NEW g \in Groups \cup {Null}, NEW p \in Perms,
         Begin(a, GroupJob(next, g, p))
  PROVE  Kept
<1> DEFINE j == GroupJob(next, g, p)
<1>1. j \in GroupJobs /\ j.next # "sign"
  BY JobsHaveType
<1>2. job' = [job EXCEPT ![a] = j] /\ UNCHANGED <<user, group, admin, refresh>>
  BY DEF Begin, rows
<1> HIDE DEF j
<1> QED
  BY <1>1, <1>2, JobKeeps DEF StoreOK

LEMMA RequestKeeps ==
  ASSUME AccountsAssumption, StoreOK, NEW a \in Actors, Request(a)
  PROVE  Kept
<1>1. CASE CreateUser(a)
  <2>1. PICK u \in Users, p \in Perms, g \in Groups \cup {Null} :
          Begin(a, UserJob(IF g = Null THEN "insertUser" ELSE "insertMember", u, Row(TRUE, p, g)))
    BY <1>1 DEF CreateUser
  <2>2. Row(TRUE, p, g) \in Rows /\ Row(TRUE, p, g).group = g
    BY RowHasType DEF Row
  <2> QED
    BY <2>1, <2>2, BeginUser DEF UserSteps, Looks
<1>2. CASE UpdateUser(a)
  <2>1. PICK u \in Users, active \in BOOLEAN, p \in Perms \cup {Null},
             g \in Groups \cup {Null, "as it is"} :
          /\ user[u] # Null
          /\ Begin(a, UserJob(IF g \in Groups THEN "findGroup" ELSE "saveUser", u,
                              Assigned(user[u], active, g, p)))
    BY <1>2 DEF UpdateUser
  <2>2. user[u] \in Rows
    BY <2>1 DEF StoreOK
  <2> DEFINE r == Assigned(user[u], active, g, p)
  <2>3. r \in Rows /\ (g \in Groups => r.group # Null)
    BY <2>2, AccountsAssumption DEF Assigned, Rows, AccountsAssumption
  <2> HIDE DEF r
  <2>4. CASE g \in Groups
    BY <2>1, <2>3, <2>4, BeginUser DEF UserSteps, Looks, r
  <2>5. CASE g \notin Groups
    BY <2>1, <2>3, <2>5, BeginUser DEF UserSteps, Looks, r
  <2> QED
    BY <2>4, <2>5
<1>3. CASE DeleteUser(a)
  <2>1. PICK u \in Users : user[u] # Null /\ Begin(a, UserJob("saveUser", u, [user[u] EXCEPT !.active = FALSE]))
    BY <1>3 DEF DeleteUser
  <2>2. [user[u] EXCEPT !.active = FALSE] \in Rows
    BY <2>1 DEF StoreOK, Rows
  <2> QED
    BY <2>1, <2>2, BeginUser DEF UserSteps, Looks
<1>4. CASE UpdateProfile(a)
  BY <1>4, BeginUser DEF UpdateProfile, StoreOK, UserSteps, Looks
<1>5. \A g \in Groups : There(g) => group[g] \in Perms
  BY DEF StoreOK, There
<1>6. CASE UpdateGroup(a)
  BY <1>5, <1>6, BeginGroup DEF UpdateGroup, GroupSteps
<1>7. CASE DeleteGroup(a)
  BY <1>5, <1>7, BeginGroup DEF DeleteGroup, GroupSteps
<1>8. CASE Seed(a)
  <2>1. admin \in Groups \cup {Null} /\ All \in Perms
    BY DEF StoreOK, AccountsAssumption
  <2> QED
    BY <1>8, <2>1, BeginGroup DEF Seed, GroupSteps
<1>9. CASE Login(a)
  <2>1. PICK u \in Users : user[u] # Null /\ Begin(a, UserJob("sign", u, user[u]))
    BY <1>9 DEF Login
  <2>2. user[u] \in Rows
    BY <2>1 DEF StoreOK
  <2> QED
    BY <2>1, <2>2, BeginUser DEF UserSteps, Looks
<1> QED
  BY <1>1, <1>2, <1>3, <1>4, <1>6, <1>7, <1>8, <1>9 DEF Request

(* A statement of a request under way: the request goes on or ends, and    *)
(* writes rows of their type.                                              *)
LEMMA GoKeeps ==
  ASSUME StoreOK, NEW a \in Actors, NEW j \in UserJobs \cup GroupJobs \cup {Null}, Go(a, j),
         j = Null \/ j.next # "sign",
         user' \in [Users -> Rows \cup {Null}], \A u \in Users : user[u] # Null => user'[u] # Null,
         group' \in [Groups -> Perms \cup {"unused", "gone"}], admin' \in Groups \cup {Null}
  PROVE  Kept
BY JobKeeps DEF Go

LEMMA StatementKeeps ==
  ASSUME AccountsAssumption, StoreOK, NEW a \in Actors, Statement(a)
  PROVE  Kept
<1> DEFINE j == job[a]
<1>1. j # Null /\ j \in UserJobs \cup GroupJobs
  BY DEF Statement, StoreOK
<1>2. Null \notin Rows
  BY DEF AccountsAssumption
<1>3. ASSUME j.next \in UserSteps
      PROVE  /\ j.user \in Users /\ j.row \in Rows /\ j.group \in Groups \cup {Null}
             /\ j.next \in Looks => j.group \in Groups
  BY <1>1, <1>3 DEF UserJobs, GroupJobs, UserSteps, GroupSteps, Looks
<1>4. ASSUME j.next \in GroupSteps
      PROVE  j.perms \in Perms /\ j.group \in Groups \cup {Null}
  BY <1>1, <1>4 DEF UserJobs, GroupJobs, UserSteps, GroupSteps, Looks
<1>5. CASE FindGroup(a)
  <2>1. j.next \in {"findGroup", "insertMember"}
    BY <1>5 DEF FindGroup
  <2>2. j.user \in Users /\ j.row \in Rows /\ j.group \in Groups
    BY <1>3, <2>1 DEF UserSteps, Looks
  <2>3. There(j.group) => group[j.group] \in Perms
    BY <2>2 DEF StoreOK, There
  <2> DEFINE r == IF There(j.group) THEN [j.row EXCEPT !.perms = group[j.group], !.apart = FALSE] ELSE j.row
             next == IF j.next = "findGroup" THEN "saveUser" ELSE "insertUser"
  <2>4. r \in Rows
    BY <2>2, <2>3 DEF Rows
  <2>5. Go(a, UserJob(next, j.user, r)) /\ UNCHANGED rows
    BY <1>5 DEF FindGroup
  <2> HIDE DEF r
  <2>6. UserJob(next, j.user, r) \in UserJobs /\ UserJob(next, j.user, r).next # "sign"
    BY <2>2, <2>4, JobsHaveType DEF UserSteps, Looks
  <2> QED
    BY <2>5, <2>6, GoKeeps DEF StoreOK, rows
<1>6. CASE SaveUser(a)
  <2>1. j.user \in Users /\ j.row \in Rows
    BY <1>3, <1>6 DEF SaveUser, UserSteps
  <2>2. /\ user' \in [Users -> Rows \cup {Null}]
        /\ \A u \in Users : user[u] # Null => user'[u] # Null
    BY <1>2, <1>6, <2>1 DEF SaveUser, StoreOK
  <2> QED
    BY <1>6, <2>2, GoKeeps DEF SaveUser, Done, StoreOK
<1>7. CASE SyncUsers(a)
  <2>1. j.perms \in Perms /\ j.group \in Groups \cup {Null}
    BY <1>4, <1>7 DEF SyncUsers, GroupSteps
  <2>2. ASSUME NEW u \in Users
        PROVE  user'[u] \in Rows \cup {Null} /\ (user[u] # Null => user'[u] # Null)
    <3>1. CASE Member(user[u], j.group)
      <4>1. [user[u] EXCEPT !.perms = j.perms, !.apart = FALSE] \in Rows
        BY <2>1, <3>1 DEF Member, StoreOK, Rows
      <4> QED
        BY <1>2, <1>7, <3>1, <4>1 DEF SyncUsers
    <3>2. CASE ~Member(user[u], j.group)
      BY <1>7, <3>2 DEF SyncUsers, StoreOK
    <3> QED
      BY <3>1, <3>2
  <2>3. user' \in [Users -> Rows \cup {Null}]
    BY <1>7, <2>2 DEF SyncUsers
  <2> DEFINE k == GroupJob("saveGroup", j.group, j.perms)
  <2>4. k \in GroupJobs /\ k.next # "sign"
    BY <2>1, JobsHaveType DEF GroupSteps
  <2>5. Go(a, k) /\ UNCHANGED <<group, admin>>
    BY <1>7 DEF SyncUsers
  <2> HIDE DEF k
  <2> QED
    BY <2>2, <2>3, <2>4, <2>5, GoKeeps DEF StoreOK
<1>8. CASE SaveGroup(a)
  BY <1>4, <1>8, GoKeeps DEF GroupSteps, SaveGroup, Done, StoreOK
<1>9. ASSUME NEW g
      PROVE  /\ Unassigned(g) \in [Users -> Rows \cup {Null}]
             /\ \A u \in Users : user[u] # Null => Unassigned(g)[u] # Null
  <2> SUFFICES ASSUME NEW u \in Users
               PROVE  Unassigned(g)[u] \in Rows \cup {Null} /\ (user[u] # Null => Unassigned(g)[u] # Null)
    BY DEF Unassigned
  <2>1. CASE Member(user[u], g)
    <3>1. [user[u] EXCEPT !.group = Null] \in Rows
      BY <2>1 DEF Member, StoreOK, Rows
    <3> QED
      BY <1>2, <2>1, <3>1 DEF Unassigned
  <2>2. CASE ~Member(user[u], g)
    BY <2>2 DEF Unassigned, StoreOK
  <2> QED
    BY <2>1, <2>2
<1>10. CASE Unassign(a)
  <2>1. j.group \in Groups \cup {Null} /\ j.perms \in Perms
    BY <1>4, <1>10 DEF Unassign, GroupSteps
  <2> DEFINE k == GroupJob("removeGroup", j.group, j.perms)
  <2>2. k \in GroupJobs /\ k.next # "sign"
    BY <2>1, JobsHaveType DEF GroupSteps
  <2>3. Go(a, k) /\ user' = Unassigned(j.group) /\ UNCHANGED <<group, admin>>
    BY <1>10 DEF Unassign
  <2> HIDE DEF k
  <2> QED
    BY <1>9, <2>2, <2>3, GoKeeps DEF StoreOK
<1>11. CASE RemoveGroup(a)
  BY <1>9, <1>11, GoKeeps DEF RemoveGroup, Done, StoreOK
<1>12. All \in Perms
  BY DEF AccountsAssumption
<1>13. CASE SeedGroup(a)
  <2>1. ASSUME NEW g \in Groups, group' = [group EXCEPT ![g] = All], admin' = g,
               Go(a, GroupJob("seedUser", g, All)), UNCHANGED user
        PROVE  Kept
    <3> DEFINE k == GroupJob("seedUser", g, All)
    <3>1. k \in GroupJobs /\ k.next # "sign"
      BY <1>12, JobsHaveType DEF GroupSteps
    <3>2. Go(a, k)
      BY <2>1
    <3> HIDE DEF k
    <3> QED
      BY <1>12, <2>1, <3>1, <3>2, GoKeeps DEF StoreOK
  <2>2. CASE /\ j.group # Null /\ Go(a, GroupJob("seedUser", j.group, All)) /\ UNCHANGED admin
             /\ group' = IF There(j.group) THEN [group EXCEPT ![j.group] = All] ELSE group
             /\ user' = [u \in Users |-> IF Member(user[u], j.group) /\ There(j.group)
                                         THEN [user[u] EXCEPT !.apart = TRUE] ELSE user[u]]
    <3>1. ASSUME NEW u \in Users
          PROVE  user'[u] \in Rows \cup {Null} /\ (user[u] # Null => user'[u] # Null)
      <4>1. CASE Member(user[u], j.group) /\ There(j.group)
        <5>1. [user[u] EXCEPT !.apart = TRUE] \in Rows
          BY <4>1 DEF Member, StoreOK, Rows
        <5> QED
          BY <1>2, <2>2, <4>1, <5>1
      <4>2. CASE ~(Member(user[u], j.group) /\ There(j.group))
        BY <2>2, <4>2 DEF StoreOK
      <4> QED
        BY <4>1, <4>2
    <3>2. user' \in [Users -> Rows \cup {Null}]
      BY <2>2, <3>1
    <3>3. j.group \in Groups \cup {Null}
      BY <1>4, <1>13 DEF SeedGroup, GroupSteps
    <3> QED
      BY <1>12, <2>2, <3>1, <3>2, <3>3, GoKeeps, JobsHaveType DEF UserSteps, GroupSteps, Looks, StoreOK
  <2> QED
    BY <1>13, <2>1, <2>2 DEF SeedGroup
<1>14. CASE SeedUser(a)
  <2>1. j.group \in Groups \cup {Null}
    BY <1>4, <1>14 DEF SeedUser, GroupSteps
  <2>2. user[Admin] # Null => user[Admin].active \in BOOLEAN
    BY DEF StoreOK, Rows, AccountsAssumption
  <2>3. Row(IF user[Admin] = Null THEN TRUE ELSE user[Admin].active, All, j.group) \in Rows
    BY <1>12, <2>1, <2>2, RowHasType
  <2>4. /\ user' \in [Users -> Rows \cup {Null}]
        /\ \A u \in Users : user[u] # Null => user'[u] # Null
    BY <1>2, <1>14, <2>3 DEF SeedUser, StoreOK
  <2> QED
    BY <1>14, <2>4, GoKeeps DEF SeedUser, Done, StoreOK
<1>15. CASE Sign(a)
  <2>1. j.user \in Users /\ user[j.user] # Null /\ UNCHANGED <<user, group, admin>>
    BY <1>1, <1>3, <1>15 DEF Sign, rows, UserSteps, StoreOK
  <2> QED
    BY <1>15, <2>1 DEF Sign, Signed, rows, StoreOK, Kept
<1> QED
  BY <1>5, <1>6, <1>7, <1>8, <1>10, <1>11, <1>13, <1>14, <1>15 DEF Statement

-----------------------------------------------------------------------------
(* The time since a user was active with some permissions: zero if he is,  *)
(* and else no shorter than it was only when the clock ticks.              *)
Aged(older) ==
  had' = [u \in Users |-> [p \in Perms |-> IF Has(u, p) THEN 0 ELSE older[u][p]]]

LEMMA AgedHasType ==
  ASSUME NEW older \in [Users -> [Perms -> Nat]], Aged(older)
  PROVE  /\ had' \in [Users -> [Perms -> Nat]]
         /\ \A u \in Users, p \in Perms : had'[u][p] <= older[u][p]
         /\ \A u \in Users, p \in Perms : Has(u, p) => had'[u][p] = 0
<1>1. \A u \in Users, p \in Perms : had'[u][p] = IF Has(u, p) THEN 0 ELSE older[u][p]
  BY DEF Aged
<1>2. had' \in [Users -> [Perms -> Nat]]
  BY DEF Aged
<1> QED
  BY <1>1, <1>2

(* A step that is no tick keeps the tokens or adds one for permissions     *)
(* that its user has had since the last tick.                              *)
LEMMA TokensKept ==
  ASSUME AccountsAssumption, TokenInv, StoreOK', Aged(had),
         \/ UNCHANGED tokens
         \/ \E u \in Users, p \in Perms : Signed(u, p) /\ (Has(u, p) \/ had[u][p] = 0)
  PROVE  TokensOK' /\ \A t \in tokens' : t.age < Expiry /\ had'[t.user][t.perms] <= t.age
<1>1. /\ had' \in [Users -> [Perms -> Nat]]
      /\ \A u \in Users, p \in Perms : had'[u][p] <= had[u][p]
      /\ \A u \in Users, p \in Perms : Has(u, p) => had'[u][p] = 0
  BY AgedHasType DEF TokenInv, TokensOK
<1>2. had \in [Users -> [Perms -> Nat]] /\ Expiry \in Nat
  BY DEF TokenInv, TokensOK, AccountsAssumption
<1>3. \A t \in tokens : t \in Tokens /\ t.age < Expiry /\ had'[t.user][t.perms] <= t.age
  <2> SUFFICES ASSUME NEW t \in tokens
               PROVE  t \in Tokens /\ t.age < Expiry /\ had'[t.user][t.perms] <= t.age
    OBVIOUS
  <2>1. t \in Tokens /\ t.user \in Users /\ t.perms \in Perms /\ t.age \in Nat
    BY DEF TokenInv, TokensOK, Tokens
  <2>2. t.age < Expiry /\ had[t.user][t.perms] <= t.age
    BY DEF TokenInv, Fresh
  <2>3. had'[t.user][t.perms] <= had[t.user][t.perms]
    BY <1>1, <2>1
  <2>4. had'[t.user][t.perms] \in Nat /\ had[t.user][t.perms] \in Nat
    BY <1>1, <1>2, <2>1
  <2> QED
    BY <2>1, <2>2, <2>3, <2>4
<1>4. CASE UNCHANGED tokens
  BY <1>1, <1>3, <1>4 DEF TokensOK
<1>5. CASE \E u \in Users, p \in Perms : Signed(u, p) /\ (Has(u, p) \/ had[u][p] = 0)
  <2>1. PICK u \in Users, p \in Perms : Signed(u, p) /\ (Has(u, p) \/ had[u][p] = 0)
    BY <1>5
  <2> DEFINE new == [user |-> u, perms |-> p, age |-> 0]
  <2>2. had'[u][p] = 0
    <3>1. had'[u][p] <= had[u][p] /\ had'[u][p] \in Nat
      BY <1>1
    <3> QED
      BY <1>1, <2>1, <3>1
  <2>3. new \in Tokens /\ new.age = 0 /\ had'[new.user][new.perms] <= new.age
    BY <2>2 DEF Tokens
  <2>4. tokens' = tokens \/ (Expiry # 0 /\ tokens' = tokens \cup {new})
    BY <2>1 DEF Signed
  <2> HIDE DEF new
  <2> QED
    BY <1>1, <1>2, <1>3, <2>3, <2>4 DEF TokensOK
<1> QED
  BY <1>4, <1>5

LEMMA TickKeeps ==
  ASSUME AccountsAssumption, TokenInv, Tick,
         Aged([u \in Users |-> [p \in Perms |-> Older(had[u][p])]])
  PROVE  TokenInv'
<1>1. StoreOK'
  BY DEF TokenInv, StoreOK, Tick, rows
<1>2. had \in [Users -> [Perms -> Nat]] /\ Expiry \in Nat
  BY DEF TokenInv, TokensOK, AccountsAssumption
<1> DEFINE older == [u \in Users |-> [p \in Perms |-> Older(had[u][p])]]
<1>3. older \in [Users -> [Perms -> Nat]] /\ \A u \in Users, p \in Perms : older[u][p] <= had[u][p] + 1
  BY <1>2 DEF Older
<1> HIDE DEF older
<1>4. had' \in [Users -> [Perms -> Nat]] /\ \A u \in Users, p \in Perms : had'[u][p] <= older[u][p]
  BY <1>3, AgedHasType DEF older
<1>5. ASSUME NEW t \in tokens'
      PROVE  t \in Tokens /\ t.age < Expiry /\ had'[t.user][t.perms] <= t.age
  <2>1. PICK s \in tokens : s.age + 1 < Expiry /\ t = [s EXCEPT !.age = @ + 1]
    BY <1>5 DEF Tick
  <2>2. s \in Tokens /\ had[s.user][s.perms] <= s.age
    BY <2>1 DEF TokenInv, TokensOK, Fresh
  <2>3. t \in Tokens /\ t.user = s.user /\ t.perms = s.perms /\ t.age = s.age + 1
    BY <2>1, <2>2 DEF Tokens
  <2>4. s.user \in Users /\ s.perms \in Perms /\ s.age \in Nat
    BY <2>2 DEF Tokens
  <2>5. /\ had'[s.user][s.perms] <= older[s.user][s.perms]
        /\ older[s.user][s.perms] <= had[s.user][s.perms] + 1
    BY <1>3, <1>4, <2>4
  <2>6. {had'[s.user][s.perms], older[s.user][s.perms], had[s.user][s.perms]} \subseteq Nat
    BY <1>2, <1>3, <1>4, <2>4
  <2> QED
    BY <1>2, <2>1, <2>2, <2>3, <2>4, <2>5, <2>6
<1>6. \A a \in Actors : job'[a] # Null => job'[a].next # "sign"
  BY DEF Tick
<1> QED
  BY <1>1, <1>4, <1>5, <1>6 DEF TokenInv, TokensOK, Fresh

(* A login that is under way signs what its user has: of the steps that    *)
(* are no tick only Login adds one, for a user who is active.              *)
LEMMA SignsFresh ==
  ASSUME TokenInv, StoreOK', Aged(had),
         \A a \in Actors : (job'[a] # Null /\ job'[a].next = "sign") =>
           \/ job'[a] = job[a]
           \/ Has(job'[a].user, job'[a].row.perms)
  PROVE  \A a \in Actors : (job'[a] # Null /\ job'[a].next = "sign") =>
           had'[job'[a].user][job'[a].row.perms] = 0
<1> SUFFICES ASSUME NEW a \in Actors, job'[a] # Null, job'[a].next = "sign"
             PROVE  had'[job'[a].user][job'[a].row.perms] = 0
  OBVIOUS
<1> DEFINE u == job'[a].user
           p == job'[a].row.perms
<1>1. u \in Users /\ p \in Perms
  BY DEF StoreOK, UserJobs, GroupJobs, GroupSteps, Rows
<1>2. had'[u][p] <= had[u][p] /\ (Has(u, p) => had'[u][p] = 0) /\ had'[u][p] \in Nat
  BY <1>1, AgedHasType DEF TokenInv, TokensOK
<1>3. CASE Has(u, p)
  BY <1>2, <1>3
<1>4. CASE job'[a] = job[a]
  <2>1. had[u][p] = 0
    BY <1>4 DEF TokenInv, Fresh
  <2> QED
    BY <1>2, <2>1
<1> QED
  BY <1>3, <1>4

(* The jobs after a step that sign a token: those that did before, and the *)
(* logins of users who are active with what they sign.                     *)
SignsKept ==
  \A b \in Actors : (job'[b] # Null /\ job'[b].next = "sign") =>
    job'[b] = job[b] \/ Has(job'[b].user, job'[b].row.perms)

LEMMA BeginSigns ==
  ASSUME StoreOK, NEW a \in Actors, NEW j, Begin(a, j),
         j.next = "sign" => Has(j.user, j.row.perms)
  PROVE  SignsKept /\ UNCHANGED tokens
BY DEF Begin, StoreOK, SignsKept

LEMMA RequestSigns ==
  ASSUME StoreOK, NEW a \in Actors, Request(a)
  PROVE  SignsKept /\ UNCHANGED tokens
<1>1. ASSUME NEW next, next # "sign", NEW u, NEW r, Begin(a, UserJob(next, u, r))
      PROVE  SignsKept /\ UNCHANGED tokens
  <2>1. UserJob(next, u, r).next # "sign"
    BY <1>1 DEF UserJob
  <2> QED
    BY <1>1, <2>1, BeginSigns
<1>2. ASSUME NEW next, next # "sign", NEW g, NEW p, Begin(a, GroupJob(next, g, p))
      PROVE  SignsKept /\ UNCHANGED tokens
  <2>1. GroupJob(next, g, p).next # "sign"
    BY <1>2 DEF GroupJob
  <2> QED
    BY <1>2, <2>1, BeginSigns
<1>3. CASE CreateUser(a) \/ UpdateUser(a) \/ DeleteUser(a) \/ UpdateProfile(a)
  BY <1>1, <1>3 DEF CreateUser, UpdateUser, DeleteUser, UpdateProfile
<1>4. CASE UpdateGroup(a) \/ DeleteGroup(a) \/ Seed(a)
  BY <1>2, <1>4 DEF UpdateGroup, DeleteGroup, Seed
<1>5. CASE Login(a)
  <2>1. PICK u \in Users : user[u] # Null /\ user[u].active /\ Begin(a, UserJob("sign", u, user[u]))
    BY <1>5 DEF Login
  <2>2. user' = user
    BY <2>1 DEF Begin, rows
  <2>3. Has(UserJob("sign", u, user[u]).user, UserJob("sign", u, user[u]).row.perms)
    BY <2>1, <2>2 DEF Has, UserJob
  <2> QED
    BY <2>1, <2>3, BeginSigns
<1> QED
  BY <1>3, <1>4, <1>5 DEF Request

LEMMA GoSigns ==
  ASSUME StoreOK, NEW a \in Actors, NEW j, Go(a, j), j = Null \/ j.next # "sign"
  PROVE  SignsKept /\ UNCHANGED tokens
BY DEF Go, StoreOK, SignsKept

LEMMA StatementSigns ==
  ASSUME TokenInv, NEW a \in Actors, Statement(a)
  PROVE  /\ SignsKept
         /\ \/ UNCHANGED tokens
            \/ \E u \in Users, p \in Perms : Signed(u, p) /\ had[u][p] = 0
<1> USE DEF TokenInv
<1>1. ASSUME NEW next, next # "sign", NEW u, NEW r, Go(a, UserJob(next, u, r))
      PROVE  SignsKept /\ UNCHANGED tokens
  <2>1. UserJob(next, u, r).next # "sign"
    BY <1>1 DEF UserJob
  <2> QED
    BY <1>1, <2>1, GoSigns
<1>2. ASSUME NEW next, next # "sign", NEW g, NEW p, Go(a, GroupJob(next, g, p))
      PROVE  SignsKept /\ UNCHANGED tokens
  <2>1. GroupJob(next, g, p).next # "sign"
    BY <1>2 DEF GroupJob
  <2> QED
    BY <1>2, <2>1, GoSigns
<1>3. ASSUME Done(a)
      PROVE  SignsKept /\ UNCHANGED tokens
  BY <1>3, GoSigns DEF Done
<1>4. CASE FindGroup(a)
  BY <1>1, <1>4 DEF FindGroup
<1>5. CASE SyncUsers(a) \/ Unassign(a) \/ SeedGroup(a)
  BY <1>2, <1>5 DEF SyncUsers, Unassign, SeedGroup
<1>6. CASE SaveUser(a) \/ SaveGroup(a) \/ RemoveGroup(a) \/ SeedUser(a)
  BY <1>3, <1>6 DEF SaveUser, SaveGroup, RemoveGroup, SeedUser
<1>7. CASE Sign(a)
  <2>1. job[a] # Null /\ job[a].next = "sign"
    BY <1>7 DEF Sign, Statement
  <2>2. job[a].user \in Users /\ job[a].row.perms \in Perms /\ had[job[a].user][job[a].row.perms] = 0
    BY <2>1 DEF StoreOK, UserJobs, GroupJobs, GroupSteps, Rows, Fresh
  <2>3. SignsKept
    BY <1>7 DEF Sign, StoreOK, SignsKept
  <2> QED
    BY <1>7, <2>2, <2>3 DEF Sign
<1> QED
  BY <1>4, <1>5, <1>6, <1>7 DEF Statement

-----------------------------------------------------------------------------
LEMMA TokenInit == AccountsAssumption /\ Init => TokenInv
<1> SUFFICES ASSUME AccountsAssumption, Init
             PROVE  TokenInv
  OBVIOUS
<1>1. PICK g \in Groups :
        /\ user = [u \in Users |-> IF u = Admin THEN Row(TRUE, All, g) ELSE Null]
        /\ group = [h \in Groups |-> IF h = g THEN All ELSE "unused"] /\ admin = g
  BY DEF Init
<1>2. Row(TRUE, All, g) \in Rows /\ All \in Perms
  BY RowHasType DEF AccountsAssumption
<1>3. tokens = {} /\ refresh = {} /\ job = [a \in Actors |-> Null]
  BY DEF Init
<1>4. StoreOK
  BY <1>1, <1>2, <1>3 DEF StoreOK
<1>5. had \in [Users -> [Perms -> Nat]]
  <2>1. Expiry \in Nat
    BY DEF AccountsAssumption
  <2>2. had = [u \in Users |-> [p \in Perms |-> IF u = Admin /\ p = All THEN 0 ELSE Expiry]]
    BY DEF Init
  <2> QED
    BY <2>1, <2>2
<1> QED
  BY <1>3, <1>4, <1>5 DEF TokenInv, TokensOK, Fresh

LEMMA TokenStep == AccountsAssumption /\ TokenInv /\ [Next]_vars => TokenInv'
<1> SUFFICES ASSUME AccountsAssumption, TokenInv, [Next]_vars
             PROVE  TokenInv'
  OBVIOUS
<1>1. StoreOK
  BY DEF TokenInv
<1>2. ASSUME Aged(had), StoreOK', SignsKept,
             \/ UNCHANGED tokens
             \/ \E u \in Users, p \in Perms : Signed(u, p) /\ (Has(u, p) \/ had[u][p] = 0)
      PROVE  TokenInv'
  BY <1>2, TokensKept, SignsFresh DEF TokenInv, Fresh, SignsKept
<1>3. ASSUME NEW a \in Actors, Request(a), Aged(had)
      PROVE  TokenInv'
  BY <1>1, <1>2, <1>3, RequestKeeps, RequestSigns DEF Kept
<1>4. ASSUME NEW a \in Actors, Statement(a), Aged(had)
      PROVE  TokenInv'
  BY <1>1, <1>2, <1>4, StatementKeeps, StatementSigns DEF Kept
<1>5. ASSUME CreateGroup, Aged(had)
      PROVE  TokenInv'
  <2>1. StoreOK' /\ SignsKept /\ UNCHANGED tokens
    BY <1>1, <1>5 DEF CreateGroup, StoreOK, SignsKept
  <2> QED
    BY <1>2, <1>5, <2>1
<1>6. ASSUME Refresh, Aged(had)
      PROVE  TokenInv'
  <2>1. PICK u \in refresh : user[u].active /\ Signed(u, user[u].perms)
    BY <1>6 DEF Refresh
  <2>2. u \in Users /\ user[u] # Null /\ user[u] \in Rows /\ user[u].perms \in Perms
    BY <1>1 DEF StoreOK, Rows
  <2>3. Has(u, user[u].perms)
    BY <1>6, <2>1, <2>2 DEF Refresh, rows, Has
  <2>4. StoreOK' /\ SignsKept
    BY <1>1, <1>6, <2>1, <2>2 DEF Refresh, Signed, rows, StoreOK, SignsKept
  <2> QED
    BY <1>2, <1>6, <2>1, <2>2, <2>3, <2>4
<1>7. ASSUME Restart, Aged(had)
      PROVE  TokenInv'
  <2>1. StoreOK' /\ SignsKept /\ UNCHANGED tokens
    BY <1>1, <1>7 DEF Restart, rows, StoreOK, SignsKept
  <2> QED
    BY <1>2, <1>7, <2>1
<1>8. ASSUME Tick, had' = [u \in Users |-> [p \in Perms |-> IF Has(u, p) THEN 0 ELSE Older(had[u][p])]]
      PROVE  TokenInv'
  <2>1. Aged([u \in Users |-> [p \in Perms |-> Older(had[u][p])]])
    BY <1>8 DEF Aged
  <2> QED
    BY <1>8, <2>1, TickKeeps
<1>9. CASE UNCHANGED vars
  BY <1>9 DEF vars, rows, TokenInv, StoreOK, TokensOK, Fresh
<1> QED
  BY <1>3, <1>4, <1>5, <1>6, <1>7, <1>8, <1>9 DEF Next, Aged

(* What a user loses, whole permissions or the right to log in, is in no   *)
(* token any more when one life of a token has passed, however many        *)
(* refreshes, logins under way, edits, syncs of groups and restarts        *)
(* interleave with the change.                                             *)
THEOREM RevocationHolds == ASSUME AccountsAssumption PROVE Spec => []RevocationTakesEffect
<1>1. TokenInv => RevocationTakesEffect
  <2> SUFFICES ASSUME TokenInv, NEW t \in tokens
               PROVE  had[t.user][t.perms] < Expiry
    BY DEF RevocationTakesEffect
  <2>1. t \in Tokens /\ t.age < Expiry /\ had[t.user][t.perms] <= t.age
    BY DEF TokenInv, TokensOK, Fresh
  <2>2. t.user \in Users /\ t.perms \in Perms /\ t.age \in Nat
    BY <2>1 DEF Tokens
  <2>3. had[t.user][t.perms] \in Nat
    BY <2>2 DEF TokenInv, TokensOK
  <2>4. Expiry \in Nat
    BY DEF AccountsAssumption
  <2> QED
    BY <2>1, <2>2, <2>3, <2>4
<1>2. Init => TokenInv
  BY TokenInit
<1>3. TokenInv /\ [Next]_vars => TokenInv'
  BY TokenStep
<1> QED
  BY <1>1, <1>2, <1>3, PTL DEF Spec
-----------------------------------------------------------------------------
(* The rows follow their groups, but for the members of a group that is    *)
(* about to be saved, which are ahead of it.                               *)
Busy(a) == job[a] # Null /\ job[a].next # "sign"
Saving(a, g) == job[a] # Null /\ job[a].next = "saveGroup" /\ job[a].group = g

Alone == \A a, b \in Actors : a # b /\ Busy(a) /\ Busy(b) => job[a].user # Null /\ job[b].user # Null

Follows(r) == r.group # Null => There(r.group) /\ (~r.apart => r.perms = group[r.group])

RowsFollow ==
  \A u \in Users : user[u] # Null /\ user[u].group # Null =>
    /\ There(user[u].group)
    /\ ~user[u].apart =>
         /\ \A a \in Actors : Saving(a, user[u].group) => user[u].perms = job[a].perms
         /\ (\A a \in Actors : ~Saving(a, user[u].group)) => user[u].perms = group[user[u].group]

(* A row that is about to be written follows its group, or will be refused.*)
Sound(j) ==
  /\ j.group = j.row.group
  /\ j.next \in {"insertUser", "saveUser"} => Follows(j.row) \/ (j.group # Null /\ ~There(j.group))
JobsFollow ==
  \A a \in Actors : job[a] # Null /\ job[a].next \in UserSteps \ {"sign"} => Sound(job[a])

Renewed(j) == j.next = "seedUser" => j.group \in Groups /\ (There(j.group) => group[j.group] = All)
SeedsFollow == \A a \in Actors : job[a] # Null => Renewed(job[a])

CalmInv   == Alone /\ RowsFollow /\ JobsFollow /\ SeedsFollow
FollowInv == ~crossed => CalmInv

LEMMA JobFacts ==
  ASSUME AccountsAssumption, StoreOK, NEW a \in Actors, job[a] # Null
  PROVE  /\ job[a].next \in UserSteps => job[a].user # Null /\ job[a].user \in Users /\ job[a].row \in Rows
         /\ job[a].next \in GroupSteps => job[a].user = Null /\ job[a].perms \in Perms
                                          /\ job[a].group \in Groups \cup {Null}
         /\ job[a].next \in UserSteps \cup GroupSteps
         /\ job[a].user # Null => job[a].next \in UserSteps
<1>1. job[a] \in UserJobs \cup GroupJobs
  BY DEF StoreOK
<1>2. Null \notin Users
  BY DEF AccountsAssumption
<1> QED BY <1>1, <1>2 DEF UserJobs, GroupJobs, UserSteps, GroupSteps, Looks

LEMMA JobFactsPrime ==
  ASSUME AccountsAssumption, StoreOK', NEW a \in Actors, job'[a] # Null
  PROVE  /\ job'[a].next \in UserSteps \cup GroupSteps
         /\ job'[a].user # Null <=> job'[a].next \in UserSteps
<1>1. job'[a] \in UserJobs \cup GroupJobs
  BY DEF StoreOK
<1>2. Null \notin Users
  BY DEF AccountsAssumption
<1> QED BY <1>1, <1>2 DEF UserJobs, GroupJobs, UserSteps, GroupSteps, Looks

(* While no request about a group is under way, the rows follow at once.   *)
LEMMA QuietRows ==
  ASSUME AccountsAssumption, StoreOK, RowsFollow,
         \A b \in Actors : Busy(b) => job[b].user # Null
  PROVE  /\ \A b \in Actors : \A g : ~Saving(b, g)
         /\ \A u \in Users : user[u] # Null => Follows(user[u])
<1>1. \A b \in Actors : \A g : ~Saving(b, g)
  BY JobFacts DEF Saving, Busy, GroupSteps, UserSteps, Looks
<1> QED BY <1>1 DEF RowsFollow, Follows

(* A request begins that overlaps none about a group, or is about a group  *)
(* and overlaps none.                                                      *)
LEMMA BeginFollows ==
  ASSUME AccountsAssumption, StoreOK, StoreOK', FollowInv, NEW a \in Actors, NEW j, Begin(a, j),
         (\A u \in Users : user[u] # Null => Follows(user[u])) =>
           (j.next \in UserSteps \ {"sign"} => Sound(j)),
         j.next = "saveGroup" => j.perms = group[j.group],
         j.next # "seedUser"
  PROVE  FollowInv'
<1> SUFFICES ASSUME ~crossed' PROVE CalmInv'
  BY DEF FollowInv
<1>1. /\ job[a] = Null /\ job' = [job EXCEPT ![a] = j] /\ UNCHANGED <<user, group, admin>>
      /\ ~crossed /\ \A b \in Actors : job[b] # Null => ~Conflict(job[b], j)
  BY DEF Begin, rows
<1>2. CalmInv
  BY <1>1 DEF FollowInv
<1>3. job'[a] = j /\ \A b \in Actors : b # a => job'[b] = job[b]
  BY <1>1 DEF StoreOK
<1>4. CASE j = Null
  BY <1>4, <1>1, <1>2, <1>3
     DEF CalmInv, Alone, RowsFollow, JobsFollow, SeedsFollow, Busy, Saving, Sound, Follows, Renewed, There
<1>5. CASE j.next = "sign"
  <2>1. \A b \in Actors : (Busy(b)' <=> Busy(b)) /\ (Busy(b) => job'[b] = job[b])
                          /\ \A g : Saving(b, g)' <=> Saving(b, g)
    BY <1>1, <1>3, <1>5 DEF Busy, Saving
  <2>2. Alone' /\ RowsFollow'
    BY <1>1, <1>2, <2>1 DEF CalmInv, Alone, RowsFollow, Saving, Busy, There
  <2>3. JobsFollow' /\ SeedsFollow'
    BY <1>1, <1>2, <1>3, <1>5 DEF CalmInv, JobsFollow, SeedsFollow, Sound, Follows, Renewed, There
  <2> QED BY <2>2, <2>3 DEF CalmInv
<1>6. CASE j # Null /\ j.next # "sign" /\ j.user # Null
  <2>1. \A b \in Actors : Busy(b) => job[b].user # Null
    BY <1>1, <1>6 DEF Busy, Conflict
  <2>2. (\A b \in Actors : \A g : ~Saving(b, g)) /\ \A u \in Users : user[u] # Null => Follows(user[u])
    BY <1>2, <2>1, QuietRows DEF CalmInv
  <2>3. j.next \in UserSteps \ {"sign"} /\ Sound(j)
    <3>1. j.next \in UserSteps
      BY <1>3, <1>6, JobFactsPrime
    <3> QED BY <1>6, <2>2, <3>1
  <2>4. Alone'
    BY <1>2, <1>3, <1>6, <2>1 DEF CalmInv, Alone, Busy
  <2>5. \A b \in Actors : \A g : ~Saving(b, g)'
    BY <1>3, <2>2, <2>3 DEF Saving, UserSteps, Looks
  <2>6. RowsFollow'
    BY <1>1, <2>2, <2>5 DEF RowsFollow, Follows, There
  <2>7. JobsFollow' /\ SeedsFollow'
    BY <1>1, <1>2, <1>3, <2>3 DEF CalmInv, JobsFollow, SeedsFollow, Sound, Follows, Renewed, There
  <2> QED BY <2>4, <2>6, <2>7 DEF CalmInv
<1>7. CASE j # Null /\ j.next # "sign" /\ j.user = Null
  <2>1. \A b \in Actors : ~Busy(b)
    BY <1>1, <1>7 DEF Busy, Conflict
  <2>2. (\A b \in Actors : \A g : ~Saving(b, g)) /\ \A u \in Users : user[u] # Null => Follows(user[u])
    BY <1>2, <2>1, QuietRows DEF CalmInv
  <2>3. j.next \in GroupSteps
    BY <1>3, <1>7, JobFactsPrime
  <2>4. Alone'
    BY <1>3, <2>1 DEF Alone, Busy
  <2>5. \A b \in Actors : \A g : Saving(b, g)' => job'[b].perms = group[g]
    BY <1>1, <1>3, <2>2 DEF Saving
  <2>6. RowsFollow'
    BY <1>1, <2>2, <2>5 DEF RowsFollow, Follows, There
  <2>7. JobsFollow' /\ SeedsFollow'
    BY <1>1, <1>2, <1>3, <2>3
       DEF CalmInv, JobsFollow, SeedsFollow, Sound, Follows, Renewed, There, UserSteps, GroupSteps, Looks
  <2> QED BY <2>4, <2>6, <2>7 DEF CalmInv
<1> QED BY <1>4, <1>5, <1>6, <1>7

(* Whatever is requested: a user's row is taken as it is, with its group  *)
(* or without, and a group without changes.                                *)
LEMMA RequestFollows ==
  ASSUME AccountsAssumption, StoreOK, StoreOK', FollowInv, NEW a \in Actors, Request(a)
  PROVE  FollowInv'
<1>1. ASSUME NEW next \in UserSteps, NEW u \in Users, NEW r, Begin(a, UserJob(next, u, r)),
             (\A v \in Users : user[v] # Null => Follows(user[v])) =>
               (next \in {"insertUser", "saveUser"} => Follows(r))
      PROVE  FollowInv'
  <2>1. PICK j : j = UserJob(next, u, r)
    OBVIOUS
  <2>2. Begin(a, j) /\ j.next = next /\ j.group = r.group /\ j.row = r
    BY <1>1, <2>1 DEF UserJob
  <2>3. (\A v \in Users : user[v] # Null => Follows(user[v])) =>
          (j.next \in UserSteps \ {"sign"} => Sound(j))
    BY <1>1, <2>2 DEF Sound
  <2>4. j.next # "saveGroup" /\ j.next # "seedUser"
    BY <2>2 DEF UserSteps, Looks
  <2> QED BY <2>2, <2>3, <2>4, BeginFollows
<1>2. ASSUME NEW next \in {"saveGroup", "syncUsers", "unassign", "seedGroup"}, NEW g, NEW p,
             Begin(a, GroupJob(next, g, p)), next = "saveGroup" => p = group[g]
      PROVE  FollowInv'
  <2>1. PICK j : j = GroupJob(next, g, p)
    OBVIOUS
  <2>2. Begin(a, j) /\ j.next = next /\ j.group = g /\ j.perms = p
    BY <1>2, <2>1 DEF GroupJob
  <2>3. j.next \notin UserSteps /\ j.next # "seedUser"
    BY <2>2 DEF UserSteps, Looks
  <2> QED BY <1>2, <2>2, <2>3, BeginFollows
<1>3. CASE CreateUser(a)
  <2>1. PICK u \in Users, p \in Perms, g \in Groups \cup {Null} :
          Begin(a, UserJob(IF g = Null THEN "insertUser" ELSE "insertMember", u, Row(TRUE, p, g)))
    BY <1>3 DEF CreateUser
  <2>2. PICK next, r : next = (IF g = Null THEN "insertUser" ELSE "insertMember") /\ r = Row(TRUE, p, g)
    OBVIOUS
  <2>3. next \in UserSteps /\ (next \in {"insertUser", "saveUser"} => Follows(r))
    BY <2>2 DEF Row, Follows, UserSteps, Looks
  <2> QED BY <1>1, <2>1, <2>2, <2>3
<1>4. CASE UpdateUser(a)
  <2>1. PICK u \in Users, active \in BOOLEAN, p \in Perms \cup {Null},
             g \in Groups \cup {Null, "as it is"} :
          /\ user[u] # Null
          /\ Begin(a, UserJob(IF g \in Groups THEN "findGroup" ELSE "saveUser", u,
                              Assigned(user[u], active, g, p)))
    BY <1>4 DEF UpdateUser
  <2>2. PICK next, r : /\ next = (IF g \in Groups THEN "findGroup" ELSE "saveUser")
                       /\ r = Assigned(user[u], active, g, p)
    OBVIOUS
  <2>3. user[u] \in Rows
    BY <2>1 DEF StoreOK
  <2>4. next \in UserSteps
    BY <2>2 DEF UserSteps, Looks
  <2>5. ASSUME Follows(user[u]), g \notin Groups
        PROVE  Follows(r)
    BY <2>2, <2>3, <2>5 DEF Assigned, Follows, Rows
  <2>6. next \in {"insertUser", "saveUser"} => g \notin Groups
    BY <2>2
  <2> QED BY <1>1, <2>1, <2>2, <2>4, <2>5, <2>6
<1>5. CASE DeleteUser(a)
  <2>1. PICK u \in Users : user[u] # Null /\ Begin(a, UserJob("saveUser", u, [user[u] EXCEPT !.active = FALSE]))
    BY <1>5 DEF DeleteUser
  <2>2. PICK r : r = [user[u] EXCEPT !.active = FALSE]
    OBVIOUS
  <2>3. Follows(user[u]) => Follows(r)
    BY <2>1, <2>2 DEF StoreOK, Rows, Follows
  <2>4. "saveUser" \in UserSteps
    BY DEF UserSteps
  <2> QED BY <1>1, <2>1, <2>2, <2>3, <2>4
<1>6. CASE UpdateProfile(a)
  BY <1>1, <1>6 DEF UpdateProfile, UserSteps
<1>7. CASE UpdateGroup(a)
  BY <1>2, <1>7 DEF UpdateGroup
<1>8. CASE DeleteGroup(a)
  BY <1>2, <1>8 DEF DeleteGroup
<1>9. CASE Seed(a)
  BY <1>2, <1>9 DEF Seed
<1>10. CASE Login(a)
  BY <1>1, <1>10 DEF Login, UserSteps
<1> QED
  BY <1>3, <1>4, <1>5, <1>6, <1>7, <1>8, <1>9, <1>10 DEF Request

(* A request about a user goes on: nobody writes a group meanwhile.        *)
LEMMA UserStatementFollows ==
  ASSUME AccountsAssumption, StoreOK, FollowInv, NEW a \in Actors, job[a] # Null, FindGroup(a) \/ SaveUser(a)
  PROVE  FollowInv'
<1> SUFFICES ASSUME ~crossed' PROVE CalmInv'
  BY DEF FollowInv
<1>1. PICK j : j = job[a]
  OBVIOUS
<1>2. CalmInv /\ UNCHANGED <<group, admin>>
  BY DEF FindGroup, SaveUser, Go, Done, rows, FollowInv
<1>3. /\ j.next \in {"findGroup", "insertMember", "saveUser", "insertUser"} /\ j.next \in UserSteps \ {"sign"}
      /\ Busy(a) /\ j.user # Null /\ j.user \in Users /\ j.row \in Rows /\ Sound(j)
  <2>1. j.next \in {"findGroup", "insertMember", "saveUser", "insertUser"}
    BY <1>1 DEF FindGroup, SaveUser
  <2>2. j.next \in UserSteps \ {"sign"}
    BY <2>1 DEF UserSteps, Looks
  <2> QED BY <1>1, <1>2, <2>1, <2>2, JobFacts DEF Busy, CalmInv, JobsFollow
<1>4. \A b \in Actors : Busy(b) => job[b].user # Null
  BY <1>1, <1>2, <1>3 DEF CalmInv, Alone
<1>5. (\A b \in Actors : \A g : ~Saving(b, g)) /\ \A u \in Users : user[u] # Null => Follows(user[u])
  BY <1>2, <1>4, QuietRows DEF CalmInv
<1>6. CASE FindGroup(a)
  <2>1. PICK r, next : /\ r = IF There(j.group) THEN [j.row EXCEPT !.perms = group[j.group], !.apart = FALSE] ELSE j.row
                       /\ next = IF j.next = "findGroup" THEN "saveUser" ELSE "insertUser"
    OBVIOUS
  <2>2. PICK k : k = UserJob(next, j.user, r)
    OBVIOUS
  <2>3. job' = [job EXCEPT ![a] = k] /\ UNCHANGED user
    BY <1>1, <1>6, <2>1, <2>2 DEF FindGroup, Go, rows
  <2>4. job'[a] = k /\ \A b \in Actors : b # a => job'[b] = job[b]
    BY <2>3 DEF StoreOK
  <2>5. k.next = next /\ k.user = j.user /\ k.row = r /\ k.group = r.group /\ r.group = j.group
    BY <1>3, <2>1, <2>2 DEF UserJob, Rows, Sound
  <2>6. k.next # "saveGroup" /\ k.next # "seedUser" /\ k.next # "sign"
    BY <2>1, <2>5
  <2>7. j.group # Null
    BY <1>1, <1>3, <1>6 DEF FindGroup, StoreOK, UserJobs, GroupJobs, Looks, GroupSteps
  <2>8. Follows(r) \/ ~There(j.group)
    BY <1>3, <2>1 DEF Follows, Rows, Sound
  <2>9. Sound(k)
    BY <2>5, <2>7, <2>8 DEF Sound
  <2>10. Alone'
    BY <1>3, <1>4, <2>4, <2>5, <2>6 DEF Alone, Busy
  <2>11. \A b \in Actors : \A g : ~Saving(b, g)'
    BY <1>5, <2>4, <2>6 DEF Saving
  <2>12. RowsFollow'
    BY <1>2, <1>5, <2>3, <2>11 DEF RowsFollow, Follows, There
  <2>13. JobsFollow' /\ SeedsFollow'
    BY <1>2, <2>4, <2>6, <2>9 DEF CalmInv, JobsFollow, SeedsFollow, Sound, Follows, Renewed, There
  <2> QED BY <2>10, <2>12, <2>13 DEF CalmInv
<1>7. CASE SaveUser(a)
  <2>1. /\ job' = [job EXCEPT ![a] = Null] /\ j.next \in {"saveUser", "insertUser"}
        /\ user' = user \/ (user' = [user EXCEPT ![j.user] = j.row] /\ (j.group # Null => There(j.group)))
    BY <1>1, <1>7 DEF SaveUser, Done, Go
  <2>2. job'[a] = Null /\ \A b \in Actors : b # a => job'[b] = job[b]
    BY <2>1 DEF StoreOK
  <2>3. \A u \in Users : user'[u] # Null => Follows(user'[u])
    <3>1. CASE user' = user
      BY <1>5, <3>1
    <3>2. CASE user' = [user EXCEPT ![j.user] = j.row] /\ (j.group # Null => There(j.group))
      <4>1. Follows(j.row)
        BY <1>3, <2>1, <3>2 DEF Sound, Follows
      <4> QED BY <1>3, <1>5, <3>2, <4>1 DEF StoreOK
    <3> QED BY <2>1, <3>1, <3>2
  <2>4. \A b \in Actors : \A g : ~Saving(b, g)'
    BY <1>5, <2>2 DEF Saving
  <2>5. RowsFollow'
    BY <1>2, <2>3, <2>4 DEF RowsFollow, Follows, There
  <2>6. Alone'
    BY <1>2, <2>2 DEF CalmInv, Alone, Busy
  <2>7. JobsFollow' /\ SeedsFollow'
    BY <1>2, <2>2 DEF CalmInv, JobsFollow, SeedsFollow, Sound, Follows, Renewed, There
  <2> QED BY <2>5, <2>6, <2>7 DEF CalmInv
<1> QED BY <1>6, <1>7

(* A request about a group goes on, alone but for logins.                  *)
Written(r, k) ==
  r.group # Null =>
    /\ group'[r.group] \notin {"unused", "gone"}
    /\ ~r.apart => r.perms = IF k # Null /\ k.next = "saveGroup" /\ k.group = r.group
                             THEN k.perms ELSE group'[r.group]

LEMMA GroupGoesOn ==
  ASSUME AccountsAssumption, StoreOK, CalmInv, NEW a \in Actors, Busy(a), job[a].user = Null,
         NEW k, job' = [job EXCEPT ![a] = k], k = Null \/ k.next \in GroupSteps,
         k # Null => Renewed(k)',
         \A u \in Users : user'[u] # Null => Written(user'[u], k)
  PROVE  CalmInv'
<1>1. job'[a] = k /\ \A b \in Actors : b # a => job'[b] = job[b] /\ ~Busy(b)
  BY DEF StoreOK, CalmInv, Alone
<1>2. k # Null => k.next \notin UserSteps
  BY DEF GroupSteps, UserSteps, Looks
<1>3. \A b \in Actors : b # a => ~Busy(b)' /\ \A g : ~Saving(b, g)'
  BY <1>1 DEF Busy, Saving
<1>4. Alone'
  BY <1>3 DEF Alone
<1>5. RowsFollow'
  BY <1>1, <1>3 DEF RowsFollow, Written, Saving, There
<1>6. JobsFollow'
  BY <1>1, <1>2, <1>3 DEF JobsFollow, Busy
<1>7. SeedsFollow'
  BY <1>1, <1>3 DEF SeedsFollow, Renewed, Busy
<1> QED BY <1>4, <1>5, <1>6, <1>7 DEF CalmInv

LEMMA GroupStatementFollows ==
  ASSUME AccountsAssumption, StoreOK, StoreOK', FollowInv, NEW a \in Actors, job[a] # Null,
         \/ SyncUsers(a) \/ SaveGroup(a) \/ Unassign(a) \/ RemoveGroup(a) \/ SeedGroup(a) \/ SeedUser(a)
  PROVE  FollowInv'
<1> SUFFICES ASSUME ~crossed' PROVE CalmInv'
  BY DEF FollowInv
<1>1. PICK j : j = job[a]
  OBVIOUS
<1>2. CalmInv
  BY DEF SyncUsers, SaveGroup, Unassign, RemoveGroup, SeedGroup, SeedUser, Go, Done, FollowInv
<1>3. /\ j.next \in GroupSteps /\ Busy(a) /\ j.user = Null /\ j.perms \in Perms
      /\ j.group \in Groups \cup {Null} /\ Renewed(j)
  <2>1. j.next \in GroupSteps
    BY <1>1 DEF SyncUsers, SaveGroup, Unassign, RemoveGroup, SeedGroup, SeedUser, GroupSteps
  <2>2. j.next # "sign"
    BY <2>1 DEF GroupSteps
  <2> QED BY <1>1, <1>2, <2>1, <2>2, JobFacts DEF Busy, CalmInv, SeedsFollow
<1>4. \A b \in Actors : b # a => ~Busy(b)
  BY <1>1, <1>2, <1>3 DEF CalmInv, Alone
<1>5. \A u \in Users : user[u] # Null /\ user[u].group # Null =>
        /\ user[u].group \in Groups /\ There(user[u].group)
        /\ ~user[u].apart =>
             user[u].perms = IF j.next = "saveGroup" /\ j.group = user[u].group THEN j.perms ELSE group[user[u].group]
  <2>1. \A b \in Actors : \A g : b # a => ~Saving(b, g)
    BY <1>4 DEF Busy, Saving
  <2>2. \A g : Saving(a, g) <=> j.next = "saveGroup" /\ j.group = g
    BY <1>1 DEF Saving
  <2>3. \A u \in Users : user[u] # Null => user[u].group \in Groups \cup {Null}
    BY DEF StoreOK, Rows
  <2> QED BY <1>1, <1>2, <2>1, <2>2, <2>3 DEF CalmInv, RowsFollow
<1>6. \A u \in Users : user[u] # Null => user[u] \in Rows /\ user[u] # Null
  BY DEF StoreOK
<1>7. \A g : group[g] \in Perms => There(g)
  BY DEF There, AccountsAssumption
<1>8. CASE SyncUsers(a)
  <2>1. PICK k : k = GroupJob("saveGroup", j.group, j.perms)
    OBVIOUS
  <2>2. k.next = "saveGroup" /\ k.group = j.group /\ k.perms = j.perms
    BY <2>1 DEF GroupJob
  <2>3. /\ j.next = "syncUsers" /\ job' = [job EXCEPT ![a] = k] /\ group' = group
        /\ \A u \in Users : user'[u] = IF Member(user[u], j.group)
                                       THEN [user[u] EXCEPT !.perms = j.perms, !.apart = FALSE]
                                       ELSE user[u]
    BY <1>1, <1>8, <2>1 DEF SyncUsers, Go
  <2>4. j.group # Null => k # Null
    BY <1>3, <2>1 DEF AccountsAssumption
  <2>5. ASSUME NEW u \in Users, user'[u] # Null
        PROVE  Written(user'[u], k)
    <3>1. CASE Member(user[u], j.group)
      <4>1. user'[u].group = j.group /\ user'[u].perms = j.perms
        BY <1>6, <2>3, <3>1 DEF Member, Rows
      <4>2. j.group # Null => There(j.group)
        BY <1>5, <3>1 DEF Member
      <4> QED BY <2>2, <2>3, <2>4, <4>1, <4>2 DEF Written, There
    <3>2. CASE ~Member(user[u], j.group)
      BY <1>5, <2>2, <2>3, <2>5, <3>2 DEF Written, There, Member
    <3> QED BY <3>1, <3>2
  <2>6. k.next \in GroupSteps /\ Renewed(k)'
    BY <2>2 DEF GroupSteps, Renewed
  <2> QED BY <1>1, <1>2, <1>3, <2>3, <2>5, <2>6, GroupGoesOn
<1>9. CASE SaveGroup(a)
  <2>1. /\ j.next = "saveGroup" /\ job' = [job EXCEPT ![a] = Null] /\ user' = user
        /\ group' = [group EXCEPT ![j.group] = j.perms]
    BY <1>1, <1>9 DEF SaveGroup, Done, Go
  <2>2. \A g \in Groups : group'[g] = IF g = j.group THEN j.perms ELSE group[g]
    BY <2>1 DEF StoreOK
  <2>3. \A g \in Groups : There(g) => There(g)'
    BY <1>3, <2>2 DEF There, AccountsAssumption
  <2>4. \A u \in Users : user'[u] # Null => Written(user'[u], Null)
    BY <1>5, <2>1, <2>2, <2>3 DEF Written, There
  <2> QED BY <1>1, <1>2, <1>3, <2>1, <2>4, GroupGoesOn
<1>10. CASE Unassign(a) \/ RemoveGroup(a)
  <2>1. PICK k : k = IF j.next = "unassign" THEN GroupJob("removeGroup", j.group, j.perms) ELSE Null
    OBVIOUS
  <2>2. /\ j.next \in {"unassign", "removeGroup"} /\ job' = [job EXCEPT ![a] = k]
        /\ user' = Unassigned(j.group)
        /\ group' = group \/ group' = [group EXCEPT ![j.group] = "gone"]
    BY <1>1, <1>10, <2>1 DEF Unassign, RemoveGroup, Done, Go
  <2>3. k = Null \/ k.next = "removeGroup"
    BY <2>1 DEF GroupJob
  <2>4. ASSUME NEW u \in Users, user'[u] # Null
        PROVE  Written(user'[u], k)
    <3>1. user'[u] = IF Member(user[u], j.group) THEN [user[u] EXCEPT !.group = Null] ELSE user[u]
      BY <2>2 DEF Unassigned
    <3>2. CASE Member(user[u], j.group)
      BY <1>6, <3>1, <3>2 DEF Member, Rows, Written
    <3>3. CASE ~Member(user[u], j.group) /\ user[u].group # Null
      <4>1. user[u].group \in Groups /\ group'[user[u].group] = group[user[u].group]
        BY <1>5, <2>2, <2>4, <3>1, <3>3 DEF Member, StoreOK
      <4> QED BY <1>5, <2>2, <2>3, <2>4, <3>1, <3>3, <4>1 DEF Written, There
    <3> QED BY <3>1, <3>2, <3>3 DEF Written
  <2>5. k # Null => k.next \in GroupSteps /\ Renewed(k)'
    BY <2>3 DEF GroupSteps, Renewed
  <2> QED BY <1>1, <1>2, <1>3, <2>2, <2>4, <2>5, GroupGoesOn
<1>11. CASE SeedGroup(a)
  <2>1. PICK g \in Groups :
          /\ job' = [job EXCEPT ![a] = GroupJob("seedUser", g, All)]
          /\ \/ group[g] = "unused" /\ group' = [group EXCEPT ![g] = All] /\ user' = user
             \/ /\ group' = IF There(g) THEN [group EXCEPT ![g] = All] ELSE group
                /\ user' = [u \in Users |-> IF Member(user[u], g) /\ There(g)
                                            THEN [user[u] EXCEPT !.apart = TRUE] ELSE user[u]]
    BY <1>1, <1>3, <1>11 DEF SeedGroup, Go
  <2>2. PICK k : k = GroupJob("seedUser", g, All)
    OBVIOUS
  <2>3. k.next = "seedUser" /\ k.group = g /\ All \in Perms
    BY <2>2 DEF GroupJob, AccountsAssumption
  <2>4. \A h \in Groups : h # g => group'[h] = group[h]
    BY <2>1 DEF StoreOK
  <2>5. There(g)' => group'[g] = All
    BY <2>1, <2>3 DEF There, StoreOK
  <2>6. There(g) => There(g)'
    BY <1>7, <2>1, <2>3 DEF There, StoreOK, AccountsAssumption
  <2>7. j.next = "seedGroup"
    BY <1>1, <1>11 DEF SeedGroup
  <2>8. ASSUME NEW u \in Users, user'[u] # Null
        PROVE  Written(user'[u], k)
    <3>1. user[u] # Null => user[u] \in Rows
      BY <1>6
    <3>2. CASE user'[u] = user[u] /\ (user[u].group = g => ~There(g))
      BY <1>5, <2>3, <2>4, <2>8, <2>7, <3>2 DEF Written, There
    <3>3. CASE Member(user[u], g) /\ There(g) /\ user'[u] = [user[u] EXCEPT !.apart = TRUE]
      BY <2>6, <3>1, <3>3 DEF Member, Written, Rows, There
    <3> QED BY <1>5, <2>1, <2>8, <3>2, <3>3 DEF Member, There
  <2>9. k.next \in GroupSteps /\ Renewed(k)'
    BY <2>3, <2>5 DEF GroupSteps, Renewed
  <2> QED BY <1>1, <1>2, <1>3, <2>1, <2>2, <2>8, <2>9, GroupGoesOn
<1>12. CASE SeedUser(a)
  <2>1. PICK r : r = Row(IF user[Admin] = Null THEN TRUE ELSE user[Admin].active, All, j.group)
    OBVIOUS
  <2>2. /\ j.next = "seedUser" /\ job' = [job EXCEPT ![a] = Null] /\ group' = group
        /\ user' = IF ~There(j.group) THEN user ELSE [user EXCEPT ![Admin] = r]
    BY <1>1, <1>12, <2>1 DEF SeedUser, Done, Go
  <2>3. There(j.group) => group[j.group] = All
    BY <1>3, <2>2 DEF Renewed
  <2>4. r.group = j.group /\ r.perms = All
    BY <2>1 DEF Row
  <2>5. ASSUME NEW u \in Users, user'[u] # Null
        PROVE  Written(user'[u], Null)
    <3>1. CASE user'[u] = user[u]
      BY <1>5, <2>2, <2>5, <3>1 DEF Written, There
    <3>2. CASE There(j.group) /\ user'[u] = r
      BY <2>2, <2>3, <2>4, <3>2 DEF Written, There
    <3> QED BY <2>2, <3>1, <3>2 DEF StoreOK
  <2> QED BY <1>1, <1>2, <1>3, <2>2, <2>5, GroupGoesOn
<1> QED BY <1>8, <1>9, <1>10, <1>11, <1>12

LEMMA FollowStep == AccountsAssumption /\ TokenInv /\ TokenInv' /\ FollowInv /\ [Next]_vars => FollowInv'
<1> SUFFICES ASSUME AccountsAssumption, TokenInv, TokenInv', FollowInv, [Next]_vars
             PROVE  FollowInv'
  OBVIOUS
<1>1. StoreOK /\ StoreOK'
  BY DEF TokenInv
<1>2. ASSUME UNCHANGED <<user, group, job, crossed>>
      PROVE  FollowInv'
  BY <1>2 DEF FollowInv, CalmInv, Alone, RowsFollow, JobsFollow, SeedsFollow, Busy, Saving, Sound, Follows, Renewed, There
<1>3. ASSUME NEW a \in Actors, Statement(a)
      PROVE  FollowInv'
  <2>1. CASE Sign(a)
    <3>1. /\ job' = [job EXCEPT ![a] = Null] /\ job[a].next = "sign" /\ UNCHANGED <<user, group, crossed>>
      BY <2>1 DEF Sign, rows
    <3>2. job'[a] = Null /\ \A b \in Actors : b # a => job'[b] = job[b]
      BY <1>1, <3>1 DEF StoreOK
    <3>3. \A b \in Actors : (Busy(b)' <=> Busy(b)) /\ \A g : Saving(b, g)' <=> Saving(b, g)
      BY <3>1, <3>2 DEF Busy, Saving
    <3>4. CalmInv => Alone' /\ RowsFollow'
      BY <3>1, <3>2, <3>3 DEF CalmInv, Alone, RowsFollow, Busy, Saving, There
    <3>5. CalmInv => JobsFollow' /\ SeedsFollow'
      BY <3>1, <3>2 DEF CalmInv, JobsFollow, SeedsFollow, Sound, Follows, Renewed, There
    <3> QED BY <3>1, <3>4, <3>5 DEF FollowInv, CalmInv
  <2> QED BY <1>1, <1>3, <2>1, UserStatementFollows, GroupStatementFollows DEF Statement
<1>4. CASE CreateGroup
  <2>1. PICK g \in Groups, p \in Perms :
          /\ group[g] = "unused" /\ group' = [group EXCEPT ![g] = p] /\ UNCHANGED <<user, job>>
          /\ crossed' = (crossed \/ \E a \in Actors : job[a] # Null /\ job[a].group = g)
    BY <1>4 DEF CreateGroup
  <2> SUFFICES ASSUME ~crossed' PROVE CalmInv'
    BY DEF FollowInv
  <2>2. CalmInv /\ \A a \in Actors : job[a] # Null => job[a].group # g
    BY <2>1 DEF FollowInv
  <2>3. \A h : h # g => group'[h] = group[h] /\ (There(h)' <=> There(h))
    BY <1>1, <2>1 DEF StoreOK, There
  <2>4. ~There(g)
    BY <2>1 DEF There
  <2>5. Alone' /\ SeedsFollow'
    BY <2>1, <2>2, <2>3 DEF CalmInv, Alone, Busy, SeedsFollow, Renewed
  <2>6. RowsFollow'
    BY <2>1, <2>2, <2>3, <2>4 DEF CalmInv, RowsFollow, Saving
  <2>7. JobsFollow'
    BY <2>1, <2>2, <2>3 DEF CalmInv, JobsFollow, Sound, Follows
  <2> QED BY <2>5, <2>6, <2>7 DEF CalmInv
<1>5. CASE Restart
  <2>1. /\ job' = [a \in Actors |-> Null] /\ UNCHANGED <<user, group>>
        /\ crossed' = (crossed \/ \E a \in Actors : job[a] # Null /\ job[a].next = "saveGroup")
    BY <1>5 DEF Restart, rows
  <2> SUFFICES ASSUME ~crossed' PROVE CalmInv'
    BY DEF FollowInv
  <2>2. CalmInv /\ \A a \in Actors : \A g : ~Saving(a, g)
    BY <2>1 DEF FollowInv, Saving
  <2>3. \A a \in Actors : job'[a] = Null
    BY <2>1
  <2>4. Alone' /\ JobsFollow' /\ SeedsFollow'
    BY <2>3 DEF Alone, JobsFollow, SeedsFollow, Busy
  <2>5. RowsFollow'
    BY <2>1, <2>2, <2>3 DEF CalmInv, RowsFollow, There, Saving
  <2> QED BY <2>4, <2>5 DEF CalmInv
<1>6. CASE Refresh \/ Tick
  BY <1>2, <1>6 DEF Refresh, Tick, rows
<1>7. CASE UNCHANGED vars
  BY <1>2, <1>7 DEF vars, rows
<1> QED
  BY <1>1, <1>3, <1>4, <1>5, <1>6, <1>7, RequestFollows DEF Next

LEMMA FollowInit == AccountsAssumption /\ Init => FollowInv
<1> SUFFICES ASSUME AccountsAssumption, Init
             PROVE  FollowInv
  OBVIOUS
<1>1. PICK g \in Groups :
        /\ user = [u \in Users |-> IF u = Admin THEN Row(TRUE, All, g) ELSE Null]
        /\ group = [h \in Groups |-> IF h = g THEN All ELSE "unused"]
        /\ job = [a \in Actors |-> Null]
  BY DEF Init
<1>2. group[g] = All /\ There(g)
  BY <1>1 DEF There, AccountsAssumption
<1>3. RowsFollow
  BY <1>1, <1>2 DEF RowsFollow, Row, Saving
<1> QED BY <1>1, <1>3 DEF FollowInv, CalmInv, Alone, JobsFollow, SeedsFollow, Busy

(* Between requests a member has the permissions of the group, for any     *)
(* users, groups and requests at a time, if no request about a group       *)
(* overlaps another one or is cut off: requests about users may, even      *)
(* about the same one.                                                     *)
THEOREM MembersFollow == ASSUME AccountsAssumption PROVE Spec => []MembersFollowTheirGroup
<1>1. FollowInv => MembersFollowTheirGroup
  BY DEF FollowInv, CalmInv, RowsFollow, MembersFollowTheirGroup, Saving
<1>2. Init => TokenInv /\ FollowInv
  BY TokenInit, FollowInit
<1>3. TokenInv /\ [Next]_vars => TokenInv'
  BY TokenStep
<1>4. TokenInv /\ TokenInv' /\ FollowInv /\ [Next]_vars => FollowInv'
  BY FollowStep
<1> QED
  BY <1>1, <1>2, <1>3, <1>4, PTL DEF Spec
=============================================================================
