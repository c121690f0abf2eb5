------------------------------ MODULE Accounts ------------------------------
(***************************************************************************)
(* Users, permission groups and tokens (src/src/auth).  A member of a      *)
(* group has a copy of the group's permissions; an access token carries    *)
(* the permissions of its user until it expires.  Each request runs        *)
(* statement by statement between those of the others; a save of TypeORM   *)
(* compares the entity with the row and so writes the whole entity that    *)
(* was read earlier.  Names, passwords and avatars are left out.           *)
(***************************************************************************)
EXTENDS Naturals, FiniteSets

CONSTANTS
  Users, Groups, Actors,
  Perms,        (* sets of permissions, as values                          *)
  All,          (* ALL_PERMISSIONS of seed-admin                           *)
  Managing,     (* the members of Perms that have user-management          *)
  Admin,        (* the user of ADMIN_USERNAME                              *)
  AuthEnabled,
  Expiry,       (* ticks of the clock that an access token lives           *)
  MaxRequests, MaxRestarts,   (* bounds                                    *)
  Null

(* A row of users.  apart: the permissions were set for this user alone,   *)
(* or left behind by seed-admin, which renews its group and not the        *)
(* members.                                                                *)
Rows == [active : BOOLEAN, perms : Perms, group : Groups \cup {Null}, apart : BOOLEAN]
Row(active, perms, g) == [active |-> active, perms |-> perms, group |-> g, apart |-> FALSE]

(* A request: the statement it runs next and what it has read.            *)
UserJob(next, u, row) == [next |-> next, user |-> u, row |-> row, group |-> row.group]
GroupJob(next, g, perms) == [next |-> next, user |-> Null, row |-> Null, group |-> g, perms |-> perms]

AccountsAssumption ==
  /\ Managing \subseteq Perms /\ All \in Managing /\ Admin \in Users /\ Groups # {}
  /\ Null \notin Users \cup Groups \cup Perms \cup Rows
  /\ \A g \in Groups, p \in Perms : GroupJob("saveGroup", g, p) # Null
  /\ {"unused", "gone"} \cap Perms = {} /\ "as it is" \notin Groups \cup {Null}
  /\ AuthEnabled \in BOOLEAN /\ {Expiry, MaxRequests, MaxRestarts} \subseteq Nat

VARIABLES
  user,      (* users: Null before the insert                              *)
  group,     (* permission_groups: the permissions, "unused" or "gone"     *)
  admin,     (* the group whose name is Admin                              *)
  tokens,    (* access tokens that have not expired                        *)
  refresh,   (* users with a refresh token, which outlives every run       *)
  job,       (* each actor's request: the statement it runs next           *)
  crossed,   (* a request about a group overlapped another one, or was cut *)
             (* off                                                        *)
  had,       (* ticks since the user was active with these permissions     *)
  requests, restarts

rows == <<user, group, admin>>
vars == <<rows, tokens, refresh, job, crossed, had, requests, restarts>>

There(g) == group[g] \notin {"unused", "gone"}

Init ==
  \E g \in Groups :
    /\ user = [u \in Users |-> IF u = Admin THEN Row(TRUE, All, g) ELSE Null]
    /\ group = [h \in Groups |-> IF h = g THEN All ELSE "unused"] /\ admin = g
    /\ tokens = {} /\ refresh = {}
    /\ job = [a \in Actors |-> Null] /\ crossed = FALSE
    /\ had = [u \in Users |-> [p \in Perms |-> IF u = Admin /\ p = All THEN 0 ELSE Expiry]]
    /\ requests = 0 /\ restarts = 0

-----------------------------------------------------------------------------
(* ConditionalAuthGuard and PermissionsGuard: nobody asks the database.    *)
MayManage == AuthEnabled => \E t \in tokens : t.perms \in Managing
SignedIn(u) == \E t \in tokens : t.user = u

Conflict(j, k) ==
  /\ j.next # "sign" /\ k.next # "sign"
  /\ j.user = Null \/ k.user = Null

Begin(a, j) ==
  /\ job[a] = Null /\ requests < MaxRequests /\ requests' = requests + 1
  /\ job' = [job EXCEPT ![a] = j]
  /\ crossed' = (crossed \/ \E b \in Actors : job[b] # Null /\ Conflict(job[b], j))
  /\ UNCHANGED <<rows, tokens, refresh, restarts>>

Go(a, j) ==
  job' = [job EXCEPT ![a] = j] /\ UNCHANGED <<tokens, refresh, crossed, requests, restarts>>
Done(a) == Go(a, Null)

(* createUser, up to the read of its group.                                *)
CreateUser(a) ==
  \E u \in Users, p \in Perms, g \in Groups \cup {Null} :
    /\ MayManage /\ user[u] = Null
    /\ Begin(a, UserJob(IF g = Null THEN "insertUser" ELSE "insertMember", u, Row(TRUE, p, g)))

(* updateUser after its read: permissions of its own only without a group. *)
Assigned(row, active, g, p) ==
  LET r == [row EXCEPT !.active = active, !.group = IF g = "as it is" THEN @ ELSE g]
  IN  IF g \in Groups \/ p = Null THEN r ELSE [r EXCEPT !.perms = p, !.apart = TRUE]

UpdateUser(a) ==
  \E u \in Users, active \in BOOLEAN, p \in Perms \cup {Null}, g \in Groups \cup {Null, "as it is"} :
    /\ MayManage /\ user[u] # Null
    /\ Begin(a, UserJob(IF g \in Groups THEN "findGroup" ELSE "saveUser", u,
                        Assigned(user[u], active, g, p)))

DeleteUser(a) ==
  \E u \in Users :
    /\ MayManage /\ user[u] # Null
    /\ Begin(a, UserJob("saveUser", u, [user[u] EXCEPT !.active = FALSE]))

(* updateProfile; a wrong password ends it at once.                        *)
UpdateProfile(a) ==
  \E u \in Users :
    /\ SignedIn(u) /\ user[u] # Null
    /\ Begin(a, UserJob("saveUser", u, user[u]))

(* The group of createUser and of updateUser, if it is still there.        *)
FindGroup(a) ==
  LET j == job[a]
      r == IF There(j.group) THEN [j.row EXCEPT !.perms = group[j.group], !.apart = FALSE] ELSE j.row
  IN  /\ j.next \in {"findGroup", "insertMember"}
      /\ Go(a, UserJob(IF j.next = "findGroup" THEN "saveUser" ELSE "insertUser", j.user, r))
      /\ UNCHANGED rows

(* A save is refused when the group is gone, an insert when the name is    *)
(* taken.                                                                  *)
SaveUser(a) ==
  LET j == job[a]
      refused == \/ j.group # Null /\ ~There(j.group)
                 \/ j.next = "insertUser" /\ user[j.user] # Null
  IN  /\ j.next \in {"saveUser", "insertUser"}
      /\ user' = IF refused THEN user ELSE [user EXCEPT ![j.user] = j.row]
      /\ Done(a) /\ UNCHANGED <<group, admin>>

-----------------------------------------------------------------------------
CreateGroup ==
  \E g \in Groups, p \in Perms :
    /\ MayManage /\ group[g] = "unused" /\ requests < MaxRequests
    /\ group' = [group EXCEPT ![g] = p] /\ requests' = requests + 1
    /\ crossed' = (crossed \/ \E a \in Actors : job[a] # Null /\ job[a].group = g)
    /\ UNCHANGED <<user, admin, tokens, refresh, job, restarts>>

(* updateGroup: its read, the copy to all members, the save of the group,  *)
(* which inserts a group that was removed meanwhile.                       *)
UpdateGroup(a) ==
  \E g \in Groups, p \in Perms \cup {Null} :
    /\ MayManage /\ There(g)
    /\ Begin(a, IF p = Null THEN GroupJob("saveGroup", g, group[g]) ELSE GroupJob("syncUsers", g, p))

(* Faulty: the users keep the permissions they had.                        *)
SyncNobody(a) ==
  LET j == job[a]
  IN  /\ j.next = "syncUsers" /\ Go(a, GroupJob("saveGroup", j.group, j.perms))
      /\ UNCHANGED rows

Member(r, g) == r # Null /\ r.group = g

SyncUsers(a) ==
  LET j == job[a]
  IN  /\ j.next = "syncUsers" /\ Go(a, GroupJob("saveGroup", j.group, j.perms))
      /\ user' = [u \in Users |-> IF Member(user[u], j.group)
                                  THEN [user[u] EXCEPT !.perms = j.perms, !.apart = FALSE]
                                  ELSE user[u]]
      /\ UNCHANGED <<group, admin>>

SaveGroup(a) ==
  /\ job[a].next = "saveGroup" /\ Done(a)
  /\ group' = [group EXCEPT ![job[a].group] = job[a].perms]
  /\ UNCHANGED <<user, admin>>

(* deleteGroup: the members keep their permissions.                        *)
DeleteGroup(a) ==
  \E g \in Groups : MayManage /\ There(g) /\ Begin(a, GroupJob("unassign", g, group[g]))

Unassigned(g) ==
  [u \in Users |-> IF Member(user[u], g) THEN [user[u] EXCEPT !.group = Null] ELSE user[u]]

Unassign(a) ==
  LET j == job[a]
  IN  /\ j.next = "unassign" /\ Go(a, GroupJob("removeGroup", j.group, j.perms))
      /\ user' = Unassigned(j.group) /\ UNCHANGED <<group, admin>>

(* The foreign key unassigns who joined since.                             *)
RemoveGroup(a) ==
  LET g == job[a].group
  IN  /\ job[a].next = "removeGroup" /\ Done(a)
      /\ user' = Unassigned(g) /\ group' = [group EXCEPT ![g] = "gone"]
      /\ admin' = IF admin = g THEN Null ELSE admin

-----------------------------------------------------------------------------
(* seed-admin.ts, a process of its own: find the group, write it, write    *)
(* the user.                                                               *)
Seed(a) == Begin(a, GroupJob("seedGroup", admin, All))

SeedGroup(a) ==
  /\ job[a].next = "seedGroup"
  /\ \/ \E g \in Groups :
          /\ job[a].group = Null /\ group[g] = "unused"
          /\ group' = [group EXCEPT ![g] = All] /\ admin' = g
          /\ Go(a, GroupJob("seedUser", g, All)) /\ UNCHANGED user
     \/ LET g == job[a].group
        IN  /\ g # Null /\ Go(a, GroupJob("seedUser", g, All)) /\ UNCHANGED admin
            /\ group' = IF There(g) THEN [group EXCEPT ![g] = All] ELSE group
            /\ user' = [u \in Users |-> IF Member(user[u], g) /\ There(g)
                                        THEN [user[u] EXCEPT !.apart = TRUE] ELSE user[u]]

SeedUser(a) ==
  LET g == job[a].group
  IN  /\ job[a].next = "seedUser" /\ Done(a) /\ UNCHANGED <<group, admin>>
      /\ user' = IF ~There(g) THEN user
                 ELSE [user EXCEPT ![Admin] =
                         Row(IF user[Admin] = Null THEN TRUE ELSE user[Admin].active, All, g)]

-----------------------------------------------------------------------------
(* login of AuthController: validateUser reads the user, compares the      *)
(* password, and AuthService.login signs what was read.                    *)
Signed(u, perms) ==
  /\ tokens'  = IF Expiry = 0 THEN tokens ELSE tokens \cup {[user |-> u, perms |-> perms, age |-> 0]}
  /\ refresh' = refresh \cup {u}

Login(a) ==
  \E u \in Users : user[u] # Null /\ user[u].active /\ Begin(a, UserJob("sign", u, user[u]))

Sign(a) ==
  /\ job[a].next = "sign" /\ job' = [job EXCEPT ![a] = Null]
  /\ Signed(job[a].user, job[a].row.perms)
  /\ UNCHANGED <<rows, crossed, requests, restarts>>

(* Faulty: whoever has a refresh token gets a new access token.            *)
RefreshTrusting ==
  /\ \E u \in refresh : Signed(u, user[u].perms)
  /\ UNCHANGED <<rows, job, crossed, requests, restarts>>

(* refreshToken reads the user again.                                      *)
Refresh ==
  /\ \E u \in refresh : user[u].active /\ Signed(u, user[u].perms)
  /\ UNCHANGED <<rows, job, crossed, requests, restarts>>

(* Time; a login lasts less than a tick.                                   *)
Tick ==
  /\ \A a \in Actors : job[a] # Null => job[a].next # "sign"
  /\ tokens' = {[t EXCEPT !.age = @ + 1] : t \in {s \in tokens : s.age + 1 < Expiry}}
  /\ UNCHANGED <<rows, refresh, job, crossed, requests, restarts>>

(* The process ends in the middle of its requests.                         *)
Restart ==
  /\ restarts < MaxRestarts /\ restarts' = restarts + 1
  /\ crossed' = (crossed \/ \E a \in Actors : job[a] # Null /\ job[a].next = "saveGroup")
  /\ job' = [a \in Actors |-> Null]
  /\ UNCHANGED <<rows, tokens, refresh, requests>>

Request(a) ==
  \/ CreateUser(a) \/ UpdateUser(a) \/ DeleteUser(a) \/ UpdateProfile(a)
  \/ UpdateGroup(a) \/ DeleteGroup(a) \/ Seed(a) \/ Login(a)

Statement(a) ==
  /\ job[a] # Null
  /\ \/ FindGroup(a) \/ SaveUser(a) \/ SyncUsers(a) \/ SaveGroup(a) \/ Unassign(a)
     \/ RemoveGroup(a) \/ SeedGroup(a) \/ SeedUser(a) \/ Sign(a)

Has(u, p) == user'[u] # Null /\ user'[u].active /\ user'[u].perms = p
Older(n) == IF n < Expiry THEN n + 1 ELSE n

Next ==
  \/ /\ \/ \E a \in Actors : Request(a) \/ Statement(a)
        \/ CreateGroup \/ Refresh \/ Restart
     /\ had' = [u \in Users |-> [p \in Perms |-> IF Has(u, p) THEN 0 ELSE had[u][p]]]
  \/ /\ Tick
     /\ had' = [u \in Users |-> [p \in Perms |-> IF Has(u, p) THEN 0 ELSE Older(had[u][p])]]

Spec == Init /\ [][Next]_vars
-----------------------------------------------------------------------------
(* auth.service.ts 'Sync permissions to all users in this group': between  *)
(* requests, a member has the group's permissions, whatever was created,   *)
(* moved, edited or removed, unless they were set for that user alone.     *)
(* Requests about users may overlap, even about the same one; a request    *)
(* about a group that overlaps with another one may leave its members      *)
(* behind.                                                                 *)
MembersFollowTheirGroup ==
  (~crossed /\ \A a \in Actors : job[a] = Null) =>
    \A u \in Users :
      (user[u] # Null /\ user[u].group # Null /\ ~user[u].apart) =>
        user[u].perms = group[user[u].group]

(* Deactivating a user, or taking a permission away, takes effect within   *)
(* the life of one access token, however often the user refreshes it and   *)
(* whatever else is written meanwhile: nobody holds a token with           *)
(* permissions that the active user did not have in that time.             *)
RevocationTakesEffect == \A t \in tokens : had[t.user][t.perms] < Expiry
=============================================================================
