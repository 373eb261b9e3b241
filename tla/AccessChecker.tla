--------------------------- MODULE AccessChecker ---------------------------
(***************************************************************************)
(* Who may do what: server/auth/azchecker, its store client server/auth/   *)
(* fga, and the authorization model the two are used with (tls.model).     *)
(*                                                                         *)
(* The store keeps tuples: a subject has a relation to an object.  It is   *)
(* asked one question, or told one tuple, at a time; a call of the checker *)
(* is several of these, and other calls run in between.  A step is one     *)
(* request to the store or one statement of the database.  A call may fail *)
(* at any of them, or its process may crash: either way it ends there.     *)
(***************************************************************************)
CONSTANTS
  User, GlobalAdmin,   \* users; those that may do everything
  Everyone,            \* the subject user:*
  Tenant, Group, Feed, FeedVersion,
  NewGroup,            \* groups that are not there at the start
  FeedOf,              \* feed_versions.feed_id
  Initial,             \* the tuples at the start
  Request,             \* the calls that may be made
  Call,                \* calls; each is made once
  None                 \* no subject relation, no request

-----------------------------------------------------------------------------
(* Tuples.  A subject is an entity, or all who have a relation to it. *)
Entity == User \cup {Everyone} \cup Tenant \cup Group \cup Feed \cup FeedVersion
Object == Tenant \cup Group \cup Feed \cup FeedVersion
Key(x) == [id |-> x, ref |-> None]
Keys(S) == {Key(x) : x \in S}
MembersOf(S) == {[id |-> x, ref |-> "member"] : x \in S}
ViewersOf(S) == {[id |-> x, ref |-> "viewer"] : x \in S}
Tuple(s, r, o) == [subject |-> s, relation |-> r, object |-> o]
Tuples(S, R, O) == {Tuple(s, r, o) : s \in S, r \in R, o \in O}

(* The tuples the store takes: the types in brackets in tls.model. *)
Assignable ==
  UNION {Tuples(Keys(User), {"admin", "member"}, Tenant),
         Tuples({Key(Everyone)}, {"member"}, Tenant),
         Tuples(Keys(Tenant), {"parent"}, Group),
         Tuples(Keys(User), {"manager", "editor", "viewer"}, Group),
         Tuples(MembersOf(Tenant), {"editor", "viewer"}, Group),
         Tuples(Keys(Group), {"parent"}, Feed),
         Tuples(Keys(User) \cup MembersOf(Tenant) \cup ViewersOf(Group),
                {"editor", "viewer"}, FeedVersion)}

(* Op of a request: SetParent, AddPermission, RemovePermission, TenantCreateGroup. *)
RequestType ==
  [op : {"parent", "add", "remove"}, user : User, tuple : Assignable]
    \cup [op : {"create"}, user : User, tenant : Tenant]

ASSUME AccessAssumption ==
  /\ GlobalAdmin \subseteq User /\ NewGroup \subseteq Group
  /\ FeedOf \in [FeedVersion -> Feed]
  /\ Initial \subseteq Assignable /\ Request \subseteq RequestType
  /\ None \notin Request \cup Entity
  /\ None \notin Keys(Entity) \cup MembersOf(Tenant) \cup ViewersOf(Group)
  /\ \A r \in Request : r.op # "create" =>
       (r.op = "parent" <=> r.tuple.relation = "parent")

(* An entity key carries the type of the entity: ids of two types differ. *)
ASSUME KindsAssumption ==
  /\ (User \cup {Everyone}) \cap Object = {}
  /\ Tenant \cap (Group \cup Feed \cup FeedVersion) = {}
  /\ Group \cap (Feed \cup FeedVersion) = {} /\ Feed \cap FeedVersion = {}

VARIABLES
  tuples,   \* the store
  groups,   \* rows of tl_groups
  pc,       \* what a call does next
  request,  \* what it was asked for
  target,   \* the tuple it writes or deletes
  del,      \* replaceTuple: the tuples it still has to delete
  errs,     \* replaceTuple: whether a deletion has failed
  alone,    \* history: no other call has worked on the same slot since it read it
  unsettled,\* history: slots that the last call on them may have left in disorder
  authors   \* history: users whose calls have changed tuples

calls == <<pc, request, target, del, errs, alone>>
vars == <<tuples, groups, pc, request, target, del, errs, alone, unsettled, authors>>

-----------------------------------------------------------------------------
(* tls.model: who has which relation to an object, given the tuples T. *)
Named(T, u, r, o) == \E s \in Keys({u, Everyone}) : Tuple(s, r, o) \in T
Parents(T, o) == {t.subject.id : t \in {t \in T : t.object = o /\ t.relation = "parent"}}

Admin(T, u, t) == Named(T, u, "admin", t)
Member(T, u, t) == Named(T, u, "member", t) \/ Admin(T, u, t)
AsMember(T, u, r, o) ==
  \E s \in MembersOf(Tenant) : Tuple(s, r, o) \in T /\ Member(T, u, s.id)

GroupManager(T, u, g) ==
  Named(T, u, "manager", g) \/ \E t \in Parents(T, g) : Admin(T, u, t)
GroupEditor(T, u, g) ==
  Named(T, u, "editor", g) \/ AsMember(T, u, "editor", g) \/ GroupManager(T, u, g)
GroupViewer(T, u, g) ==
  Named(T, u, "viewer", g) \/ AsMember(T, u, "viewer", g) \/ GroupEditor(T, u, g)
AsViewer(T, u, r, o) ==
  \E s \in ViewersOf(Group) : Tuple(s, r, o) \in T /\ GroupViewer(T, u, s.id)

FeedManager(T, u, f) == \E g \in Parents(T, f) : GroupManager(T, u, g)
FeedEditor(T, u, f) == \E g \in Parents(T, f) : GroupEditor(T, u, g)
FeedViewer(T, u, f) == \E g \in Parents(T, f) : GroupViewer(T, u, g)

(* The parent of a feed version is not stored: contextualTuples adds it. *)
Given(T, u, r, v) == Named(T, u, r, v) \/ AsMember(T, u, r, v) \/ AsViewer(T, u, r, v)
VersionManager(T, u, v) == FeedManager(T, u, FeedOf[v])
VersionEditor(T, u, v) ==
  Given(T, u, "editor", v) \/ VersionManager(T, u, v) \/ FeedEditor(T, u, FeedOf[v])
VersionViewer(T, u, v) ==
  Given(T, u, "viewer", v) \/ VersionEditor(T, u, v) \/ FeedViewer(T, u, FeedOf[v])

(* An action the model does not define for a type is refused. *)
CanView(T, u, o) ==
  \/ o \in Tenant /\ Member(T, u, o)
  \/ o \in Group /\ GroupViewer(T, u, o)
  \/ o \in Feed /\ FeedViewer(T, u, o)
  \/ o \in FeedVersion /\ VersionViewer(T, u, o)
CanEdit(T, u, o) ==
  \/ o \in Tenant /\ Admin(T, u, o)
  \/ o \in Group /\ GroupEditor(T, u, o)
  \/ o \in Feed /\ FeedEditor(T, u, o)
  \/ o \in FeedVersion /\ VersionEditor(T, u, o)
CanEditMembers(T, u, o) ==
  \/ o \in Tenant /\ Admin(T, u, o)
  \/ o \in Group /\ GroupManager(T, u, o)
  \/ o \in FeedVersion /\ VersionManager(T, u, o)
CanCreateOrg(T, u, o) == o \in Tenant /\ Admin(T, u, o)
CanSetGroup(T, u, o) == o \in Feed /\ FeedManager(T, u, o)
CanSetTenant(T, u, o) == FALSE

(* setParentActionForType *)
CanSetParent(T, u, o) == CanSetGroup(T, u, o) \/ CanSetTenant(T, u, o)

-----------------------------------------------------------------------------
(* exclusiveRelationsForType, and the one relation of SetExclusiveRelation *)
Exclusive(o) == IF o \in Tenant THEN {"member", "admin"} ELSE {"viewer", "editor", "manager"}

(* A slot: what may hold one tuple only.  The parents of an object are one slot, *)
(* the relations of one subject to it another.                                   *)
Slot(t) == IF t.relation = "parent" THEN <<t.object, None>> ELSE <<t.object, t.subject>>
Held(T, slot) == {t \in T : Slot(t) = slot}
NoTuple == Tuple(None, None, None)

(* Mutant: parents of other subjects are left alone, as permissions are. *)
RivalsOfSubject(T, t) ==
  {x \in T \ {t} :
     /\ x.object = t.object /\ x.subject = t.subject
     /\ IF t.relation = "parent" THEN x.relation = "parent"
        ELSE x.relation \in Exclusive(t.object)}
(* replaceTuple: the stored tuples in the way of the new one, checkSubjectEqual *)
(* being true for permissions and false for parents.                            *)
Rivals(T, t) ==
  {x \in T \ {t} :
     /\ x.object = t.object
     /\ IF t.relation = "parent" THEN x.relation = "parent"
        ELSE x.relation \in Exclusive(t.object) /\ x.subject = t.subject}

(* Calls between what they have read of a slot and the end of their changes. *)
Working == {"write", "delete"}
Others(c) == {d \in Call \ {c} : pc[d] \in Working /\ Slot(target[d]) = Slot(target[c])}
Disturbed(slot) ==
  \/ slot \in unsettled
  \/ \E c \in Call : pc[c] \in Working /\ Slot(target[c]) = slot /\ ~alone[c]

TypeOK ==
  /\ tuples \subseteq Assignable
  /\ groups \subseteq Group /\ Group \ NewGroup \subseteq groups
  /\ pc \in [Call -> {"idle", "view", "act", "read", "remove", "insert", "ok", "error"} \cup Working]
  /\ request \in [Call -> Request \cup {None}]
  /\ target \in [Call -> Assignable \cup {NoTuple}]
  /\ del \in [Call -> SUBSET Assignable]
  /\ errs \in [Call -> BOOLEAN] /\ alone \in [Call -> BOOLEAN]
  /\ authors \subseteq User

Init ==
  /\ tuples = Initial /\ groups = Group \ NewGroup
  /\ pc = [c \in Call |-> "idle"] /\ request = [c \in Call |-> None]
  /\ target = [c \in Call |-> NoTuple] /\ del = [c \in Call |-> {}]
  /\ errs = [c \in Call |-> FALSE] /\ alone = [c \in Call |-> FALSE]
  /\ unsettled = {} /\ authors = {}

-----------------------------------------------------------------------------
Goto(c, next) == pc' = [pc EXCEPT ![c] = next]

(* checkAction, for the user of a call, given what the store answers; entityExists. *)
Allowed(c, granted) == request[c].user \in GlobalAdmin \/ granted
Exists(x) == x \in Group => x \in groups

(* A call is made.  All but TenantCreateGroup check can_view first. *)
Begin(c, r) ==
  /\ pc[c] = "idle"
  /\ request' = [request EXCEPT ![c] = r]
  /\ target' = [target EXCEPT ![c] = IF r.op = "create" THEN NoTuple ELSE r.tuple]
  /\ Goto(c, IF r.op = "create" THEN "act" ELSE "view")
  /\ UNCHANGED <<tuples, groups, del, errs, alone, unsettled, authors>>

CheckView(c) ==
  /\ pc[c] = "view"
  /\ Goto(c, IF Allowed(c, CanView(tuples, request[c].user, target[c].object)) THEN "act" ELSE "error")
  /\ UNCHANGED <<tuples, groups, request, target, del, errs, alone, unsettled, authors>>

(* Mutant: members may be edited by whoever may edit. *)
MayActAsEditor(c) ==
  LET op == request[c].op  u == request[c].user  o == target[c].object IN
    \/ op = "create" /\ Allowed(c, CanCreateOrg(tuples, u, request[c].tenant))
    \/ op = "parent" /\ Allowed(c, CanSetParent(tuples, u, o))
       /\ Exists(o) /\ Exists(target[c].subject.id)
    \/ op \in {"add", "remove"} /\ Allowed(c, CanEdit(tuples, u, o)) /\ Exists(o)
(* The action of each call, and the entities it needs. *)
MayAct(c) ==
  LET op == request[c].op  u == request[c].user  o == target[c].object IN
    \/ op = "create" /\ Allowed(c, CanCreateOrg(tuples, u, request[c].tenant))
    \/ op = "parent" /\ Allowed(c, CanSetParent(tuples, u, o))
       /\ Exists(o) /\ Exists(target[c].subject.id)
    \/ op \in {"add", "remove"} /\ Allowed(c, CanEditMembers(tuples, u, o)) /\ Exists(o)

AfterAct == [parent |-> "read", add |-> "read", remove |-> "remove", create |-> "insert"]

CheckAction(c) ==
  /\ pc[c] = "act"
  /\ Goto(c, IF MayAct(c) THEN AfterAct[request[c].op] ELSE "error")
  /\ UNCHANGED <<tuples, groups, request, target, del, errs, alone, unsettled, authors>>

(* History: a call that reads or changes a slot, and those already at work on it. *)
Meet(c) ==
  alone' = [d \in Call |-> IF d = c THEN Others(c) = {} ELSE alone[d] /\ d \notin Others(c)]

(* History: what the end of a call says of its slot. *)
Settle(c, result) ==
  unsettled' = IF result = "ok" /\ alone[c] THEN unsettled \ {Slot(target[c])}
               ELSE unsettled \cup {Slot(target[c])}

(* Mutant: the other tuples are deleted before the new one is written. *)
ReadAndDelete(c) ==
  /\ pc[c] = "read"
  /\ tuples' = tuples \ Rivals(tuples, target[c])
  /\ Meet(c)
  /\ Goto(c, IF target[c] \in tuples THEN "ok" ELSE "write")
  /\ UNCHANGED <<groups, request, target, del, errs, unsettled, authors>>
(* replaceTuple reads the tuples of the object. *)
Read(c) ==
  /\ pc[c] = "read"
  /\ del' = [del EXCEPT ![c] = Rivals(tuples, target[c])]
  /\ Meet(c)
  /\ Goto(c, IF target[c] \notin tuples THEN "write"
             ELSE IF Rivals(tuples, target[c]) # {} THEN "delete" ELSE "ok")
  /\ UNCHANGED <<tuples, groups, request, target, errs, unsettled, authors>>

(* WriteTuple.  The store refuses a tuple it has.  Its answer may be lost. *)
Write(c) ==
  /\ pc[c] = "write"
  /\ tuples' = tuples \cup {target[c]}
  /\ authors' = authors \cup {request[c].user}
  /\ \/ target[c] \notin tuples /\ del[c] # {} /\ Goto(c, "delete") /\ UNCHANGED unsettled
     \/ target[c] \notin tuples /\ del[c] = {} /\ Goto(c, "ok") /\ Settle(c, "ok")
     \/ Goto(c, "error") /\ Settle(c, "error")
  /\ UNCHANGED <<groups, request, target, del, errs, alone>>

(* DeleteTuple, one by one.  The store refuses a tuple it does not have, may fail, *)
(* or its answer may be lost; the other tuples are deleted all the same, and any   *)
(* error makes the answer an error.                                                *)
Delete(c) ==
  /\ pc[c] = "delete"
  /\ \E t \in del[c], done, heard \in BOOLEAN :
       LET failed == errs[c] \/ ~done \/ ~heard \/ t \notin tuples
           result == IF failed THEN "error" ELSE "ok" IN
         /\ tuples' = IF done THEN tuples \ {t} ELSE tuples
         /\ errs' = [errs EXCEPT ![c] = failed]
         /\ del' = [del EXCEPT ![c] = @ \ {t}]
         /\ IF del[c] = {t} THEN Goto(c, result) /\ Settle(c, result)
            ELSE UNCHANGED <<pc, unsettled>>
  /\ authors' = authors \cup {request[c].user}
  /\ UNCHANGED <<groups, request, target, alone>>

(* RemovePermission: DeleteTuple of the tuple as given. *)
Remove(c) ==
  /\ pc[c] = "remove"
  /\ tuples' = tuples \ {target[c]}
  /\ Meet(c)
  /\ (target[c] \in tuples /\ Goto(c, "ok")) \/ Goto(c, "error")
  /\ authors' = authors \cup {request[c].user}
  /\ UNCHANGED <<groups, request, target, del, errs, unsettled>>

(* TenantCreateGroup: the row first, its parent with a WriteTuple of its own. *)
Insert(c) ==
  /\ pc[c] = "insert"
  /\ \E g \in Group \ groups :
       LET t == Tuple(Key(request[c].tenant), "parent", g) IN
         /\ groups' = groups \cup {g}
         /\ target' = [target EXCEPT ![c] = t]
         /\ unsettled' = unsettled \cup {Slot(t)}
  /\ alone' = [alone EXCEPT ![c] = TRUE]
  /\ Goto(c, "write")
  /\ UNCHANGED <<tuples, request, del, errs, authors>>

(* A request to the store or the database fails, or the process crashes. *)
Fail(c) ==
  /\ pc[c] \notin {"idle", "ok", "error"}
  /\ Goto(c, "error")
  /\ IF pc[c] = "delete" \/ (pc[c] = "write" /\ ~alone[c]) THEN Settle(c, "error")
     ELSE UNCHANGED unsettled
  /\ UNCHANGED <<tuples, groups, request, target, del, errs, alone, authors>>

Next ==
  \E c \in Call :
    \/ \E r \in Request : Begin(c, r)
    \/ CheckView(c) \/ CheckAction(c) \/ Read(c) \/ Write(c) \/ Delete(c)
    \/ Remove(c) \/ Insert(c) \/ Fail(c)

Spec == Init /\ [][Next]_vars

(* A store as the calls leave it when none fails: no slot holds two tuples, and no *)
(* tuple is about a group whose row is not there.                                  *)
OrderlyStart ==
  /\ \A t, x \in Initial : Slot(t) = Slot(x) => t = x
  /\ \A t \in Initial : t.object \notin NewGroup /\ t.subject.id \notin NewGroup

-----------------------------------------------------------------------------
(* A slot nobody works on, and on which the last replacement was undisturbed and *)
(* answered without an error, holds one tuple at most: the parent of a group or  *)
(* of a feed, the relation of a subject.  So a replacement that was interrupted  *)
(* is repaired by repeating it.                                                  *)
AtRest(slot) == ~Disturbed(slot) /\ \A c \in Call : pc[c] \in Working => Slot(target[c]) # slot
SettledSlotsHoldOne ==
  \A t \in tuples : AtRest(Slot(t)) => Held(tuples, Slot(t)) = {t}

(* "Write new tuple before deleting others": a replacement that no other call on  *)
(* the slot has met so far never leaves a subject without a relation to an object,  *)
(* or an object without a parent, not for a moment: whatever it found on the slot,  *)
(* at whichever request it fails or crashes, and when it is repeated after that.    *)
Met(slot) == \E c \in Call : pc[c] \in Working /\ Slot(target[c]) = slot /\ ~alone[c]
Removing(slot) == \E c \in Call : pc[c] = "remove" /\ pc'[c] # "remove" /\ Slot(target[c]) = slot
NoGapInAccess ==
  [][\A t \in tuples : LET slot == Slot(t) IN
       Met(slot) \/ Removing(slot) \/ Held(tuples', slot) # {}]_vars

(* What is to be controlled to change somebody's rights to an object: the object, *)
(* what its tuples refer to, and so on up to a tenant.                            *)
Above(T, S) ==
  S \cup {FeedOf[v] : v \in S \cap FeedVersion}
    \cup {t.subject.id : t \in {t \in T : t.object \in S /\ t.subject.id \in Object}}
AllAbove(T, o) == Above(T, Above(T, Above(T, {o})))
Controls(T, u, o) ==
  \/ u \in GlobalAdmin
  \/ \E x \in AllAbove(T, o) : CanEditMembers(T, u, x) \/ CanSetParent(T, u, x)
Controllers == [o \in Object \ NewGroup |-> {u \in User : Controls(Initial, u, o)}]

AtStart ==
  [u \in User |-> [o \in Object \ NewGroup |->
     [view |-> CanView(Initial, u, o), edit |-> CanEdit(Initial, u, o),
      members |-> CanEditMembers(Initial, u, o), group |-> CanSetGroup(Initial, u, o)]]]
Gains(u, o) ==
  \/ ~AtStart[u][o].view /\ CanView(tuples, u, o)
  \/ ~AtStart[u][o].edit /\ CanEdit(tuples, u, o)
  \/ ~AtStart[u][o].members /\ CanEditMembers(tuples, u, o)
  \/ ~AtStart[u][o].group /\ CanSetGroup(tuples, u, o)

(* Whatever chain of calls gave somebody a right to an object that was there at   *)
(* the start, one of them was made by somebody who controlled access to the       *)
(* object then: nobody, alone or together with others, takes what nobody of them  *)
(* could give, also when rights change between the check of a call and its write. *)
GainsAreGiven ==
  \A o \in Object \ NewGroup :
    Controllers[o] \cap authors = {} => \A u \in User : ~Gains(u, o)

=============================================================================
