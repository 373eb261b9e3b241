------------------------ MODULE AccessCheckerProofs ------------------------
(* Theorems about AccessChecker, for every set of users, entities, calls and *)
(* requests, and every store at the start.                                   *)
EXTENDS AccessChecker, TLAPS

(* What a call knows of its request and its target. *)
CallsKnow ==
  \A c \in Call :
    /\ pc[c] # "idle" => request[c] \in Request
    /\ pc[c] \in {"view", "read", "remove"} => request[c].op # "create"
    /\ pc[c] = "insert" => request[c].op = "create"
    /\ pc[c] \in {"view", "act", "read", "remove"} /\ request[c].op # "create" =>
         target[c] = request[c].tuple
    /\ pc[c] \in Working => target[c] \in Assignable
TypeInv == TypeOK /\ CallsKnow

LEMMA WorkingIs == Working = {"write", "delete"}
  BY DEF Working

LEMMA RequestFacts ==
  ASSUME NEW r \in Request
  PROVE  /\ r.user \in User /\ r.op \in {"parent", "add", "remove", "create"}
         /\ r.op # "create" => r.tuple \in Assignable
         /\ r.op = "create" => r.tenant \in Tenant
  <1>1. r \in RequestType
    BY AccessAssumption
  <1>2. CASE r \in [op : {"parent", "add", "remove"}, user : User, tuple : Assignable]
    BY <1>2
  <1>3. CASE r \in [op : {"create"}, user : User, tenant : Tenant]
    BY <1>3
  <1> QED BY <1>1, <1>2, <1>3 DEF RequestType

LEMMA TypeInit == Init => TypeInv
  <1> SUFFICES ASSUME Init PROVE TypeInv
    OBVIOUS
  <1>1. TypeOK
    BY AccessAssumption DEF Init, TypeOK
  <1>2. CallsKnow
    BY DEF Init, CallsKnow, Working
  <1> QED BY <1>1, <1>2 DEF TypeInv

(* The parent a new group gets is one the store takes. *)
LEMMA ParentIsAssignable ==
  ASSUME NEW t \in Tenant, NEW g \in Group
  PROVE  Tuple(Key(t), "parent", g) \in Assignable
  <1>1. Tuple(Key(t), "parent", g) \in Tuples(Keys(Tenant), {"parent"}, Group)
    BY DEF Tuples, Keys
  <1> QED BY <1>1 DEF Assignable

LEMMA TypeStep == TypeInv /\ [Next]_vars => TypeInv'
  <1> SUFFICES ASSUME TypeInv, [Next]_vars PROVE TypeInv'
    OBVIOUS
  <1> USE WorkingIs DEF TypeInv
  <1>1. ASSUME NEW c \in Call, NEW r \in Request, Begin(c, r) PROVE TypeInv'
    <2>1. TypeOK'
      BY <1>1, RequestFacts DEF TypeOK, Begin, Goto
    <2>2. CallsKnow'
      BY <1>1, RequestFacts DEF TypeOK, CallsKnow, Begin, Goto
    <2> QED BY <2>1, <2>2
  <1>2. ASSUME NEW c \in Call, CheckView(c) PROVE TypeInv'
    <2>1. TypeOK'
      BY <1>2 DEF TypeOK, CheckView, Goto
    <2>2. CallsKnow'
      BY <1>2 DEF TypeOK, CallsKnow, CheckView, Goto
    <2> QED BY <2>1, <2>2
  <1>3. ASSUME NEW c \in Call, CheckAction(c) PROVE TypeInv'
    <2>1. request[c] \in Request
      BY <1>3 DEF CheckAction, CallsKnow
    <2>2. PICK next \in {"read", "remove", "insert", "error"} :
            /\ Goto(c, next)
            /\ next = "insert" => request[c].op = "create"
            /\ next \in {"read", "remove"} => request[c].op # "create"
      BY <1>3, <2>1, RequestFacts DEF CheckAction, AfterAct
    <2>3. UNCHANGED <<tuples, groups, request, target, del, errs, alone, unsettled, authors>>
      BY <1>3 DEF CheckAction
    <2>4. TypeOK'
      BY <2>2, <2>3 DEF TypeOK, Goto
    <2>5. CallsKnow'
      BY <1>3, <2>2, <2>3 DEF TypeOK, CallsKnow, Goto, CheckAction
    <2> QED BY <2>4, <2>5
  <1>4. ASSUME NEW c \in Call, Read(c) PROVE TypeInv'
    <2>1. target[c] \in Assignable
      BY <1>4, RequestFacts DEF Read, CallsKnow
    <2>2. PICK next \in {"write", "delete", "ok"} : Goto(c, next)
      BY <1>4 DEF Read
    <2>3. Rivals(tuples, target[c]) \in SUBSET Assignable
      BY DEF Rivals, TypeOK
    <2>4. alone' \in [Call -> BOOLEAN]
      BY <1>4 DEF Read, Meet, TypeOK
    <2>5. TypeOK'
      BY <1>4, <2>2, <2>3, <2>4 DEF TypeOK, Read, Goto
    <2>6. CallsKnow'
      BY <1>4, <2>1, <2>2 DEF TypeOK, CallsKnow, Read, Goto
    <2> QED BY <2>5, <2>6
  <1>5. ASSUME NEW c \in Call, Write(c) PROVE TypeInv'
    <2>1. target[c] \in Assignable /\ request[c] \in Request
      BY <1>5 DEF Write, CallsKnow
    <2>2. PICK next \in {"delete", "ok", "error"} : Goto(c, next)
      BY <1>5 DEF Write
    <2>3. TypeOK'
      BY <1>5, <2>1, <2>2, RequestFacts DEF TypeOK, Write, Goto
    <2>4. CallsKnow'
      BY <1>5, <2>1, <2>2 DEF TypeOK, CallsKnow, Write, Goto
    <2> QED BY <2>3, <2>4
  <1>6. ASSUME NEW c \in Call, Delete(c) PROVE TypeInv'
    <2>1. request[c] \in Request
      BY <1>6 DEF Delete, CallsKnow
    <2>2. PICK t \in del[c], done \in BOOLEAN, heard \in BOOLEAN :
            /\ tuples' = IF done THEN tuples \ {t} ELSE tuples
            /\ errs' = [errs EXCEPT ![c] = errs[c] \/ ~done \/ ~heard \/ t \notin tuples]
            /\ del' = [del EXCEPT ![c] = @ \ {t}]
      BY <1>6 DEF Delete
    <2>3. pc' \in [Call -> {"delete", "ok", "error"} \cup
                    {pc[d] : d \in Call}] /\ \A d \in Call : pc'[d] = pc[d] \/
                      (d = c /\ pc'[d] \in {"ok", "error"})
      BY <1>6 DEF Delete, Goto, TypeOK
    <2>4. tuples' \subseteq Assignable /\ del' \in [Call -> SUBSET Assignable]
            /\ errs' \in [Call -> BOOLEAN] /\ authors' \subseteq User
      BY <1>6, <2>1, <2>2, RequestFacts DEF TypeOK, Delete
    <2>5. pc' \in [Call -> {"idle", "view", "act", "read", "remove", "insert", "ok", "error"}
                             \cup Working]
      BY <2>3 DEF TypeOK
    <2>6. UNCHANGED <<groups, request, target, alone>>
      BY <1>6 DEF Delete
    <2>7. TypeOK'
      BY <2>4, <2>5, <2>6 DEF TypeOK
    <2>8. CallsKnow'
      BY <1>6, <2>3, <2>6 DEF TypeOK, CallsKnow, Delete
    <2> QED BY <2>7, <2>8
  <1>7. ASSUME NEW c \in Call, Remove(c) PROVE TypeInv'
    <2>1. request[c] \in Request
      BY <1>7 DEF Remove, CallsKnow
    <2>2. PICK next \in {"ok", "error"} : Goto(c, next)
      BY <1>7 DEF Remove
    <2>3. alone' \in [Call -> BOOLEAN]
      BY <1>7 DEF Remove, Meet, TypeOK
    <2>4. TypeOK'
      BY <1>7, <2>1, <2>2, <2>3, RequestFacts DEF TypeOK, Remove, Goto
    <2>5. CallsKnow'
      BY <1>7, <2>2 DEF TypeOK, CallsKnow, Remove, Goto
    <2> QED BY <2>4, <2>5
  <1>8. ASSUME NEW c \in Call, Insert(c) PROVE TypeInv'
    <2>1. request[c].tenant \in Tenant
      BY <1>8, RequestFacts DEF Insert, CallsKnow
    <2>2. PICK g \in Group \ groups :
            /\ groups' = groups \cup {g}
            /\ target' = [target EXCEPT ![c] = Tuple(Key(request[c].tenant), "parent", g)]
      BY <1>8 DEF Insert
    <2>3. Tuple(Key(request[c].tenant), "parent", g) \in Assignable
      BY <2>1, ParentIsAssignable
    <2>4. TypeOK'
      BY <1>8, <2>2, <2>3 DEF TypeOK, Insert, Goto
    <2>5. CallsKnow'
      BY <1>8, <2>2, <2>3 DEF TypeOK, CallsKnow, Insert, Goto
    <2> QED BY <2>4, <2>5
  <1>9. ASSUME NEW c \in Call, Fail(c) PROVE TypeInv'
    <2>1. TypeOK'
      BY <1>9 DEF TypeOK, Fail, Goto
    <2>2. CallsKnow'
      BY <1>9 DEF TypeOK, CallsKnow, Fail, Goto
    <2> QED BY <2>1, <2>2
  <1>10. CASE UNCHANGED vars
    BY <1>10 DEF vars, TypeOK, CallsKnow
  <1> QED
    BY <1>1, <1>2, <1>3, <1>4, <1>5, <1>6, <1>7, <1>8, <1>9, <1>10 DEF Next

(* Type correctness: the store only ever holds tuples of the authorization model, *)
(* whatever the calls of the checker and the order of their steps.                *)
THEOREM TypeCorrect == Spec => []TypeOK
  <1>1. Spec => []TypeInv
    BY TypeInit, TypeStep, PTL DEF Spec
  <1>2. TypeInv => TypeOK
    BY DEF TypeInv
  <1> QED BY <1>1, <1>2, PTL

-----------------------------------------------------------------------------
(* Replacements leave no gap.  A call at work on a slot without company wrote its *)
(* tuple before it deletes others, and what it deletes is in the same slot; two   *)
(* calls at work on one slot both know that they were not alone.                  *)
Present == \A c \in Call : pc[c] = "delete" /\ alone[c] => target[c] \in tuples
Apart ==
  \A c, d \in Call :
    c # d /\ pc[c] \in Working /\ pc[d] \in Working /\ Slot(target[c]) = Slot(target[d]) => ~alone[c]
RivalsOnly ==
  \A c \in Call : \A t \in del[c] :
    pc[c] \in Working => Slot(t) = Slot(target[c]) /\ t # target[c]
NotYet == \A c \in Call : pc[c] \in {"idle", "view", "act", "read", "insert"} => del[c] = {}
Known == \A c \in Call : pc[c] \in {"read", "remove"} \cup Working => Exists(target[c].object)
GapInv == TypeInv /\ Present /\ Apart /\ RivalsOnly /\ NotYet /\ Known

(* What replaceTuple is to delete shares the slot of what it writes. *)
LEMMA RivalsShareSlot ==
  ASSUME NEW t, NEW x \in Rivals(tuples, t)
  PROVE  Slot(x) = Slot(t) /\ x # t
  <1>1. "parent" \notin Exclusive(t.object)
    BY DEF Exclusive
  <1> QED BY <1>1 DEF Rivals, Slot

LEMMA SlotHasObject ==
  ASSUME NEW t, NEW x, Slot(t) = Slot(x)
  PROVE  t.object = x.object
  BY DEF Slot

LEMMA GapInit == Init => GapInv
  <1> SUFFICES ASSUME Init PROVE GapInv
    OBVIOUS
  <1>1. Present /\ Apart /\ RivalsOnly /\ NotYet /\ Known
    BY WorkingIs DEF Init, Present, Apart, RivalsOnly, NotYet, Known
  <1> QED BY <1>1, TypeInit DEF GapInv

(* Steps that leave tuples, targets and deletions alone and put no call to work. *)
LEMMA IdleSteps ==
  ASSUME GapInv, NEW c \in Call, NEW next \in {"act", "read", "remove", "insert", "error"},
         Goto(c, next), pc[c] \in {"view", "act", "insert", "read", "remove"} \cup Working,
         UNCHANGED <<tuples, groups, target, del, alone>>,
         next # "error" => pc[c] \in {"view", "act"},
         next \in {"read", "remove"} => Exists(target[c].object)
  PROVE  (Present /\ Apart /\ RivalsOnly /\ NotYet /\ Known)'
  <1> USE WorkingIs DEF GapInv, TypeInv, TypeOK, Goto
  <1>1. \A d \in Call : pc'[d] = IF d = c THEN next ELSE pc[d]
    OBVIOUS
  <1>2. Present' /\ RivalsOnly' /\ NotYet'
    BY <1>1 DEF Present, RivalsOnly, NotYet
  <1>3. Apart'
    BY <1>1 DEF Apart
  <1>4. Known'
    BY <1>1 DEF Known, Exists
  <1> QED BY <1>2, <1>3, <1>4

LEMMA GapStep == GapInv /\ [Next]_vars => GapInv'
  <1> SUFFICES ASSUME GapInv, [Next]_vars PROVE (Present /\ Apart /\ RivalsOnly /\ NotYet /\ Known)'
    BY TypeStep DEF GapInv
  <1> USE WorkingIs
  <1>typ. TypeOK
    BY DEF GapInv, TypeInv
  <1>1. ASSUME NEW c \in Call, NEW r \in Request, Begin(c, r)
        PROVE (Present /\ Apart /\ RivalsOnly /\ NotYet /\ Known)'
    <2>1. /\ \A d \in Call : d # c => pc'[d] = pc[d] /\ target'[d] = target[d]
          /\ pc'[c] \in {"view", "act"} /\ pc[c] = "idle"
          /\ UNCHANGED <<tuples, groups, del, alone>>
      BY <1>1, <1>typ DEF Begin, Goto, TypeOK
    <2> QED BY <2>1 DEF GapInv, Present, Apart, RivalsOnly, NotYet, Known, Exists
  <1>2. ASSUME NEW c \in Call, CheckView(c)
        PROVE (Present /\ Apart /\ RivalsOnly /\ NotYet /\ Known)'
    <2>1. PICK next \in {"act", "error"} : Goto(c, next)
      BY <1>2 DEF CheckView
    <2> QED BY <1>2, <2>1, IdleSteps DEF CheckView
  <1>3. ASSUME NEW c \in Call, CheckAction(c)
        PROVE (Present /\ Apart /\ RivalsOnly /\ NotYet /\ Known)'
    <2>1. request[c] \in Request
      BY <1>3 DEF CheckAction, GapInv, TypeInv, CallsKnow
    <2>2. PICK next \in {"read", "remove", "insert", "error"} :
            /\ Goto(c, next)
            /\ next \in {"read", "remove"} => Exists(target[c].object)
      BY <1>3, <2>1, RequestFacts DEF CheckAction, AfterAct, MayAct
    <2> QED BY <1>3, <2>2, IdleSteps DEF CheckAction
  <1>4. ASSUME NEW c \in Call, Read(c)
        PROVE (Present /\ Apart /\ RivalsOnly /\ NotYet /\ Known)'
    <2>1. PICK next \in {"write", "delete", "ok"} :
            Goto(c, next) /\ (next = "delete" => target[c] \in tuples)
      BY <1>4 DEF Read
    <2>2. /\ \A d \in Call : pc'[d] = IF d = c THEN next ELSE pc[d]
          /\ \A d \in Call : del'[d] = IF d = c THEN Rivals(tuples, target[c]) ELSE del[d]
          /\ pc[c] = "read" /\ UNCHANGED <<tuples, groups, target>>
      BY <1>4, <2>1, <1>typ DEF Read, Goto, TypeOK
    <2>3. \A d \in Call : alone'[d] = IF d = c THEN Others(c) = {}
                                      ELSE alone[d] /\ d \notin Others(c)
      BY <1>4 DEF Read, Meet
    <2>4. Present'
      BY <2>1, <2>2, <2>3 DEF GapInv, Present
    <2>5. Apart'
      <3> SUFFICES ASSUME NEW d \in Call, NEW e \in Call, d # e, pc'[d] \in Working,
                          pc'[e] \in Working, Slot(target[d]) = Slot(target[e])
                   PROVE ~alone'[d]
        BY <2>2 DEF Apart
      <3>1. CASE d = c
        BY <3>1, <2>2, <2>3 DEF Others
      <3>2. CASE e = c
        BY <3>2, <2>2, <2>3 DEF Others
      <3>3. CASE d # c /\ e # c
        BY <3>3, <2>2, <2>3 DEF GapInv, Apart
      <3> QED BY <3>1, <3>2, <3>3
    <2>6. RivalsOnly'
      BY <2>2, RivalsShareSlot DEF GapInv, RivalsOnly
    <2>7. NotYet' /\ Known'
      BY <2>1, <2>2 DEF GapInv, NotYet, Known, Exists
    <2> QED BY <2>4, <2>5, <2>6, <2>7
  <1>5. ASSUME NEW c \in Call, Write(c)
        PROVE (Present /\ Apart /\ RivalsOnly /\ NotYet /\ Known)'
    <2>1. PICK next \in {"delete", "ok", "error"} : Goto(c, next)
      BY <1>5 DEF Write
    <2>2. /\ \A d \in Call : pc'[d] = IF d = c THEN next ELSE pc[d]
          /\ pc[c] = "write" /\ tuples' = tuples \cup {target[c]}
          /\ UNCHANGED <<groups, target, del, alone>>
      BY <1>5, <2>1, <1>typ DEF Write, Goto, TypeOK
    <2>3. Present'
      BY <2>2 DEF GapInv, Present
    <2>4. Apart' /\ RivalsOnly' /\ NotYet' /\ Known'
      BY <2>2 DEF GapInv, Apart, RivalsOnly, NotYet, Known, Exists
    <2> QED BY <2>3, <2>4
  <1>6. ASSUME NEW c \in Call, Delete(c)
        PROVE (Present /\ Apart /\ RivalsOnly /\ NotYet /\ Known)'
    <2>1. PICK t \in del[c] :
            /\ tuples' = tuples \ {t} \/ tuples' = tuples
            /\ del' = [del EXCEPT ![c] = @ \ {t}]
      BY <1>6 DEF Delete
    <2>2. /\ \A d \in Call : pc'[d] = pc[d] \/ (d = c /\ pc'[d] \in {"ok", "error"})
          /\ pc[c] = "delete" /\ UNCHANGED <<groups, target, alone>>
      BY <1>6, <1>typ DEF Delete, Goto, TypeOK
    <2>3. \A d \in Call : del'[d] \subseteq del[d]
      BY <2>1, <1>typ DEF TypeOK
    <2>4. Present'
      <3> SUFFICES ASSUME NEW d \in Call, pc'[d] = "delete", alone[d] PROVE target[d] \in tuples'
        BY <2>2 DEF Present
      <3>1. target[d] \in tuples /\ pc[d] = "delete"
        BY <2>2 DEF GapInv, Present
      <3>2. Slot(t) = Slot(target[c]) /\ t # target[c]
        BY <2>2 DEF GapInv, RivalsOnly
      <3>3. t # target[d]
        BY <2>2, <3>1, <3>2 DEF GapInv, Apart
      <3> QED BY <2>1, <3>1, <3>3
    <2>5. Apart' /\ RivalsOnly' /\ NotYet' /\ Known'
      BY <2>2, <2>3 DEF GapInv, Apart, RivalsOnly, NotYet, Known, Exists
    <2> QED BY <2>4, <2>5
  <1>7. ASSUME NEW c \in Call, Remove(c)
        PROVE (Present /\ Apart /\ RivalsOnly /\ NotYet /\ Known)'
    <2>1. PICK next \in {"ok", "error"} : Goto(c, next)
      BY <1>7 DEF Remove
    <2>2. /\ \A d \in Call : pc'[d] = IF d = c THEN next ELSE pc[d]
          /\ pc[c] = "remove" /\ tuples' = tuples \ {target[c]}
          /\ UNCHANGED <<groups, target, del>>
      BY <1>7, <2>1, <1>typ DEF Remove, Goto, TypeOK
    <2>3. \A d \in Call : d # c => alone'[d] = (alone[d] /\ d \notin Others(c))
      BY <1>7 DEF Remove, Meet
    <2>4. Present'
      BY <2>2, <2>3 DEF GapInv, Present, Others
    <2>5. Apart'
      BY <2>2, <2>3 DEF GapInv, Apart
    <2>6. RivalsOnly' /\ NotYet' /\ Known'
      BY <2>2 DEF GapInv, RivalsOnly, NotYet, Known, Exists
    <2> QED BY <2>4, <2>5, <2>6
  <1>8. ASSUME NEW c \in Call, Insert(c)
        PROVE (Present /\ Apart /\ RivalsOnly /\ NotYet /\ Known)'
    <2>1. PICK g \in Group \ groups :
            /\ groups' = groups \cup {g}
            /\ target' = [target EXCEPT ![c] = Tuple(Key(request[c].tenant), "parent", g)]
      BY <1>8 DEF Insert
    <2>2. /\ \A d \in Call : pc'[d] = IF d = c THEN "write" ELSE pc[d]
          /\ \A d \in Call : alone'[d] = IF d = c THEN TRUE ELSE alone[d]
          /\ pc[c] = "insert" /\ UNCHANGED <<tuples, del>>
      BY <1>8, <1>typ DEF Insert, Goto, TypeOK
    <2>3. target'[c].object = g /\ \A d \in Call : d # c => target'[d] = target[d]
      BY <2>1, <1>typ DEF TypeOK, Tuple
    <2>4. \A d \in Call : d # c /\ pc[d] \in Working => Slot(target'[d]) # Slot(target'[c])
      BY <2>1, <2>3, SlotHasObject DEF GapInv, Known, Exists
    <2>5. Present' /\ NotYet'
      BY <2>2, <2>3 DEF GapInv, Present, NotYet
    <2>6. Apart'
      <3> SUFFICES ASSUME NEW d \in Call, NEW e \in Call, d # e, pc'[d] \in Working,
                          pc'[e] \in Working, Slot(target'[d]) = Slot(target'[e])
                   PROVE ~alone'[d]
        BY DEF Apart
      <3>1. d # c /\ e # c
        BY <2>2, <2>4
      <3> QED BY <3>1, <2>2, <2>3 DEF GapInv, Apart
    <2>7. RivalsOnly'
      BY <2>2, <2>3 DEF GapInv, RivalsOnly, NotYet
    <2>8. Known'
      BY <2>1, <2>2, <2>3 DEF GapInv, Known, Exists
    <2> QED BY <2>5, <2>6, <2>7, <2>8
  <1>9. ASSUME NEW c \in Call, Fail(c)
        PROVE (Present /\ Apart /\ RivalsOnly /\ NotYet /\ Known)'
    <2>1. pc[c] \in {"view", "act", "insert", "read", "remove"} \cup Working
      BY <1>9, <1>typ DEF Fail, TypeOK
    <2> QED BY <1>9, <2>1, IdleSteps DEF Fail
  <1>10. CASE UNCHANGED vars
    BY <1>10 DEF vars, GapInv, Present, Apart, RivalsOnly, NotYet, Known, Exists
  <1> QED
    BY <1>1, <1>2, <1>3, <1>4, <1>5, <1>6, <1>7, <1>8, <1>9, <1>10 DEF Next

(* Of the steps, only deletions take tuples away.  A deletion by a call that is    *)
(* alone leaves the tuple it has written in the slot.                              *)
LEMMA GapSafe ==
  ASSUME GapInv, [Next]_vars, NEW t \in tuples
  PROVE  Met(Slot(t)) \/ Removing(Slot(t)) \/ Held(tuples', Slot(t)) # {}
  <1>typ. TypeOK
    BY DEF GapInv, TypeInv
  <1>1. CASE t \in tuples'
    BY <1>1 DEF Held
  <1>2. ASSUME NEW c \in Call, Delete(c), t \notin tuples'
        PROVE Met(Slot(t)) \/ Held(tuples', Slot(t)) # {}
    <2>1. t \in del[c] /\ tuples' = tuples \ {t}
      BY <1>2 DEF Delete
    <2>2. pc[c] \in Working /\ Slot(t) = Slot(target[c]) /\ t # target[c]
      BY <1>2, <2>1, WorkingIs DEF Delete, GapInv, RivalsOnly
    <2>3. CASE alone[c]
      <3>1. target[c] \in tuples'
        BY <1>2, <2>1, <2>2, <2>3 DEF Delete, GapInv, Present
      <3> QED BY <2>2, <3>1 DEF Held
    <2>4. CASE ~alone[c]
      BY <2>2, <2>4 DEF Met
    <2> QED BY <2>3, <2>4
  <1>3. ASSUME NEW c \in Call, Remove(c), t \notin tuples'
        PROVE Removing(Slot(t))
    BY <1>3, <1>typ DEF Remove, Goto, TypeOK, Removing
  <1>4. \/ t \in tuples'
        \/ \E c \in Call : Delete(c) \/ Remove(c)
    BY DEF Next, Begin, CheckView, CheckAction, Read, Write, Insert, Fail, vars
  <1> QED BY <1>1, <1>2, <1>3, <1>4

(* A replacement that has met no other on its slot takes no subject's last relation *)
(* and no object's last parent, whatever an earlier one left on the slot, whichever   *)
(* of its requests fail and however often it is repeated: this is what writing before *)
(* deleting is for.                                                                   *)
THEOREM ReplacementsLeaveNoGap == Spec => NoGapInAccess
  <1>1. Spec => []GapInv
    BY GapInit, GapStep, PTL DEF Spec
  <1>2. GapInv /\ [Next]_vars =>
          [\A t \in tuples : LET slot == Slot(t) IN
             Met(slot) \/ Removing(slot) \/ Held(tuples', slot) # {}]_vars
    BY GapSafe
  <1> QED BY <1>1, <1>2, PTL DEF Spec, NoGapInAccess

-----------------------------------------------------------------------------
(* A slot holds one tuple.  A call alone on its slot deletes everything there that  *)
(* is not its own tuple, unless it hears of an error, and then the slot counts as   *)
(* unsettled; a call that has not written yet has changed nothing.                  *)
Fresh == \A c \in Call : pc[c] \in {"idle", "view", "act", "read", "insert", "write"} => ~errs[c]
Exist == \A t \in tuples : Exists(t.object)
Covered ==
  \A c \in Call :
    pc[c] \in Working /\ alone[c] /\ ~errs[c] =>
      \A t \in Held(tuples, Slot(target[c])) : t = target[c] \/ t \in del[c]
Untroubled(slot) ==
  /\ slot \notin unsettled
  /\ \A c \in Call : pc[c] \in Working /\ Slot(target[c]) = slot => pc[c] = "write" /\ alone[c]
Settled ==
  \A t, x \in tuples : Slot(t) = Slot(x) /\ Untroubled(Slot(t)) => t = x
SlotInv == GapInv /\ Fresh /\ Exist /\ Covered /\ Settled

LEMMA TuplesFacts ==
  ASSUME NEW S, NEW R, NEW O, NEW t \in Tuples(S, R, O)
  PROVE  t.subject \in S /\ t.relation \in R /\ t.object \in O
  BY DEF Tuples, Tuple

(* What a tuple of the store may say, by the type of its object. *)
LEMMA AssignableFacts ==
  ASSUME NEW t \in Assignable
  PROVE  \/ t.object \in Tenant /\ t.relation \in {"admin", "member"}
              /\ t.subject \in Keys(User \cup {Everyone})
         \/ t.object \in Group /\ t.relation = "parent" /\ t.subject \in Keys(Tenant)
         \/ t.object \in Group /\ t.relation \in {"manager", "editor", "viewer"}
              /\ t.subject \in Keys(User) \cup MembersOf(Tenant)
         \/ t.object \in Feed /\ t.relation = "parent" /\ t.subject \in Keys(Group)
         \/ t.object \in FeedVersion /\ t.relation \in {"editor", "viewer"}
              /\ t.subject \in Keys(User) \cup MembersOf(Tenant) \cup ViewersOf(Group)
  <1>1. CASE t \in Tuples(Keys(User), {"admin", "member"}, Tenant)
    <2>1. t.subject \in Keys(User \cup {Everyone})
      BY <1>1, TuplesFacts DEF Keys
    <2> QED BY <1>1, <2>1, TuplesFacts
  <1>2. CASE t \in Tuples({Key(Everyone)}, {"member"}, Tenant)
    <2>1. t.subject = Key(Everyone)
      BY <1>2, TuplesFacts
    <2>2. t.subject \in Keys(User \cup {Everyone})
      BY <2>1 DEF Keys
    <2> QED BY <1>2, <2>2, TuplesFacts
  <1>3. CASE t \in Tuples(Keys(Tenant), {"parent"}, Group)
    BY <1>3, TuplesFacts
  <1>4. CASE t \in Tuples(Keys(User), {"manager", "editor", "viewer"}, Group)
    BY <1>4, TuplesFacts
  <1>5. CASE t \in Tuples(MembersOf(Tenant), {"editor", "viewer"}, Group)
    BY <1>5, TuplesFacts
  <1>6. CASE t \in Tuples(Keys(Group), {"parent"}, Feed)
    BY <1>6, TuplesFacts
  <1>7. CASE t \in Tuples(Keys(User) \cup MembersOf(Tenant) \cup ViewersOf(Group),
                          {"editor", "viewer"}, FeedVersion)
    BY <1>7, TuplesFacts
  <1> QED BY <1>1, <1>2, <1>3, <1>4, <1>5, <1>6, <1>7 DEF Assignable

(* Two tuples of a slot are two that replaceTuple keeps from standing together. *)
LEMMA SlotIsRivals ==
  ASSUME TypeOK, NEW t \in Assignable, NEW x \in tuples, Slot(x) = Slot(t), x # t
  PROVE  x \in Rivals(tuples, t)
  <1>1. x \in Assignable /\ x.object = t.object
    BY SlotHasObject DEF TypeOK
  <1>2. \A k \in Assignable : k.subject # None
    <2>1. Keys(User \cup {Everyone}) \cup Keys(Tenant) \cup Keys(User) \cup Keys(Group)
            \subseteq Keys(Entity)
      BY DEF Keys, Entity
    <2> QED BY <2>1, AssignableFacts, AccessAssumption
  <1>3. (t.relation = "parent" <=> x.relation = "parent")
          /\ (t.relation # "parent" => x.subject = t.subject)
    BY <1>1, <1>2 DEF Slot
  <1>4. t.relation # "parent" => x.relation \in Exclusive(t.object)
    BY <1>1, <1>3, AssignableFacts, KindsAssumption DEF Exclusive
  <1> QED BY <1>1, <1>3, <1>4 DEF Rivals

LEMMA SlotInit == OrderlyStart /\ Init => SlotInv
  <1> SUFFICES ASSUME OrderlyStart, Init PROVE SlotInv
    OBVIOUS
  <1>1. GapInv
    BY GapInit
  <1>2. Fresh /\ Covered
    BY WorkingIs DEF Init, Fresh, Covered
  <1>3. Exist
    BY DEF Init, OrderlyStart, Exist, Exists
  <1>4. Settled
    BY DEF Init, OrderlyStart, Settled
  <1> QED BY <1>1, <1>2, <1>3, <1>4 DEF SlotInv

(* Steps that change no tuple, and put no call to work nor end one's work. *)
LEMMA QuietSteps ==
  ASSUME SlotInv, NEW c \in Call, UNCHANGED <<tuples, groups, del, errs, alone, unsettled>>,
         \A d \in Call : d # c => pc'[d] = pc[d] /\ target'[d] = target[d],
         pc[c] \notin Working, pc'[c] \notin Working, pc[c] \notin {"ok", "error"}, pc[c] # "remove"
  PROVE  (Fresh /\ Exist /\ Covered /\ Settled)'
  <1> USE DEF SlotInv
  <1>1. Fresh'
    BY WorkingIs DEF Fresh, GapInv, TypeInv, TypeOK
  <1>2. Exist'
    BY DEF Exist, Exists
  <1>3. Covered'
    BY DEF Covered, Held
  <1>4. \A slot : Untroubled(slot)' => Untroubled(slot)
    BY DEF Untroubled
  <1>5. Settled'
    BY <1>4 DEF Settled
  <1> QED BY <1>1, <1>2, <1>3, <1>5

LEMMA SlotRead ==
  ASSUME SlotInv, NEW c \in Call, Read(c)
  PROVE  (Fresh /\ Exist /\ Covered /\ Settled)'
  <1> USE WorkingIs DEF SlotInv
  <1>typ. TypeOK /\ target[c] \in Assignable
    BY RequestFacts DEF GapInv, TypeInv, CallsKnow, Read
  <1>1. PICK next \in {"write", "delete", "ok"} : Goto(c, next)
    BY DEF Read
  <1>2. /\ \A d \in Call : pc'[d] = IF d = c THEN next ELSE pc[d]
        /\ \A d \in Call : del'[d] = IF d = c THEN Rivals(tuples, target[c]) ELSE del[d]
        /\ pc[c] = "read" /\ UNCHANGED <<tuples, groups, target, errs, unsettled>>
    BY <1>1, <1>typ DEF Read, Goto, TypeOK
  <1>3. \A d \in Call : alone'[d] = IF d = c THEN Others(c) = {} ELSE alone[d] /\ d \notin Others(c)
    BY DEF Read, Meet
  <1>4. Fresh' /\ Exist'
    BY <1>2 DEF Fresh, Exist, Exists
  <1>5. Covered'
    <2> SUFFICES ASSUME NEW d \in Call, pc'[d] \in Working, alone'[d], ~errs[d],
                        NEW t \in Held(tuples, Slot(target[d]))
                 PROVE  t = target[d] \/ t \in del'[d]
      BY <1>2 DEF Covered
    <2>1. CASE d = c
      BY <1>2, <1>typ, <2>1, SlotIsRivals DEF Held
    <2>2. CASE d # c
      BY <1>2, <1>3, <2>2 DEF Covered
    <2> QED BY <2>1, <2>2
  <1>6. ASSUME NEW slot, Untroubled(slot)' PROVE Untroubled(slot)
    <2>1. slot \notin unsettled
      BY <1>2, <1>6 DEF Untroubled
    <2>2. ASSUME NEW d \in Call, pc[d] \in Working, Slot(target[d]) = slot
          PROVE  pc[d] = "write" /\ alone[d]
      <3>1. d # c
        BY <1>2, <2>2
      <3>2. pc'[d] = "write" /\ alone'[d]
        BY <1>2, <1>6, <2>2, <3>1 DEF Untroubled
      <3> QED BY <1>2, <1>3, <3>1, <3>2
    <2> QED BY <2>1, <2>2 DEF Untroubled
  <1>7. Settled'
    BY <1>2, <1>6 DEF Settled
  <1> QED BY <1>4, <1>5, <1>7

LEMMA SlotWrite ==
  ASSUME SlotInv, NEW c \in Call, Write(c)
  PROVE  (Fresh /\ Exist /\ Covered /\ Settled)'
  <1> USE WorkingIs DEF SlotInv
  <1>typ. TypeOK /\ Apart /\ Known
    BY DEF GapInv, TypeInv
  <1>1. PICK next \in {"delete", "ok", "error"} :
          /\ Goto(c, next)
          /\ next = "delete" => target[c] \notin tuples /\ del[c] # {} /\ UNCHANGED unsettled
          /\ next = "ok" => target[c] \notin tuples /\ del[c] = {} /\ Settle(c, "ok")
          /\ next = "error" => Settle(c, "error")
    BY DEF Write
  <1>2. /\ \A d \in Call : pc'[d] = IF d = c THEN next ELSE pc[d]
        /\ pc[c] = "write" /\ tuples' = tuples \cup {target[c]}
        /\ UNCHANGED <<groups, target, del, errs, alone>>
    BY <1>1, <1>typ DEF Write, Goto, TypeOK
  <1>3. ~errs[c]
    BY <1>2 DEF Fresh
  <1>4. Fresh'
    BY <1>2 DEF Fresh
  <1>5. Exist'
    BY <1>2, <1>typ DEF Exist, Known, Exists
  <1>6. Covered'
    <2> SUFFICES ASSUME NEW d \in Call, pc'[d] \in Working, alone[d], ~errs[d],
                        NEW t \in tuples', Slot(t) = Slot(target[d])
                 PROVE  t = target[d] \/ t \in del[d]
      BY <1>2 DEF Covered, Held
    <2>1. pc[d] \in Working
      BY <1>2
    <2>2. CASE t \in tuples
      BY <2>1, <2>2 DEF Covered, Held
    <2>3. CASE t = target[c]
      BY <1>2, <1>typ, <2>1, <2>3 DEF Apart
    <2> QED BY <1>2, <2>2, <2>3
  <1>7. Settled'
    <2> SUFFICES ASSUME NEW t \in tuples', NEW x \in tuples', Slot(t) = Slot(x),
                        Untroubled(Slot(t))'
                 PROVE  t = x
      BY DEF Settled
    <2> DEFINE s == Slot(t)
    <2>1. CASE s = Slot(target[c])
      <3>1. next = "ok" /\ alone[c] /\ del[c] = {}
        BY <1>1, <1>2, <2>1 DEF Untroubled, Settle
      <3>2. \A y \in tuples' : Slot(y) = s => y = target[c]
        BY <1>2, <1>3, <2>1, <3>1 DEF Covered, Held
      <3> QED BY <3>2
    <2>2. CASE s # Slot(target[c])
      <3>1. t \in tuples /\ x \in tuples
        BY <1>2, <2>2
      <3>2. s \notin unsettled
        BY <1>1, <2>2 DEF Untroubled, Settle
      <3>3. Untroubled(s)
        BY <1>2, <2>2, <3>2 DEF Untroubled
      <3> QED BY <3>1, <3>3 DEF Settled
    <2> QED BY <2>1, <2>2
  <1> QED BY <1>4, <1>5, <1>6, <1>7

LEMMA SlotDelete ==
  ASSUME SlotInv, NEW c \in Call, Delete(c)
  PROVE  (Fresh /\ Exist /\ Covered /\ Settled)'
  <1> USE WorkingIs DEF SlotInv
  <1>typ. TypeOK /\ Apart /\ RivalsOnly
    BY DEF GapInv, TypeInv
  <1>1. PICK t \in del[c], done \in BOOLEAN, heard \in BOOLEAN :
          LET failed == errs[c] \/ ~done \/ ~heard \/ t \notin tuples
              result == IF failed THEN "error" ELSE "ok" IN
            /\ tuples' = IF done THEN tuples \ {t} ELSE tuples
            /\ errs' = [errs EXCEPT ![c] = failed]
            /\ del' = [del EXCEPT ![c] = @ \ {t}]
            /\ IF del[c] = {t} THEN Goto(c, result) /\ Settle(c, result)
               ELSE UNCHANGED <<pc, unsettled>>
    BY DEF Delete
  <1> DEFINE failed == errs[c] \/ ~done \/ ~heard \/ t \notin tuples
  <1>2. /\ pc[c] = "delete" /\ UNCHANGED <<groups, target, alone>>
        /\ \A d \in Call : d # c => pc'[d] = pc[d] /\ del'[d] = del[d] /\ errs'[d] = errs[d]
        /\ errs'[c] = failed /\ del'[c] = del[c] \ {t}
        /\ tuples' \subseteq tuples /\ (~failed => tuples' = tuples \ {t})
        /\ \/ pc'[c] = "delete" /\ unsettled' = unsettled
           \/ pc'[c] = "ok" /\ ~failed /\ del[c] = {t} /\ Settle(c, "ok")
           \/ pc'[c] = "error" /\ Settle(c, "error")
    BY <1>1, <1>typ DEF Delete, Goto, TypeOK
  <1>3. Fresh'
    BY <1>2 DEF Fresh
  <1>4. Exist'
    BY <1>2 DEF Exist, Exists
  <1>5. Covered'
    <2> SUFFICES ASSUME NEW d \in Call, pc'[d] \in Working, alone[d], ~errs'[d],
                        NEW x \in tuples', Slot(x) = Slot(target[d])
                 PROVE  x = target[d] \/ x \in del'[d]
      BY <1>2 DEF Covered, Held
    <2>1. pc[d] \in Working /\ ~errs[d]
      BY <1>2
    <2>2. x = target[d] \/ x \in del[d]
      BY <1>2, <2>1 DEF Covered, Held
    <2> QED BY <1>2, <2>2
  <1>6. Settled'
    <2> SUFFICES ASSUME NEW y \in tuples', NEW x \in tuples', Slot(y) = Slot(x),
                        Untroubled(Slot(y))'
                 PROVE  y = x
      BY DEF Settled
    <2> DEFINE s == Slot(y)
    <2>1. CASE s = Slot(target[c])
      <3>1. pc'[c] # "delete"
        BY <1>2, <2>1 DEF Untroubled
      <3>2. ~failed /\ del[c] = {t} /\ alone[c]
        BY <1>2, <2>1, <3>1 DEF Untroubled, Settle
      <3>3. \A z \in tuples' : Slot(z) = s => z = target[c]
        BY <1>2, <2>1, <3>2 DEF Covered, Held
      <3> QED BY <3>3
    <2>2. CASE s # Slot(target[c])
      <3>1. s \notin unsettled
        BY <1>2, <2>2 DEF Untroubled, Settle
      <3>2. Untroubled(s)
        BY <1>2, <2>2, <3>1 DEF Untroubled
      <3> QED BY <1>2, <3>2 DEF Settled
    <2> QED BY <2>1, <2>2
  <1> QED BY <1>3, <1>4, <1>5, <1>6

LEMMA SlotRemove ==
  ASSUME SlotInv, NEW c \in Call, Remove(c)
  PROVE  (Fresh /\ Exist /\ Covered /\ Settled)'
  <1> USE WorkingIs DEF SlotInv
  <1>typ. TypeOK
    BY DEF GapInv, TypeInv
  <1>1. PICK next \in {"ok", "error"} : Goto(c, next)
    BY DEF Remove
  <1>2. /\ \A d \in Call : pc'[d] = IF d = c THEN next ELSE pc[d]
        /\ pc[c] = "remove" /\ tuples' = tuples \ {target[c]}
        /\ UNCHANGED <<groups, target, del, errs, unsettled>>
    BY <1>1, <1>typ DEF Remove, Goto, TypeOK
  <1>3. \A d \in Call : d # c => alone'[d] = (alone[d] /\ d \notin Others(c))
    BY DEF Remove, Meet
  <1>4. Fresh' /\ Exist'
    BY <1>2 DEF Fresh, Exist, Exists
  <1>5. Covered'
    BY <1>2, <1>3 DEF Covered, Held
  <1>6. \A slot : Untroubled(slot)' => Untroubled(slot)
    BY <1>2, <1>3 DEF Untroubled
  <1>7. Settled'
    BY <1>2, <1>6 DEF Settled
  <1> QED BY <1>4, <1>5, <1>7

LEMMA SlotInsert ==
  ASSUME SlotInv, NEW c \in Call, Insert(c)
  PROVE  (Fresh /\ Exist /\ Covered /\ Settled)'
  <1> USE WorkingIs DEF SlotInv
  <1>typ. TypeOK /\ NotYet
    BY DEF GapInv, TypeInv
  <1>1. PICK g \in Group \ groups :
          /\ groups' = groups \cup {g}
          /\ target' = [target EXCEPT ![c] = Tuple(Key(request[c].tenant), "parent", g)]
          /\ unsettled' = unsettled \cup {Slot(Tuple(Key(request[c].tenant), "parent", g))}
    BY DEF Insert
  <1>2. /\ \A d \in Call : pc'[d] = IF d = c THEN "write" ELSE pc[d]
        /\ \A d \in Call : alone'[d] = IF d = c THEN TRUE ELSE alone[d]
        /\ pc[c] = "insert" /\ UNCHANGED <<tuples, del, errs>>
    BY <1>typ DEF Insert, Goto, TypeOK
  <1>3. target'[c].object = g /\ \A d \in Call : d # c => target'[d] = target[d]
    BY <1>1, <1>typ DEF TypeOK, Tuple
  <1>4. Fresh'
    BY <1>2 DEF Fresh
  <1>5. Exist'
    BY <1>1, <1>2 DEF Exist, Exists
  <1>6. Held(tuples, Slot(target'[c])) = {}
    BY <1>1, <1>3, SlotHasObject DEF Held, Exist, Exists
  <1>7. Covered'
    BY <1>2, <1>3, <1>6 DEF Covered, Held
  <1>8. Settled'
    <2> SUFFICES ASSUME NEW t \in tuples, NEW x \in tuples, Slot(t) = Slot(x),
                        Untroubled(Slot(t))'
                 PROVE  t = x
      BY <1>2 DEF Settled
    <2>1. Untroubled(Slot(t))
      BY <1>1, <1>2, <1>3 DEF Untroubled
    <2> QED BY <2>1 DEF Settled
  <1> QED BY <1>4, <1>5, <1>7, <1>8

LEMMA SlotFail ==
  ASSUME SlotInv, NEW c \in Call, Fail(c)
  PROVE  (Fresh /\ Exist /\ Covered /\ Settled)'
  <1> USE WorkingIs DEF SlotInv
  <1>typ. TypeOK
    BY DEF GapInv, TypeInv
  <1>1. /\ \A d \in Call : pc'[d] = IF d = c THEN "error" ELSE pc[d]
        /\ UNCHANGED <<tuples, groups, target, del, errs, alone>>
        /\ IF pc[c] = "delete" \/ (pc[c] = "write" /\ ~alone[c])
           THEN unsettled' = unsettled \cup {Slot(target[c])} ELSE unsettled' = unsettled
    BY <1>typ DEF Fail, Goto, TypeOK, Settle
  <1>2. Fresh' /\ Exist' /\ Covered'
    BY <1>1 DEF Fresh, Exist, Exists, Covered, Held
  <1>3. \A slot : Untroubled(slot)' => Untroubled(slot)
    BY <1>1 DEF Untroubled
  <1>4. Settled'
    BY <1>1, <1>3 DEF Settled
  <1> QED BY <1>2, <1>4

LEMMA SlotStep == SlotInv /\ [Next]_vars => SlotInv'
  <1> SUFFICES ASSUME SlotInv, [Next]_vars PROVE (Fresh /\ Exist /\ Covered /\ Settled)'
    BY GapStep DEF SlotInv
  <1> USE WorkingIs
  <1>typ. TypeOK
    BY DEF SlotInv, GapInv, TypeInv
  <1>1. ASSUME NEW c \in Call, NEW r \in Request, Begin(c, r)
        PROVE (Fresh /\ Exist /\ Covered /\ Settled)'
    BY <1>1, <1>typ, QuietSteps DEF Begin, Goto, TypeOK
  <1>2. ASSUME NEW c \in Call, CheckView(c)
        PROVE (Fresh /\ Exist /\ Covered /\ Settled)'
    BY <1>2, <1>typ, QuietSteps DEF CheckView, Goto, TypeOK
  <1>3. ASSUME NEW c \in Call, CheckAction(c)
        PROVE (Fresh /\ Exist /\ Covered /\ Settled)'
    <2>1. request[c] \in Request /\ pc[c] = "act"
      BY <1>3 DEF CheckAction, SlotInv, GapInv, TypeInv, CallsKnow
    <2>2. PICK next \in {"read", "remove", "insert", "error"} : Goto(c, next)
      BY <1>3, <2>1, RequestFacts DEF CheckAction, AfterAct
    <2>3. pc'[c] \notin Working /\ \A d \in Call : d # c => pc'[d] = pc[d]
      BY <1>typ, <2>2 DEF Goto, TypeOK
    <2> QED BY <1>3, <2>1, <2>3, QuietSteps DEF CheckAction
  <1>4. CASE UNCHANGED vars
    <2>1. UNCHANGED <<tuples, groups, pc, target, del, errs, alone, unsettled>>
      BY <1>4 DEF vars, calls
    <2>2. \A slot : Untroubled(slot)' <=> Untroubled(slot)
      BY <2>1 DEF Untroubled
    <2>3. Settled'
      BY <2>1, <2>2 DEF SlotInv, Settled
    <2> QED BY <2>1, <2>3 DEF SlotInv, Fresh, Exist, Exists, Covered, Held
  <1> QED
    BY <1>1, <1>2, <1>3, <1>4, SlotRead, SlotWrite, SlotDelete, SlotRemove, SlotInsert, SlotFail
    DEF Next

(* A slot at rest holds one tuple: an object has one parent and a subject one relation *)
(* to it, from any store in that state, unless replacements met there or one of them   *)
(* answered with an error, and then again once a replacement there has gone well.      *)
THEOREM SlotsHoldOne ==
  ASSUME OrderlyStart
  PROVE  Spec => []SettledSlotsHoldOne
  <1>1. Init => SlotInv
    BY SlotInit
  <1>2. SlotInv => SettledSlotsHoldOne
    <2> SUFFICES ASSUME SlotInv, NEW t \in tuples, AtRest(Slot(t)), NEW x \in Held(tuples, Slot(t))
                 PROVE  x = t
      BY DEF SettledSlotsHoldOne, Held
    <2>1. Untroubled(Slot(t))
      BY DEF AtRest, Disturbed, Untroubled
    <2> QED BY <2>1 DEF SlotInv, Settled, Held
  <1> QED BY <1>1, <1>2, SlotStep, PTL DEF Spec

-----------------------------------------------------------------------------
(* Who may do what to an object depends on the tuples of the object, of what these    *)
(* refer to, and so on: on its cone, which ends at tenants.                           *)
Cone(o) == AllAbove(Initial, o)

LEMMA SubjectFacts ==
  ASSUME NEW S
  PROVE  /\ \A k \in Keys(S) : k.id \in S /\ k.ref = None
         /\ \A k \in MembersOf(S) : k.id \in S /\ k.ref = "member"
         /\ \A k \in ViewersOf(S) : k.id \in S /\ k.ref = "viewer"
  BY DEF Keys, Key, MembersOf, ViewersOf

LEMMA AboveFacts ==
  ASSUME NEW T, NEW S, NEW y
  PROVE  y \in Above(T, S) <=>
           \/ y \in S
           \/ \E v \in S \cap FeedVersion : y = FeedOf[v]
           \/ \E t \in T : t.object \in S /\ t.subject.id = y /\ y \in Object
  BY DEF Above

(* What an object refers to is of a lower kind: versions, feeds, groups, tenants. *)
RefersTo(x, y) ==
  \/ x \in FeedVersion /\ y = FeedOf[x]
  \/ \E t \in Initial : t.object = x /\ t.subject.id = y /\ y \in Object

LEMMA ReferenceFacts ==
  ASSUME NEW x, NEW y, RefersTo(x, y)
  PROVE  \/ x \in FeedVersion /\ y \in Feed \cup Group \cup Tenant
         \/ x \in Feed /\ y \in Group
         \/ x \in Group /\ y \in Tenant
  <1>1. CASE x \in FeedVersion /\ y = FeedOf[x]
    BY <1>1, AccessAssumption
  <1>2. ASSUME NEW t \in Initial, t.object = x, t.subject.id = y, y \in Object
        PROVE  \/ x \in FeedVersion /\ y \in Feed \cup Group \cup Tenant
               \/ x \in Feed /\ y \in Group
               \/ x \in Group /\ y \in Tenant
    <2>1. t \in Assignable /\ y \notin User \cup {Everyone}
      BY <1>2, AccessAssumption, KindsAssumption
    <2>2. CASE x \in Tenant /\ t.subject \in Keys(User \cup {Everyone})
      BY <1>2, <2>1, <2>2, SubjectFacts
    <2>3. CASE x \in Group /\ t.subject \in Keys(Tenant)
      BY <1>2, <2>3, SubjectFacts
    <2>4. CASE x \in Group /\ t.subject \in Keys(User) \cup MembersOf(Tenant)
      BY <1>2, <2>1, <2>4, SubjectFacts
    <2>5. CASE x \in Feed /\ t.subject \in Keys(Group)
      BY <1>2, <2>5, SubjectFacts
    <2>6. CASE x \in FeedVersion
                 /\ t.subject \in Keys(User) \cup MembersOf(Tenant) \cup ViewersOf(Group)
      BY <1>2, <2>1, <2>6, SubjectFacts
    <2> QED BY <1>2, <2>1, <2>2, <2>3, <2>4, <2>5, <2>6, AssignableFacts
  <1> QED BY <1>1, <1>2 DEF RefersTo

LEMMA ConeClosed ==
  ASSUME NEW o \in Object
  PROVE  /\ o \in Cone(o) /\ Cone(o) \subseteq Object
         /\ \A x \in Cone(o) : \A y : RefersTo(x, y) => y \in Cone(o)
  <1> DEFINE A1 == Above(Initial, {o})
             A2 == Above(Initial, A1)
             A3 == Above(Initial, A2)
  <1>1. ASSUME NEW S, NEW y
        PROVE  y \in Above(Initial, S) <=> y \in S \/ \E x \in S : RefersTo(x, y)
    BY AboveFacts DEF RefersTo
  <1>2. Cone(o) = A3
    BY DEF Cone, AllAbove
  <1> HIDE DEF A1, A2, A3
  <1>3. \A y : y \in A1 <=> y = o \/ RefersTo(o, y)
    BY <1>1 DEF A1
  <1>4. \A y : y \in A2 <=> y \in A1 \/ \E x \in A1 : RefersTo(x, y)
    BY <1>1 DEF A2
  <1>5. \A y : y \in A3 <=> y \in A2 \/ \E x \in A2 : RefersTo(x, y)
    BY <1>1 DEF A3
  <1>6. \A x, y : RefersTo(x, y) => y \in Object
    BY ReferenceFacts DEF Object
  <1>7. o \in A3 /\ A3 \subseteq Object
    BY <1>3, <1>4, <1>5, <1>6
  <1>8. ASSUME NEW x \in A3, x \notin A2 PROVE x \in Tenant
    <2>1. PICK y \in A2 : RefersTo(y, x) /\ y \notin A1
      BY <1>4, <1>5, <1>8
    <2>2. PICK z \in A1 : RefersTo(z, y) /\ RefersTo(o, z)
      BY <1>3, <1>4, <2>1
    <2> QED BY <2>1, <2>2, ReferenceFacts, KindsAssumption
  <1>9. ASSUME NEW x \in A3, NEW y, RefersTo(x, y) PROVE y \in A3
    <2>1. x \notin Tenant
      BY <1>9, ReferenceFacts, KindsAssumption
    <2> QED BY <1>5, <1>8, <1>9, <2>1
  <1> QED BY <1>2, <1>7, <1>9

-----------------------------------------------------------------------------
(* Two stores that agree on a set of objects closed under references grant the same   *)
(* relations to its objects.                                                          *)
Agree(T, U, B) ==
  /\ T \subseteq Assignable /\ U \subseteq Assignable
  /\ \A t \in Assignable : t.object \in B => (t \in T <=> t \in U)
  /\ \A t \in T \cup U : t.object \in B /\ t.subject.id \in Object => t.subject.id \in B
  /\ \A v \in B \cap FeedVersion : FeedOf[v] \in B

LEMMA TupleIs ==
  ASSUME NEW s, NEW r, NEW x
  PROVE  /\ Tuple(s, r, x).subject = s /\ Tuple(s, r, x).relation = r
         /\ Tuple(s, r, x).object = x
  BY DEF Tuple

LEMMA SameTuple ==
  ASSUME NEW T, NEW U, NEW B, Agree(T, U, B), NEW s, NEW r, NEW x \in B
  PROVE  /\ Tuple(s, r, x) \in T <=> Tuple(s, r, x) \in U
         /\ Tuple(s, r, x) \in T /\ s.id \in Object => s.id \in B
  BY TupleIs DEF Agree

LEMMA SameNamed ==
  ASSUME NEW T, NEW U, NEW B, Agree(T, U, B), NEW u, NEW r, NEW x \in B
  PROVE  Named(T, u, r, x) <=> Named(U, u, r, x)
  BY SameTuple DEF Named

LEMMA SameParents ==
  ASSUME NEW T, NEW U, NEW B, Agree(T, U, B), NEW x \in B
  PROVE  Parents(T, x) = Parents(U, x) /\ Parents(T, x) \subseteq B
  <1>1. \A t : t.object = x => (t \in T <=> t \in U)
    BY DEF Agree
  <1>2. Parents(T, x) = Parents(U, x)
    BY <1>1 DEF Parents
  <1>3. ASSUME NEW t \in T, t.object = x, t.relation = "parent"
        PROVE  t.subject.id \in B
    <2>1. t.subject \in Keys(Tenant) \cup Keys(Group)
      BY <1>3, AssignableFacts DEF Agree
    <2>2. t.subject.id \in Object
      BY <2>1, SubjectFacts DEF Object
    <2> QED BY <1>3, <2>2 DEF Agree
  <1> QED BY <1>2, <1>3 DEF Parents

LEMMA SameMember ==
  ASSUME NEW T, NEW U, NEW B, Agree(T, U, B), NEW u, NEW x \in B
  PROVE  /\ Admin(T, u, x) <=> Admin(U, u, x)
         /\ Member(T, u, x) <=> Member(U, u, x)
         /\ \A r : AsMember(T, u, r, x) <=> AsMember(U, u, r, x)
  <1>1. \A y \in B : (Admin(T, u, y) <=> Admin(U, u, y)) /\ (Member(T, u, y) <=> Member(U, u, y))
    BY SameNamed DEF Admin, Member
  <1>2. \A s \in MembersOf(Tenant) : s.id \in Object
    BY SubjectFacts DEF Object
  <1>3. ASSUME NEW r PROVE AsMember(T, u, r, x) <=> AsMember(U, u, r, x)
    <2>1. \A s \in MembersOf(Tenant) :
            /\ Tuple(s, r, x) \in T <=> Tuple(s, r, x) \in U
            /\ Tuple(s, r, x) \in T => (Member(T, u, s.id) <=> Member(U, u, s.id))
      BY <1>1, <1>2, SameTuple
    <2> QED BY <2>1 DEF AsMember
  <1> QED BY <1>1, <1>3

LEMMA SameGroup ==
  ASSUME NEW T, NEW U, NEW B, Agree(T, U, B), NEW u, NEW x \in B
  PROVE  /\ GroupManager(T, u, x) <=> GroupManager(U, u, x)
         /\ GroupEditor(T, u, x) <=> GroupEditor(U, u, x)
         /\ GroupViewer(T, u, x) <=> GroupViewer(U, u, x)
         /\ \A r : AsViewer(T, u, r, x) <=> AsViewer(U, u, r, x)
  <1>1. ASSUME NEW y \in B
        PROVE  /\ GroupManager(T, u, y) <=> GroupManager(U, u, y)
               /\ GroupEditor(T, u, y) <=> GroupEditor(U, u, y)
               /\ GroupViewer(T, u, y) <=> GroupViewer(U, u, y)
    <2>1. GroupManager(T, u, y) <=> GroupManager(U, u, y)
      BY SameNamed, SameParents, SameMember DEF GroupManager
    <2>2. GroupEditor(T, u, y) <=> GroupEditor(U, u, y)
      BY <2>1, SameNamed, SameMember DEF GroupEditor
    <2>3. GroupViewer(T, u, y) <=> GroupViewer(U, u, y)
      BY <2>2, SameNamed, SameMember DEF GroupViewer
    <2> QED BY <2>1, <2>2, <2>3
  <1>2. \A s \in ViewersOf(Group) : s.id \in Object
    BY SubjectFacts DEF Object
  <1>3. ASSUME NEW r PROVE AsViewer(T, u, r, x) <=> AsViewer(U, u, r, x)
    <2>1. \A s \in ViewersOf(Group) :
            /\ Tuple(s, r, x) \in T <=> Tuple(s, r, x) \in U
            /\ Tuple(s, r, x) \in T => (GroupViewer(T, u, s.id) <=> GroupViewer(U, u, s.id))
      BY <1>1, <1>2, SameTuple
    <2> QED BY <2>1 DEF AsViewer
  <1> QED BY <1>1, <1>3

LEMMA SameFeed ==
  ASSUME NEW T, NEW U, NEW B, Agree(T, U, B), NEW u, NEW x \in B
  PROVE  /\ FeedManager(T, u, x) <=> FeedManager(U, u, x)
         /\ FeedEditor(T, u, x) <=> FeedEditor(U, u, x)
         /\ FeedViewer(T, u, x) <=> FeedViewer(U, u, x)
  <1>1. Parents(T, x) = Parents(U, x) /\ Parents(T, x) \subseteq B
    BY SameParents
  <1>2. \A g \in B : /\ GroupManager(T, u, g) <=> GroupManager(U, u, g)
                     /\ GroupEditor(T, u, g) <=> GroupEditor(U, u, g)
                     /\ GroupViewer(T, u, g) <=> GroupViewer(U, u, g)
    BY SameGroup
  <1> QED BY <1>1, <1>2 DEF FeedManager, FeedEditor, FeedViewer

LEMMA SameVersion ==
  ASSUME NEW T, NEW U, NEW B, Agree(T, U, B), NEW u, NEW x \in B, x \in FeedVersion
  PROVE  /\ VersionManager(T, u, x) <=> VersionManager(U, u, x)
         /\ VersionEditor(T, u, x) <=> VersionEditor(U, u, x)
         /\ VersionViewer(T, u, x) <=> VersionViewer(U, u, x)
  <1>1. FeedOf[x] \in B
    BY DEF Agree
  <1>2. /\ FeedManager(T, u, FeedOf[x]) <=> FeedManager(U, u, FeedOf[x])
        /\ FeedEditor(T, u, FeedOf[x]) <=> FeedEditor(U, u, FeedOf[x])
        /\ FeedViewer(T, u, FeedOf[x]) <=> FeedViewer(U, u, FeedOf[x])
    BY <1>1, SameFeed
  <1>3. \A r : Given(T, u, r, x) <=> Given(U, u, r, x)
    BY SameNamed, SameMember, SameGroup DEF Given
  <1> QED BY <1>2, <1>3 DEF VersionManager, VersionEditor, VersionViewer

LEMMA SameRights ==
  ASSUME NEW T, NEW U, NEW B, Agree(T, U, B), NEW u, NEW x \in B
  PROVE  /\ CanView(T, u, x) <=> CanView(U, u, x)
         /\ CanEdit(T, u, x) <=> CanEdit(U, u, x)
         /\ CanEditMembers(T, u, x) <=> CanEditMembers(U, u, x)
         /\ CanSetGroup(T, u, x) <=> CanSetGroup(U, u, x)
         /\ CanSetParent(T, u, x) <=> CanSetParent(U, u, x)
  <1>1. /\ Admin(T, u, x) <=> Admin(U, u, x)
        /\ Member(T, u, x) <=> Member(U, u, x)
    BY SameMember
  <1>2. /\ GroupManager(T, u, x) <=> GroupManager(U, u, x)
        /\ GroupEditor(T, u, x) <=> GroupEditor(U, u, x)
        /\ GroupViewer(T, u, x) <=> GroupViewer(U, u, x)
    BY SameGroup
  <1>3. /\ FeedManager(T, u, x) <=> FeedManager(U, u, x)
        /\ FeedEditor(T, u, x) <=> FeedEditor(U, u, x)
        /\ FeedViewer(T, u, x) <=> FeedViewer(U, u, x)
    BY SameFeed
  <1>4. x \in FeedVersion =>
          /\ VersionManager(T, u, x) <=> VersionManager(U, u, x)
          /\ VersionEditor(T, u, x) <=> VersionEditor(U, u, x)
          /\ VersionViewer(T, u, x) <=> VersionViewer(U, u, x)
    BY SameVersion
  <1> QED BY <1>1, <1>2, <1>3, <1>4
          DEF CanView, CanEdit, CanEditMembers, CanSetGroup, CanSetTenant, CanSetParent

-----------------------------------------------------------------------------
(* As long as nobody who controls an object at the start has changed a tuple, the     *)
(* tuples of its cone are those of the start, so whoever passes a check there now      *)
(* controlled the object at the start.                                                 *)
Untouched(o) == \A t \in Assignable : t.object \in Cone(o) => (t \in tuples <=> t \in Initial)
Meddles(c, o) == pc[c] \in {"read", "remove"} \cup Working /\ target[c].object \in Cone(o)
GivenOf(o) ==
  Controllers[o] \cap authors = {} =>
    Untouched(o) /\ \A c \in Call : Meddles(c, o) => request[c].user \in Controllers[o]
GivenInv == GapInv /\ \A o \in Object \ NewGroup : GivenOf(o)

LEMMA ControllersAre ==
  ASSUME NEW o \in Object \ NewGroup, NEW u \in User
  PROVE  /\ u \in Controllers[o] <=> Controls(Initial, u, o)
         /\ u \in GlobalAdmin => u \in Controllers[o]
  BY DEF Controllers, Controls

LEMMA ConeIsOld ==
  ASSUME OrderlyStart, NEW o \in Object \ NewGroup
  PROVE  Cone(o) \cap NewGroup = {}
  <1> DEFINE A1 == Above(Initial, {o})
             A2 == Above(Initial, A1)
             A3 == Above(Initial, A2)
  <1>1. ASSUME NEW S, S \cap NewGroup = {} PROVE Above(Initial, S) \cap NewGroup = {}
    <2>1. \A v \in FeedVersion : FeedOf[v] \notin NewGroup
      BY AccessAssumption, KindsAssumption
    <2> QED BY <1>1, <2>1, AboveFacts DEF OrderlyStart
  <1>2. A1 \cap NewGroup = {}
    BY <1>1
  <1>3. A2 \cap NewGroup = {}
    BY <1>1, <1>2
  <1>4. A3 \cap NewGroup = {}
    BY <1>1, <1>3
  <1> QED BY <1>4 DEF Cone, AllAbove

LEMMA ConeAgrees ==
  ASSUME TypeOK, NEW o \in Object \ NewGroup, Untouched(o)
  PROVE  Agree(tuples, Initial, Cone(o))
  <1>1. tuples \subseteq Assignable /\ Initial \subseteq Assignable
    BY AccessAssumption DEF TypeOK
  <1>2. \A t \in tuples \cup Initial : t.object \in Cone(o) => t \in Initial
    BY <1>1 DEF Untouched
  <1>3. \A t \in Initial : t.object \in Cone(o) /\ t.subject.id \in Object
                             => RefersTo(t.object, t.subject.id)
    BY DEF RefersTo
  <1>4. \A v \in FeedVersion : RefersTo(v, FeedOf[v])
    BY DEF RefersTo
  <1>5. \A x \in Cone(o) : \A y : RefersTo(x, y) => y \in Cone(o)
    BY ConeClosed
  <1>6. \A t \in tuples \cup Initial :
          t.object \in Cone(o) /\ t.subject.id \in Object => t.subject.id \in Cone(o)
    BY <1>2, <1>3, <1>5
  <1>7. \A v \in Cone(o) \cap FeedVersion : FeedOf[v] \in Cone(o)
    BY <1>4, <1>5
  <1> QED BY <1>1, <1>6, <1>7 DEF Agree, Untouched

(* Who passes the check of a call on the cone of an object controls the object. *)
LEMMA CheckedControls ==
  ASSUME TypeInv, NEW o \in Object \ NewGroup, Untouched(o), NEW c \in Call, pc[c] = "act",
         request[c].op # "create", MayAct(c), target[c].object \in Cone(o)
  PROVE  request[c].user \in Controllers[o]
  <1> DEFINE u == request[c].user
             x == target[c].object
  <1>1. u \in User /\ request[c] \in Request
    BY RequestFacts DEF TypeInv, CallsKnow
  <1>2. u \in GlobalAdmin \/ CanSetParent(tuples, u, x) \/ CanEditMembers(tuples, u, x)
    BY DEF MayAct, Allowed
  <1>3. Agree(tuples, Initial, Cone(o))
    BY ConeAgrees DEF TypeInv
  <1>4. u \in GlobalAdmin \/ CanSetParent(Initial, u, x) \/ CanEditMembers(Initial, u, x)
    BY <1>2, <1>3, SameRights
  <1>5. Controls(Initial, u, o)
    BY <1>4 DEF Controls, Cone
  <1> QED BY <1>1, <1>5, ControllersAre

LEMMA GivenInit == OrderlyStart /\ Init => GivenInv
  <1> SUFFICES ASSUME OrderlyStart, Init PROVE GivenInv
    OBVIOUS
  <1>1. \A o \in Object \ NewGroup : GivenOf(o)
    BY WorkingIs DEF Init, GivenOf, Untouched, Meddles
  <1> QED BY <1>1, GapInit DEF GivenInv

LEMMA GivenStep ==
  ASSUME OrderlyStart
  PROVE  GivenInv /\ [Next]_vars => GivenInv'
  <1> SUFFICES ASSUME GivenInv, [Next]_vars, NEW o \in Object \ NewGroup,
                      Controllers[o] \cap authors' = {}
               PROVE  Untouched(o)'
                        /\ \A d \in Call : Meddles(d, o)' => request'[d].user \in Controllers[o]
    BY GapStep DEF GivenInv, GivenOf
  <1> USE WorkingIs
  <1>typ. GapInv /\ TypeInv /\ TypeOK
    BY DEF GivenInv, GapInv, TypeInv
  <1>old. authors \subseteq authors'
    BY DEF Next, Begin, CheckView, CheckAction, Read, Write, Delete, Remove, Insert, Fail, vars
  <1>was. /\ Untouched(o)
          /\ \A d \in Call : Meddles(d, o) => request[d].user \in Controllers[o]
    BY <1>old DEF GivenInv, GivenOf
  <1> DEFINE Goal == Untouched(o)'
                       /\ \A d \in Call : Meddles(d, o)' => request'[d].user \in Controllers[o]
(* A step that leaves the tuples of the cone alone, and puts no call to work there. *)
  <1>quiet. ASSUME NEW c \in Call, request'[c] = request[c] \/ ~Meddles(c, o)',
                   \A d \in Call : d # c => /\ pc'[d] = pc[d] /\ request'[d] = request[d]
                                            /\ target'[d] = target[d],
                   \A t \in Assignable : t.object \in Cone(o) => (t \in tuples' <=> t \in tuples),
                   Meddles(c, o)' => Meddles(c, o)
            PROVE  Goal
    BY <1>was, <1>quiet DEF Untouched, Meddles
(* A call that changes tuples makes its user an author, so it is not about the cone. *)
  <1>away. ASSUME NEW c \in Call, pc[c] \in {"remove"} \cup Working,
                  authors' = authors \cup {request[c].user}
           PROVE  target[c].object \notin Cone(o)
    BY <1>was, <1>away DEF Meddles
  <1>1. ASSUME NEW c \in Call, NEW r \in Request, Begin(c, r) PROVE Goal
    <2>1. /\ \A d \in Call : d # c => /\ pc'[d] = pc[d] /\ request'[d] = request[d]
                                      /\ target'[d] = target[d]
          /\ pc'[c] \in {"view", "act"} /\ tuples' = tuples
      BY <1>1, <1>typ DEF Begin, Goto, TypeOK
    <2> QED BY <2>1, <1>quiet DEF Meddles
  <1>2. ASSUME NEW c \in Call, CheckView(c) PROVE Goal
    <2>1. /\ \A d \in Call : d # c => pc'[d] = pc[d]
          /\ pc'[c] \in {"act", "error"} /\ UNCHANGED <<tuples, request, target>>
      BY <1>2, <1>typ DEF CheckView, Goto, TypeOK
    <2> QED BY <2>1, <1>quiet DEF Meddles
  <1>3. ASSUME NEW c \in Call, CheckAction(c) PROVE Goal
    <2>1. /\ \A d \in Call : d # c => pc'[d] = pc[d]
          /\ pc[c] = "act" /\ UNCHANGED <<tuples, request, target>>
          /\ pc'[c] = IF MayAct(c) THEN AfterAct[request[c].op] ELSE "error"
      BY <1>3, <1>typ DEF CheckAction, Goto, TypeOK
    <2>2. request[c] \in Request
      BY <2>1, <1>typ DEF TypeInv, CallsKnow
    <2>3. pc'[c] \in {"read", "remove"} => MayAct(c) /\ request[c].op # "create"
      BY <2>1, <2>2, RequestFacts DEF AfterAct
    <2>4. pc'[c] \notin Working
      BY <2>1, <2>2, RequestFacts DEF AfterAct
    <2>5. Meddles(c, o)' => request[c].user \in Controllers[o]
      BY <2>1, <2>3, <2>4, <1>typ, <1>was, CheckedControls DEF Meddles
    <2> QED BY <2>1, <2>5, <1>was DEF Untouched, Meddles
  <1>4. ASSUME NEW c \in Call, Read(c) PROVE Goal
    <2>1. /\ \A d \in Call : d # c => pc'[d] = pc[d]
          /\ pc[c] = "read" /\ UNCHANGED <<tuples, request, target>>
      BY <1>4, <1>typ DEF Read, Goto, TypeOK
    <2> QED BY <2>1, <1>quiet DEF Meddles
  <1>5. ASSUME NEW c \in Call, Write(c) PROVE Goal
    <2>1. /\ \A d \in Call : d # c => pc'[d] = pc[d]
          /\ pc[c] = "write" /\ UNCHANGED <<request, target>>
          /\ tuples' = tuples \cup {target[c]} /\ authors' = authors \cup {request[c].user}
      BY <1>5, <1>typ DEF Write, Goto, TypeOK
    <2>2. target[c].object \notin Cone(o)
      BY <2>1, <1>away
    <2> QED BY <2>1, <2>2, <1>quiet DEF Meddles
  <1>6. ASSUME NEW c \in Call, Delete(c) PROVE Goal
    <2>1. PICK t \in del[c] : tuples' = tuples \ {t} \/ tuples' = tuples
      BY <1>6 DEF Delete
    <2>2. /\ \A d \in Call : d # c => pc'[d] = pc[d]
          /\ pc[c] = "delete" /\ UNCHANGED <<request, target>>
          /\ authors' = authors \cup {request[c].user}
      BY <1>6, <1>typ DEF Delete, Goto, TypeOK
    <2>3. target[c].object \notin Cone(o)
      BY <2>2, <1>away
    <2>4. t.object = target[c].object
      BY <2>2, <1>typ, SlotHasObject DEF GapInv, RivalsOnly
    <2> QED BY <2>1, <2>2, <2>3, <2>4, <1>quiet DEF Meddles
  <1>7. ASSUME NEW c \in Call, Remove(c) PROVE Goal
    <2>1. /\ \A d \in Call : d # c => pc'[d] = pc[d]
          /\ pc[c] = "remove" /\ UNCHANGED <<request, target>>
          /\ tuples' = tuples \ {target[c]} /\ authors' = authors \cup {request[c].user}
      BY <1>7, <1>typ DEF Remove, Goto, TypeOK
    <2>2. target[c].object \notin Cone(o)
      BY <2>1, <1>away
    <2> QED BY <2>1, <2>2, <1>quiet DEF Meddles
  <1>8. ASSUME NEW c \in Call, Insert(c) PROVE Goal
    <2>1. PICK g \in Group \ groups :
            target' = [target EXCEPT ![c] = Tuple(Key(request[c].tenant), "parent", g)]
      BY <1>8 DEF Insert
    <2>2. /\ \A d \in Call : d # c => pc'[d] = pc[d] /\ target'[d] = target[d]
          /\ target'[c].object = g /\ UNCHANGED <<tuples, request>>
      BY <1>8, <2>1, <1>typ, TupleIs DEF Insert, Goto, TypeOK
    <2>3. g \notin Cone(o)
      BY <1>typ, ConeIsOld DEF TypeOK
    <2> QED BY <2>2, <2>3, <1>quiet DEF Meddles
  <1>9. ASSUME NEW c \in Call, Fail(c) PROVE Goal
    <2>1. /\ \A d \in Call : d # c => pc'[d] = pc[d]
          /\ pc'[c] = "error" /\ UNCHANGED <<tuples, request, target>>
      BY <1>9, <1>typ DEF Fail, Goto, TypeOK
    <2> QED BY <2>1, <1>quiet DEF Meddles
  <1>10. CASE UNCHANGED vars
    BY <1>10, <1>was DEF vars, calls, Untouched, Meddles
  <1> QED
    BY <1>1, <1>2, <1>3, <1>4, <1>5, <1>6, <1>7, <1>8, <1>9, <1>10 DEF Next

(* Nobody, alone or with others, and whatever calls run between the check of a call   *)
(* and its writes, takes a right to an object that nobody of them could give: some     *)
(* call was made by a user who controlled the object at the start.                     *)
THEOREM RightsAreGiven ==
  ASSUME OrderlyStart
  PROVE  Spec => []GainsAreGiven
  <1>1. GivenInv => GainsAreGiven
    <2> SUFFICES ASSUME GivenInv, NEW o \in Object \ NewGroup, Controllers[o] \cap authors = {},
                        NEW u \in User
                 PROVE  ~Gains(u, o)
      BY DEF GainsAreGiven
    <2>1. Agree(tuples, Initial, Cone(o))
      BY ConeAgrees DEF GivenInv, GapInv, TypeInv, GivenOf
    <2>2. o \in Cone(o)
      BY ConeClosed
    <2>3. AtStart[u][o] =
            [view |-> CanView(Initial, u, o), edit |-> CanEdit(Initial, u, o),
             members |-> CanEditMembers(Initial, u, o), group |-> CanSetGroup(Initial, u, o)]
      BY DEF AtStart
    <2>4. /\ CanView(tuples, u, o) <=> CanView(Initial, u, o)
          /\ CanEdit(tuples, u, o) <=> CanEdit(Initial, u, o)
          /\ CanEditMembers(tuples, u, o) <=> CanEditMembers(Initial, u, o)
          /\ CanSetGroup(tuples, u, o) <=> CanSetGroup(Initial, u, o)
      BY <2>1, <2>2, SameRights
    <2> QED BY <2>3, <2>4 DEF Gains
  <1>2. GivenInv /\ [Next]_vars => GivenInv'
    BY GivenStep
  <1>3. Init => GivenInv
    BY GivenInit
  <1> QED BY <1>1, <1>2, <1>3, PTL DEF Spec
=============================================================================
