--------------------------- MODULE LegGroupsProofs ---------------------------
(***************************************************************************)
(* What holds of a multi-leg trade for every set of legs and every         *)
(* quantity, whichever of its venues let their answers overtake the fills. *)
(***************************************************************************)
EXTENDS LegGroups, ExecutionProofs

Groups == {"NONE", "PENDING", "COMPLETE", "ABANDONED", "UNWINDING", "UNWOUND"}
Places == {"idle", "placing", "cancelling", "unwinding", "dead"}
Legs == [known: BOOLEAN, quantity: 0..Qty, filled: Nat, status: Status]
Held == group = "PENDING" /\ handler.at # "dead"

\* What is true of one leg: a leg that never joined has no order, or its order killed
\* the loop; what the group
\* holds as filled, and what is unreported, really traded, and while the group is
\* held and the loop lives that is all that traded; an unwind sells no more than
\* that; at a venue that answers in order, executor and group agree.
LegSound(l) ==
  LET m == machine[Opening(l)]
      v == venue[Opening(l)]
      t == transit[Opening(l)]
      leg == legs[l]
  IN /\ ~leg.known => leg.filled = 0 /\ (handler.at = "dead" \/ (m = NoMachine /\ v = NoOrder /\ t = 0))
     /\ leg.known => leg.quantity = Qty
     /\ leg.filled + t <= v.filled
     /\ Held /\ leg.known => leg.filled + t = v.filled
     /\ venue[Unwinding(l)].quantity <= v.filled
     /\ l \notin Quick => Consistent(m, v, t)
     /\ l \notin Quick /\ group = "PENDING" /\ leg.known => leg.filled = m.filled

\* Where the loop is in its handling of the group.
HandlerSound ==
  /\ handler.at = "placing" =>
       group \in {"NONE", "PENDING"} /\ \A l \in handler.left : ~legs[l].known
  /\ handler.at \in {"cancelling", "unwinding"} => group = "UNWINDING"
  /\ handler.at = "unwinding" => \A l \in handler.left : legs[l].filled > 0
  /\ group = "NONE" => \A l \in Leg : ~legs[l].known
  /\ group = "PENDING" => \E l \in Leg : legs[l].known

GroupTypeOK ==
  /\ TypeOK
  /\ legs \in [Leg -> Legs]
  /\ group \in Groups /\ expired \in BOOLEAN
  /\ handler \in [at: Places, left: SUBSET Leg]

GroupInv == GroupTypeOK /\ HandlerSound /\ \A l \in Leg : LegSound(l)

-----------------------------------------------------------------------------
(* The orders of the legs                                                  *)

\* Every leg has two orders of its own, and none of them trades inside place.
LEMMA Purposes ==
  ASSUME NEW l \in Leg
  PROVE  /\ Opening(l) \in Order \ Instant /\ Unwinding(l) \in Order \ Instant
         /\ Opening(l) # Unwinding(l)
         /\ l \notin Quick => Opening(l) \notin Overtakes
         /\ \A d \in Leg \ {l} : {Opening(d), Unwinding(d)} \cap {Opening(l), Unwinding(l)} = {}
BY GroupAssumption DEF Opening, Unwinding

\* The orders of two legs have nothing in common: what happens to one leg's orders
\* leaves the other's alone.
LEMMA Untouched ==
  ASSUME TypeOK, NEW l \in Leg, NEW c \in {Opening(l), Unwinding(l)}, NEW q \in 1..Qty,
         \/ Submit(c, q) \/ ResolveUnknown(c) \/ Cancel(c)
         \/ DeliverFill(c, q) \/ VenueFill(c, q) \/ VenueExpire(c)
  PROVE  \A e \in Order \ {c} :
           machine'[e] = machine[e] /\ venue'[e] = venue[e] /\ transit'[e] = transit[e]
BY Purposes, Local

\* A leg whose record and orders a step leaves alone stays sound, as long as the
\* step neither takes the group up again nor revives the loop.
LEMMA LegFrame ==
  ASSUME NEW l \in Leg, LegSound(l), legs'[l] = legs[l],
         machine'[Opening(l)] = machine[Opening(l)], venue'[Opening(l)] = venue[Opening(l)],
         transit'[Opening(l)] = transit[Opening(l)],
         venue'[Unwinding(l)] = venue[Unwinding(l)],
         Held' => Held \/ ~legs[l].known, handler.at = "dead" => handler'.at = "dead",
         group' = "PENDING" => group = "PENDING" \/ ~legs[l].known
  PROVE  LegSound(l)'
BY DEF LegSound

\* The same for all legs but one.
LEMMA OthersSound ==
  ASSUME GroupInv, NEW l \in Leg, NEW c \in {Opening(l), Unwinding(l)}, NEW q \in 1..Qty,
         \/ Submit(c, q) \/ ResolveUnknown(c) \/ Cancel(c)
         \/ DeliverFill(c, q) \/ VenueFill(c, q) \/ VenueExpire(c)
         \/ UNCHANGED <<machine, venue, transit>>,
         \A d \in Leg \ {l} : legs'[d] = legs[d],
         handler.at = "dead" => handler'.at = "dead",
         \A d \in Leg \ {l} : Held' => Held \/ ~legs[d].known,
         \A d \in Leg \ {l} : group' = "PENDING" => group = "PENDING" \/ ~legs[d].known
  PROVE  \A d \in Leg \ {l} : LegSound(d)'
<1> SUFFICES ASSUME NEW d \in Leg \ {l} PROVE LegSound(d)'
  OBVIOUS
<1>1. {Opening(d), Unwinding(d)} \subseteq Order \ {c}
  BY Purposes
<1>2. \A e \in {Opening(d), Unwinding(d)} :
        machine'[e] = machine[e] /\ venue'[e] = venue[e] /\ transit'[e] = transit[e]
  BY <1>1, Untouched DEF GroupInv, GroupTypeOK
<1>3. QED
  BY <1>2, LegFrame DEF GroupInv

\* What a step that touches no order and no leg's record leaves sound.
LEMMA AllSound ==
  ASSUME GroupInv, UNCHANGED <<machine, venue, transit, legs>>,
         Held' => Held \/ group = "NONE", handler.at = "dead" => handler'.at = "dead",
         group' = "PENDING" => group \in {"NONE", "PENDING"}
  PROVE  \A l \in Leg : LegSound(l)'
BY LegFrame DEF GroupInv, HandlerSound

-----------------------------------------------------------------------------
(* A group drives its orders as the execution layer allows.                *)

\* What the group holds as filled of a leg is a quantity the leg may be sold back in.
LEMMA FilledBounds ==
  ASSUME GroupInv, NEW l \in Leg
  PROVE  legs[l].filled \in 0..Qty
<1>1. legs[l].filled \in Nat /\ transit[Opening(l)] \in Nat /\ venue[Opening(l)].filled \in 0..Qty
  BY Purposes DEF GroupInv, GroupTypeOK, Legs, TypeOK
<1>2. legs[l].filled + transit[Opening(l)] <= venue[Opening(l)].filled
  BY DEF GroupInv, LegSound
<1>3. QED
  BY <1>1, <1>2, ExecutionAssumption

\* Every step of a group is a step of the execution layer, or touches no order.
LEMMA GroupStep ==
  ASSUME GroupInv, [GroupNext]_groupVars
  PROVE  [Next]_vars
<1>0. \A l \in Leg : Opening(l) \in Order /\ Unwinding(l) \in Order
  BY Purposes
<1>1. ASSUME NEW l \in Leg, PlaceLeg(l) PROVE [Next]_vars
  <2>1. CASE \E q \in (IF Reduces THEN 1 ELSE Qty)..Qty : Submit(Opening(l), q)
    <3>1. PICK q \in 1..Qty : Submit(Opening(l), q)
      BY <2>1, ExecutionAssumption
    <3>2. QED
      BY <1>0, <3>1 DEF Next
  <2>2. CASE UNCHANGED <<machine, venue, transit>>
    BY <2>2 DEF vars
  <2>3. QED
    BY <1>1, <2>1, <2>2 DEF PlaceLeg
<1>9. ASSUME NEW l \in Leg, OpenRaises(l) PROVE [Next]_vars
  <2>1. CASE \E q \in (IF Reduces THEN 1 ELSE Qty)..Qty : Submit(Opening(l), q)
    <3>1. PICK q \in 1..Qty : Submit(Opening(l), q)
      BY <2>1, ExecutionAssumption
    <3>2. QED
      BY <1>0, <3>1 DEF Next
  <2>2. CASE UNCHANGED <<machine, venue, transit>>
    BY <2>2 DEF vars
  <2>3. QED
    BY <1>9, <2>1, <2>2 DEF OpenRaises
<1>2. ASSUME NEW l \in Leg, CancelLeg(l) PROVE [Next]_vars
  BY <1>0, <1>2 DEF CancelLeg, Next, vars
<1>3. ASSUME NEW l \in Leg, UnwindLeg(l) PROVE [Next]_vars
  <2>1. legs[l].filled \in 1..Qty
    <3>1. legs[l].filled > 0
      BY <1>3 DEF UnwindLeg, GroupInv, HandlerSound
    <3>2. QED
      BY <3>1, FilledBounds, ExecutionAssumption
  <2>2. CASE \E q \in (IF Reduces THEN 1 ELSE legs[l].filled)..legs[l].filled : Submit(Unwinding(l), q)
    <3>1. PICK q \in 1..Qty : Submit(Unwinding(l), q)
      BY <2>1, <2>2, ExecutionAssumption
    <3>2. QED
      BY <1>0, <3>1 DEF Next
  <2>3. CASE UNCHANGED <<machine, venue, transit>>
    BY <2>3 DEF vars
  <2>4. QED
    BY <1>3, <2>2, <2>3 DEF UnwindLeg
<1>4. ASSUME NEW l \in Leg, NEW purpose \in {"open", "unwind"}, NEW q \in 1..Qty,
             Fill(l, purpose, q)
      PROVE  [Next]_vars
  <2>1. <<l, purpose>> \in Order /\ DeliverFill(<<l, purpose>>, q)
    BY <1>0, <1>4 DEF Fill, Opening, Unwinding
  <2>2. QED
    BY <2>1 DEF Next
<1>5. CASE Venue
  BY <1>5 DEF Venue, Next
<1>6. CASE \/ Signal \/ Placed \/ Sweep \/ StartUnwind \/ MarkUnwound \/ Expire
           \/ \E l \in Leg : SkipLeg(l)
  BY <1>6 DEF Signal, Placed, Sweep, StartUnwind, MarkUnwound, Expire, SkipLeg, vars
<1>7. CASE UNCHANGED groupVars
  BY <1>7 DEF groupVars, vars
<1>8. QED
  BY <1>1, <1>2, <1>3, <1>4, <1>5, <1>6, <1>7, <1>9 DEF GroupNext

\* The order layer keeps its types under the steps of a group.
LEMMA GroupOrdersTyped ==
  ASSUME GroupInv, [GroupNext]_groupVars
  PROVE  TypeOK'
BY GroupStep, TypeKept DEF GroupInv, GroupTypeOK

-----------------------------------------------------------------------------
(* One lemma for each step that touches a leg                              *)

\* Submitting an order trades nothing where orders do not trade inside place.
LEMMA SubmitRests ==
  ASSUME TypeOK, NEW c \in Order \ Instant, NEW q \in 1..Qty, Submit(c, q)
  PROVE  /\ transit' = transit /\ venue'[c].filled = venue[c].filled
         /\ venue'[c].quantity \in {venue[c].quantity, q}
BY Alive DEF Submit, NoOrder, TypeOK

\* A leg joins the group with nothing filled, whether its order was taken, refused
\* or lost on the way.
LEMMA PlaceKeepsInv ==
  ASSUME GroupInv, NEW l \in Leg, PlaceLeg(l)
  PROVE  GroupInv'
<1> DEFINE O == Opening(l)
           U == Unwinding(l)
<1>1. /\ handler \in [at: Places, left: SUBSET Leg] /\ legs \in [Leg -> Legs] /\ TypeOK
      /\ O \in Order \ Instant /\ U \in Order /\ U # O
  BY Purposes DEF GroupInv, GroupTypeOK
<1>2. /\ handler.at = "placing" /\ group \in {"NONE", "PENDING"} /\ ~legs[l].known
      /\ handler' = At("placing", handler.left \ {l}) /\ group' = "PENDING"
      /\ expired' = expired
  BY DEF PlaceLeg, GroupInv, HandlerSound
<1>3. PICK s \in {"REJECTED", "INTENT"} : legs' = [legs EXCEPT ![l] = NewLeg(s)]
  BY DEF PlaceLeg
<1>4. /\ legs'[l] = NewLeg(s) /\ NewLeg(s) \in Legs
      /\ NewLeg(s).known /\ NewLeg(s).quantity = Qty /\ NewLeg(s).filled = 0
      /\ \A d \in Leg \ {l} : legs'[d] = legs[d]
  BY <1>1, <1>3, ExecutionAssumption DEF NewLeg, Legs, Status, Terminal
<1>5. legs' \in [Leg -> Legs]
  BY <1>1, <1>3, <1>4
<1>6. PICK q \in 1..Qty : Submit(O, q) \/ UNCHANGED <<machine, venue, transit>>
  <2>1. 1 \in 1..Qty
    BY ExecutionAssumption
  <2>2. QED
    BY <2>1, ExecutionAssumption DEF PlaceLeg
<1>7. GroupTypeOK'
  BY <1>1, <1>2, <1>5, GroupOrdersTyped DEF GroupTypeOK, GroupInv, Groups, At, Places, GroupNext
<1>8. HandlerSound'
  BY <1>1, <1>2, <1>4 DEF HandlerSound, GroupInv, At
<1>9. LegSound(l)'
  <2>1. /\ machine[O] = NoMachine /\ venue[O] = NoOrder /\ transit[O] = 0
        /\ venue[U].quantity <= venue[O].filled
        /\ l \notin Quick => Agrees(O)
    BY <1>2 DEF GroupInv, LegSound, Agrees
  <2>2. NoOrder.filled = 0 /\ NoMachine.filled = 0
    BY DEF NoOrder, NoMachine
  <2>3. venue'[U] = venue[U]
    BY <1>1, <1>6, Untouched
  <2>4. transit'[O] = 0 /\ venue'[O].filled = 0
    BY <1>1, <1>6, <2>1, <2>2, SubmitRests
  <2>5. l \notin Quick => Agrees(O)' /\ machine'[O].filled = 0
    <3>1. CASE Submit(O, q)
      BY <1>1, <2>1, <3>1, SubmitAgrees
    <3>2. CASE UNCHANGED <<machine, venue, transit>>
      BY <2>1, <2>2, <3>2 DEF Agrees
    <3>3. QED
      BY <1>6, <3>1, <3>2
  <2> HIDE DEF O, U
  <2>6. QED
    BY <1>4, <2>1, <2>2, <2>3, <2>4, <2>5 DEF LegSound, O, U, Agrees
<1>10. \A d \in Leg \ {l} : LegSound(d)'
  <2>1. \A d \in Leg \ {l} : group = "PENDING" \/ ~legs[d].known
    BY <1>2 DEF GroupInv, HandlerSound
  <2>2. group = "PENDING" => Held
    BY <1>2 DEF Held
  <2>3. QED
    BY <1>2, <1>4, <1>6, <2>1, <2>2, OthersSound
<1>11. QED
  BY <1>7, <1>8, <1>9, <1>10 DEF GroupInv

\* A first leg whose group cannot be opened leaves its order behind and kills the loop.
LEMMA RaiseKeepsInv ==
  ASSUME GroupInv, NEW l \in Leg, OpenRaises(l)
  PROVE  GroupInv'
<1> DEFINE O == Opening(l)
           U == Unwinding(l)
<1>1. /\ TypeOK /\ O \in Order \ Instant /\ U \in Order /\ U # O
  BY Purposes DEF GroupInv, GroupTypeOK
<1>2. /\ handler.at = "placing" /\ group = "NONE" /\ ~legs[l].known
      /\ handler'.at = "dead" /\ handler' \in [at: Places, left: SUBSET Leg]
      /\ UNCHANGED <<legs, group, expired>>
  BY DEF OpenRaises, GroupInv, HandlerSound, Dead, At, Places
<1>3. PICK q \in 1..Qty : Submit(O, q) \/ UNCHANGED <<machine, venue, transit>>
  <2>1. 1 \in 1..Qty
    BY ExecutionAssumption
  <2>2. QED
    BY <2>1, ExecutionAssumption DEF OpenRaises
<1>4. GroupTypeOK' /\ HandlerSound'
  BY <1>2, GroupOrdersTyped DEF GroupTypeOK, HandlerSound, GroupInv, GroupNext
<1>5. LegSound(l)'
  <2>1. /\ venue[O] = NoOrder /\ transit[O] = 0 /\ legs[l].filled = 0
        /\ venue[U].quantity <= venue[O].filled
        /\ l \notin Quick => Agrees(O)
    BY <1>2 DEF GroupInv, LegSound, Agrees
  <2>2. venue'[U] = venue[U]
    BY <1>1, <1>3, Untouched
  <2>3. transit'[O] = 0 /\ venue'[O].filled = venue[O].filled /\ venue[O].filled = 0
    BY <1>1, <1>3, <2>1, SubmitRests DEF NoOrder
  <2>4. l \notin Quick => Agrees(O)'
    <3>1. CASE Submit(O, q)
      BY <1>1, <2>1, <3>1, SubmitAgrees
    <3>2. CASE UNCHANGED <<machine, venue, transit>>
      BY <2>1, <3>2 DEF Agrees
    <3>3. QED
      BY <1>3, <3>1, <3>2
  <2> HIDE DEF O, U
  <2>5. QED
    BY <1>2, <2>1, <2>2, <2>3, <2>4 DEF LegSound, Held, O, U, Agrees
<1>6. \A d \in Leg \ {l} : LegSound(d)'
  BY <1>2, <1>3, OthersSound DEF Held
<1>7. QED
  BY <1>4, <1>5, <1>6 DEF GroupInv

\* A cancel, whatever comes of it, changes neither what a leg traded nor what the
\* group knows of it.
LEMMA CancelKeepsInv ==
  ASSUME GroupInv, NEW l \in Leg, CancelLeg(l)
  PROVE  GroupInv'
<1> DEFINE O == Opening(l)
           U == Unwinding(l)
<1>1. /\ handler \in [at: Places, left: SUBSET Leg] /\ TypeOK
      /\ O \in Order \ Instant /\ U \in Order /\ U # O
      /\ l \notin Quick => O \notin Overtakes
  BY Purposes DEF GroupInv, GroupTypeOK
<1>2. /\ handler.at = "cancelling" /\ group = "UNWINDING"
      /\ handler' = At("cancelling", handler.left \ {l})
      /\ legs' = legs /\ group' = group /\ expired' = expired
  BY DEF CancelLeg, GroupInv, HandlerSound
<1>3. \/ Cancel(O) \/ UNCHANGED <<machine, venue, transit>>
  BY DEF CancelLeg
<1>4. GroupTypeOK'
  BY <1>1, <1>2, GroupOrdersTyped DEF GroupTypeOK, GroupInv, At, Places, GroupNext
<1>5. HandlerSound'
  BY <1>1, <1>2 DEF HandlerSound, GroupInv, At
<1>6. \A d \in Leg \ {l} : LegSound(d)'
  <2>1. 1 \in 1..Qty
    BY ExecutionAssumption
  <2>2. QED
    BY <1>2, <1>3, <2>1, OthersSound DEF Held, At
<1>7. LegSound(l)'
  <2>1. CASE UNCHANGED <<machine, venue, transit>>
    BY <1>2, <2>1, LegFrame DEF GroupInv, Held
  <2>2. CASE Cancel(O)
    <3>1. /\ machine[O].status # "NONE" /\ transit' = transit /\ InOrder(O)
      BY <2>2 DEF Cancel
    <3>2. legs[l].known
      BY <1>2, <3>1 DEF GroupInv, LegSound, NoMachine
    <3>3. venue'[U] = venue[U]
      <4>1. 1 \in 1..Qty
        BY ExecutionAssumption
      <4>2. QED
        BY <1>1, <2>2, <4>1, Untouched
    <3>4. venue'[O].filled = venue[O].filled
      BY <1>1, <2>2 DEF Cancel, CancelWorking, CancelRefused, TypeOK
    <3>5. l \notin Quick => Agrees(O)'
      BY <1>1, <2>2, <3>1, CancelAgrees DEF InOrder, GroupInv, LegSound, Agrees
    <3> HIDE DEF O, U
    <3>6. QED
      BY <1>2, <3>1, <3>2, <3>3, <3>4, <3>5 DEF GroupInv, LegSound, Held, Agrees, O, U
  <2>3. QED
    BY <1>3, <2>1, <2>2
<1>8. QED
  BY <1>4, <1>5, <1>6, <1>7 DEF GroupInv

\* An unwind asks for no more than the group knows its leg to hold.
LEMMA UnwindKeepsInv ==
  ASSUME GroupInv, NEW l \in Leg, UnwindLeg(l)
  PROVE  GroupInv'
<1> DEFINE O == Opening(l)
           U == Unwinding(l)
<1>1. /\ handler \in [at: Places, left: SUBSET Leg] /\ TypeOK
      /\ O \in Order \ Instant /\ U \in Order \ Instant /\ U # O
  BY Purposes DEF GroupInv, GroupTypeOK
<1>2. /\ handler.at = "unwinding" /\ group = "UNWINDING" /\ l \in handler.left
      /\ handler' = At("unwinding", handler.left \ {l})
      /\ legs' = legs /\ group' = group /\ expired' = expired
  BY DEF UnwindLeg, GroupInv, HandlerSound
<1>3. legs[l].filled \in 1..Qty
  BY <1>2, FilledBounds, ExecutionAssumption DEF GroupInv, HandlerSound
<1>4. PICK q \in 1..legs[l].filled : Submit(U, q) \/ UNCHANGED <<machine, venue, transit>>
  BY <1>3 DEF UnwindLeg
<1>5. q \in 1..Qty /\ q <= legs[l].filled
  BY <1>3, <1>4, ExecutionAssumption
<1>6. GroupTypeOK'
  BY <1>1, <1>2, GroupOrdersTyped DEF GroupTypeOK, GroupInv, At, Places, GroupNext
<1>7. HandlerSound'
  BY <1>1, <1>2 DEF HandlerSound, GroupInv, At
<1>8. \A d \in Leg \ {l} : LegSound(d)'
  BY <1>2, <1>4, <1>5, OthersSound DEF Held, At
<1>9. LegSound(l)'
  <2>1. CASE UNCHANGED <<machine, venue, transit>>
    BY <1>2, <2>1, LegFrame DEF GroupInv, Held
  <2>2. CASE Submit(U, q)
    <3>1. /\ machine'[O] = machine[O] /\ venue'[O] = venue[O] /\ transit'[O] = transit[O]
      BY <1>1, <1>5, <2>2, Untouched
    <3>2. venue'[U].quantity \in {venue[U].quantity, q}
      BY <1>1, <1>5, <2>2, SubmitRests
    <3>3. /\ legs[l].filled + transit[O] <= venue[O].filled
          /\ venue[U].quantity <= venue[O].filled
          /\ venue[O].filled \in Nat /\ transit[O] \in Nat
      BY <1>1 DEF GroupInv, LegSound, TypeOK
    <3>4. venue'[U].quantity <= venue'[O].filled
      BY <1>3, <1>5, <3>1, <3>2, <3>3
    <3> HIDE DEF O, U
    <3>5. QED
      BY <1>2, <3>1, <3>4 DEF GroupInv, LegSound, Held, O, U
  <2>3. QED
    BY <1>4, <2>1, <2>2
<1>10. QED
  BY <1>6, <1>7, <1>8, <1>9 DEF GroupInv

\* A fill is counted in the machine even if the transition it asks for is illegal.
LEMMA FillCounts ==
  ASSUME NEW m \in Machines, m.status # "NONE", NEW q \in Nat
  PROVE  OnFill(m, q).filled = m.filled + q
<1> DEFINE f == [m EXCEPT !.filled = @ + q]
<1>1. f \in Machines /\ f.status # "NONE" /\ f.filled = m.filled + q
  BY DEF Machines
<1>2. OnFill(m, q) \in {f, Transition(f, "FILLED"), Transition(f, "PARTIAL")}
  BY DEF OnFill
<1> HIDE DEF f
<1>3. QED
  BY <1>1, <1>2, TransitionType DEF Status, Terminal

\* A leg's record counts a fill once and keeps what was asked for.
LEMMA LegAfterType ==
  ASSUME NEW leg \in Legs, NEW q \in Nat
  PROVE  /\ LegAfter(leg, q) \in Legs
         /\ LegAfter(leg, q).known = leg.known /\ LegAfter(leg, q).quantity = leg.quantity
         /\ LegAfter(leg, q).filled = leg.filled + q
<1> DEFINE status == IF leg.filled + q >= leg.quantity THEN "FILLED" ELSE leg.status
<1>1. LegAfter(leg, q) = [leg EXCEPT !.filled = @ + q, !.status = status]
  BY DEF LegAfter, Legs
<1>2. status \in Status /\ leg.filled + q \in Nat
  BY DEF Legs, Status, Terminal
<1> HIDE DEF status
<1>3. QED
  BY <1>1, <1>2 DEF Legs

\* A fill of the order that opens a leg is counted by executor and group alike, as
\* long as the group is held; one that kills the loop is counted by neither.
LEMMA OpenFillSound ==
  ASSUME GroupInv, NEW l \in Leg, NEW q \in 1..Qty, Fill(l, "open", q)
  PROVE  /\ LegSound(l)' /\ legs' \in [Leg -> Legs] /\ legs'[l].known = legs[l].known
         /\ legs'[l].filled >= legs[l].filled
         /\ \A d \in Leg \ {l} : legs'[d] = legs[d]
<1> DEFINE O == Opening(l)
           U == Unwinding(l)
           dead == machine[O].status # "NONE" /\ OnFill([machine[O] EXCEPT !.raised = FALSE], q).raised
<1>1. /\ machine \in [Order -> Machines] /\ transit \in [Order -> Nat] /\ venue \in [Order -> Venues]
      /\ TypeOK
      /\ O \in Order \ Instant /\ O = <<l, "open">> /\ q \in Nat /\ q > 0 /\ legs \in [Leg -> Legs]
  BY Purposes, ExecutionAssumption DEF GroupInv, GroupTypeOK, TypeOK, Machines, Venues, Opening
<1>2. /\ handler = Idle /\ DeliverFill(O, q) /\ group' = group
      /\ dead => handler' = Dead /\ legs' = legs
      /\ ~dead => LegFill(l, q) /\ handler' = handler
  BY <1>1 DEF Fill
<1>3. q <= transit[O] /\ venue' = venue /\ transit'[O] = transit[O] - q
  BY <1>1, <1>2 DEF DeliverFill
<1>4. LegSound(l) /\ legs[l].known
  BY <1>1, <1>2, <1>3 DEF GroupInv, LegSound, Idle
<1>5. legs[l] \in Legs /\ legs[l].filled \in Nat /\ transit[O] \in Nat /\ venue[O].filled \in Nat
  BY <1>1 DEF Legs, Venues
<1>6. /\ handler'.at = "dead" => dead
      /\ dead => handler'.at = "dead"
      /\ handler.at = "idle"
  BY <1>2 DEF Idle, Dead, At
<1>7. CASE ~dead /\ group = "PENDING"
  <2>1. legs' = [legs EXCEPT ![l] = LegAfter(@, q)]
    BY <1>2, <1>4, <1>7 DEF LegFill
  <2>2. /\ legs'[l] = LegAfter(legs[l], q) /\ legs' \in [Leg -> Legs]
        /\ \A d \in Leg \ {l} : legs'[d] = legs[d]
    BY <1>1, <1>5, <2>1, LegAfterType
  <2>3. /\ legs'[l].known /\ legs'[l].quantity = legs[l].quantity
        /\ legs'[l].filled = legs[l].filled + q
    <3>1. /\ LegAfter(legs[l], q).known = legs[l].known
          /\ LegAfter(legs[l], q).quantity = legs[l].quantity
          /\ LegAfter(legs[l], q).filled = legs[l].filled + q
      BY <1>1, <1>5, LegAfterType
    <3>2. QED
      BY <1>4, <2>2, <3>1, Zenon
  <2>4. l \notin Quick => Agrees(O)' /\ machine'[O].filled = machine[O].filled + q
    <3>1. ASSUME l \notin Quick PROVE Agrees(O)
      BY <1>4, <3>1 DEF LegSound, Agrees
    <3>2. ASSUME l \notin Quick
          PROVE  Agrees(O)' /\ machine'[O] = OnFill(machine[O], q) /\ machine[O].status # "NONE"
      BY <1>1, <1>2, <3>1, <3>2, DeliverAgrees
    <3>3. QED
      BY <1>1, <3>2, FillCounts
  <2> HIDE DEF O, U, dead
  <2>5. LegSound(l)'
    <3>1. legs'[l].filled + transit'[O] = legs[l].filled + transit[O]
      BY <1>3, <1>5, <2>3
    <3>2. l \notin Quick => legs'[l].filled = machine'[O].filled
      BY <1>4, <1>7, <2>3, <2>4 DEF LegSound, O
    <3>3. QED
      BY <1>2, <1>3, <1>4, <1>6, <1>7, <2>3, <2>4, <3>1, <3>2 DEF LegSound, Held, Agrees, O
  <2>6. legs'[l].filled >= legs[l].filled
    BY <1>1, <1>5, <2>3
  <2>7. QED
    BY <1>4, <2>2, <2>3, <2>5, <2>6
<1>8. CASE dead \/ group # "PENDING"
  <2>1. legs' = legs
    BY <1>2, <1>8 DEF LegFill
  <2>2. ASSUME l \notin Quick PROVE Agrees(O)' /\ ~dead
    <3>1. Agrees(O)
      BY <1>4, <2>2 DEF LegSound, Agrees
    <3>2. Agrees(O)' /\ machine'[O] = OnFill(machine[O], q)
      BY <1>1, <1>2, <3>1, DeliverAgrees
    <3>3. [machine[O] EXCEPT !.raised = FALSE] = machine[O]
      BY <1>1, <3>1 DEF Agrees, Consistent, Machines
    <3>4. ~OnFill(machine[O], q).raised
      BY <3>2 DEF Agrees, Consistent
    <3>5. QED
      BY <3>2, <3>3, <3>4
  <2> HIDE DEF O, U, dead
  <2>3. legs[l].filled + transit'[O] <= venue[O].filled
    BY <1>1, <1>3, <1>4, <1>5 DEF LegSound, O
  <2>4. LegSound(l)'
    BY <1>2, <1>3, <1>4, <1>6, <1>8, <2>1, <2>2, <2>3 DEF LegSound, Held, Agrees, O
  <2>5. QED
    BY <1>1, <1>5, <2>1, <2>4
<1>9. QED
  BY <1>7, <1>8

\* A fill of the order that unwinds a leg touches nothing the group knows.
LEMMA UnwindFillSound ==
  ASSUME GroupInv, NEW l \in Leg, NEW q \in 1..Qty, Fill(l, "unwind", q)
  PROVE  LegSound(l)' /\ legs' = legs
<1>1. TypeOK /\ Opening(l) \in Order \ {Unwinding(l)} /\ Unwinding(l) = <<l, "unwind">>
  BY Purposes DEF GroupInv, GroupTypeOK, Unwinding
<1>2. /\ DeliverFill(Unwinding(l), q) /\ group' = group /\ legs' = legs
      /\ handler.at = "idle"
  BY <1>1 DEF Fill, Idle, At
<1>3. /\ machine'[Opening(l)] = machine[Opening(l)] /\ transit'[Opening(l)] = transit[Opening(l)]
      /\ venue' = venue
  BY <1>1, <1>2, Untouched DEF DeliverFill
<1>4. QED
  BY <1>2, <1>3, LegFrame DEF GroupInv, Held

\* A fill handed over keeps every leg sound.
LEMMA FillKeepsInv ==
  ASSUME GroupInv, NEW l \in Leg, NEW purpose \in {"open", "unwind"}, NEW q \in 1..Qty,
         Fill(l, purpose, q)
  PROVE  GroupInv'
<1> DEFINE c == <<l, purpose>>
<1>1. /\ TypeOK /\ c \in {Opening(l), Unwinding(l)} /\ legs \in [Leg -> Legs]
      /\ handler \in [at: Places, left: SUBSET Leg] /\ group \in Groups /\ expired \in BOOLEAN
  BY DEF GroupInv, GroupTypeOK, Opening, Unwinding
<1>2. /\ handler = Idle /\ handler' \in {Idle, Dead} /\ DeliverFill(c, q)
      /\ group' = group /\ expired' = expired
  BY DEF Fill
<1>3. /\ LegSound(l)' /\ legs' \in [Leg -> Legs]
      /\ \A d \in Leg \ {l} : legs'[d] = legs[d]
      /\ legs'[l].known = legs[l].known
  <2>1. CASE purpose = "open"
    BY <2>1, OpenFillSound
  <2>2. CASE purpose = "unwind"
    BY <1>1, <2>2, UnwindFillSound
  <2>3. QED
    BY <2>1, <2>2
<1>4. /\ handler.at = "idle" /\ handler'.at \in {"idle", "dead"} /\ handler'.left = {}
      /\ handler' \in [at: Places, left: SUBSET Leg]
  BY <1>2 DEF Idle, Dead, At, Places
<1>5. Held' => Held
  BY <1>2, <1>4 DEF Held
<1>6. GroupTypeOK'
  BY <1>1, <1>2, <1>3, <1>4, GroupOrdersTyped DEF GroupTypeOK, GroupNext
<1>7. HandlerSound'
  <2>1. \A d \in Leg : legs'[d].known = legs[d].known
    BY <1>3
  <2>2. QED
    BY <1>2, <1>4, <2>1 DEF HandlerSound, GroupInv
<1> HIDE DEF c
<1>8. \A d \in Leg \ {l} : LegSound(d)'
  BY <1>1, <1>2, <1>3, <1>4, <1>5, OthersSound
<1>9. QED
  BY <1>3, <1>6, <1>7, <1>8 DEF GroupInv

\* What the venue trades of an order is on the way to be reported.
LEMMA VenueTrades ==
  ASSUME TypeOK, NEW c \in Order, NEW q \in 1..Qty, VenueFill(c, q) \/ VenueExpire(c)
  PROVE  /\ venue[c].status = "LIVE" /\ machine' = machine
         /\ venue'[c].quantity = venue[c].quantity
         /\ venue'[c].filled >= venue[c].filled
         /\ venue'[c].filled - transit'[c] = venue[c].filled - transit[c]
         /\ venue[c].filled \in Nat /\ transit[c] \in Nat
         /\ venue'[c].filled \in Nat /\ transit'[c] \in Nat
<1>1. /\ venue \in [Order -> Venues] /\ transit \in [Order -> Nat]
      /\ venue[c].filled \in Nat /\ transit[c] \in Nat /\ q \in Nat
  BY ExecutionAssumption DEF TypeOK, Venues
<1>2. CASE VenueFill(c, q)
  <2>1. /\ machine' = machine /\ venue[c].status = "LIVE"
        /\ venue'[c].filled = venue[c].filled + q /\ venue'[c].quantity = venue[c].quantity
        /\ transit'[c] = transit[c] + q
    BY <1>1, <1>2 DEF VenueFill, Venues
  <2>2. QED
    BY <1>1, <2>1
<1>3. CASE VenueExpire(c)
  <2>1. /\ machine' = machine /\ transit' = transit /\ venue[c].status = "LIVE"
        /\ \E s \in {"CANCELLED", "REJECTED"} : venue'[c] = [venue[c] EXCEPT !.status = s]
    BY <1>1, <1>3 DEF VenueExpire
  <2>2. venue'[c].filled = venue[c].filled /\ venue'[c].quantity = venue[c].quantity
    BY <1>1, <2>1 DEF Venues
  <2>3. QED
    BY <1>1, <2>1, <2>2
<1>4. QED
  BY <1>2, <1>3

\* The venue trades a leg's order, or closes it: what is unreported grows with what
\* traded, and only an order that was sent trades.
LEMMA VenueKeepsInv ==
  ASSUME GroupInv, Venue
  PROVE  GroupInv'
<1>1. PICK c \in Order : VenueExpire(c) \/ \E q \in 1..Qty : VenueFill(c, q)
  BY DEF Venue
<1>2. PICK q \in 1..Qty : VenueFill(c, q) \/ VenueExpire(c)
  <2>1. 1 \in 1..Qty
    BY ExecutionAssumption
  <2>2. QED
    BY <1>1, <2>1
<1>3. PICK l \in Leg : c \in {Opening(l), Unwinding(l)}
  BY GroupAssumption DEF Opening, Unwinding
<1>4. /\ UNCHANGED <<legs, group, expired, handler>> /\ TypeOK
      /\ Opening(l) \in Order /\ Unwinding(l) \in Order /\ Opening(l) # Unwinding(l)
  BY Purposes DEF Venue, GroupInv, GroupTypeOK
<1>5. Held' = Held
  BY <1>4 DEF Held
<1>6. GroupTypeOK' /\ HandlerSound'
  BY <1>4, GroupOrdersTyped DEF GroupTypeOK, HandlerSound, GroupInv, GroupNext
<1>7. \A d \in Leg \ {l} : LegSound(d)'
  BY <1>2, <1>3, <1>4, <1>5, OthersSound
<1>8. /\ venue[c].status = "LIVE" /\ machine' = machine
      /\ venue'[c].quantity = venue[c].quantity /\ venue'[c].filled >= venue[c].filled
      /\ venue'[c].filled - transit'[c] = venue[c].filled - transit[c]
      /\ venue[c].filled \in Nat /\ transit[c] \in Nat
      /\ venue'[c].filled \in Nat /\ transit'[c] \in Nat
  BY <1>2, <1>4, VenueTrades
<1>9. \A e \in Order \ {c} : venue'[e] = venue[e] /\ transit'[e] = transit[e]
  BY <1>2, <1>4, Local
<1>10. LegSound(l)'
  <2>1. CASE c = Unwinding(l)
    <3>1. venue'[Opening(l)] = venue[Opening(l)] /\ transit'[Opening(l)] = transit[Opening(l)]
      BY <1>4, <1>9, <2>1
    <3>2. QED
      BY <1>4, <1>5, <1>8, <2>1, <3>1 DEF GroupInv, LegSound
  <2>2. CASE c = Opening(l)
    <3>1. LegSound(l) /\ (legs[l].known \/ handler.at = "dead")
      BY <1>8, <2>2 DEF GroupInv, LegSound, NoOrder
    <3>2. l \notin Quick => Agrees(c)'
      BY <1>2, <1>4, <2>2, <3>1, VenueAgrees DEF LegSound, Agrees
    <3>3. venue'[Unwinding(l)] = venue[Unwinding(l)]
      BY <1>4, <1>9, <2>2
    <3>4. legs[l].filled \in Nat /\ venue[Unwinding(l)].quantity \in Nat
      BY <1>4 DEF GroupInv, GroupTypeOK, Legs, TypeOK
    <3>5. /\ legs'[l].filled + transit'[c] <= venue'[c].filled
          /\ Held' => legs'[l].filled + transit'[c] = venue'[c].filled
          /\ venue'[Unwinding(l)].quantity <= venue'[c].filled
      <4>1. /\ legs[l].filled + transit[c] <= venue[c].filled
            /\ Held => legs[l].filled + transit[c] = venue[c].filled
            /\ venue[Unwinding(l)].quantity <= venue[c].filled
        BY <2>2, <3>1 DEF LegSound, Held
      <4>2. QED
        BY <1>4, <1>5, <1>8, <3>3, <3>4, <4>1
    <3>6. QED
      BY <1>4, <1>8, <2>2, <3>1, <3>2, <3>5 DEF LegSound, Agrees
  <2>3. QED
    BY <1>3, <2>1, <2>2
<1>11. QED
  BY <1>6, <1>7, <1>10 DEF GroupInv

\* What becomes of a group that is looked at.
LEMMA Verdicts == Evaluate \in {"COMPLETE", "PENDING", "ABANDONED", "BROKEN"}
BY DEF Evaluate

\* The steps of the loop that touch no order and no leg: it starts and ends its
\* round over the legs, looks at the group, forgets it, passes a leg over.
LEMMA QuietKeepsInv ==
  ASSUME GroupInv,
         \/ Signal \/ Placed \/ Sweep \/ StartUnwind \/ MarkUnwound \/ Expire
         \/ \E l \in Leg : SkipLeg(l)
  PROVE  GroupInv'
<1>1. /\ UNCHANGED <<machine, venue, transit, legs>> /\ TypeOK /\ legs \in [Leg -> Legs]
      /\ handler \in [at: Places, left: SUBSET Leg] /\ group \in Groups /\ expired \in BOOLEAN
  BY DEF Signal, Placed, Sweep, StartUnwind, MarkUnwound, Expire, SkipLeg, GroupInv, GroupTypeOK
<1>2. TypeOK'
  BY <1>1 DEF TypeOK
<1>3. CASE Signal
  <2>1. /\ handler.at = "idle" /\ handler'.at = "placing" /\ handler'.left = Leg /\ group = "NONE"
        /\ handler' \in [at: Places, left: SUBSET Leg] /\ group' = group /\ expired' = expired
    BY <1>3 DEF Signal, Idle, At, Places
  <2>2. GroupTypeOK' /\ HandlerSound'
    BY <1>1, <1>2, <2>1 DEF GroupTypeOK, HandlerSound, GroupInv
  <2>3. \A l \in Leg : LegSound(l)'
    BY <1>1, <2>1, AllSound DEF Held
  <2>4. QED
    BY <2>2, <2>3 DEF GroupInv
<1>4. CASE Placed \/ \E l \in Leg : SkipLeg(l)
  <2>1. /\ handler.at = "placing" /\ handler'.at \in {"placing", "idle"}
        /\ handler'.left \subseteq handler.left
        /\ handler' \in [at: Places, left: SUBSET Leg] /\ group' = group /\ expired' = expired
    BY <1>1, <1>4 DEF Placed, SkipLeg, Idle, At, Places
  <2>2. GroupTypeOK' /\ HandlerSound'
    BY <1>1, <1>2, <2>1 DEF GroupTypeOK, HandlerSound, GroupInv
  <2>3. \A l \in Leg : LegSound(l)'
    BY <1>1, <2>1, AllSound DEF Held, GroupInv, HandlerSound
  <2>4. QED
    BY <2>2, <2>3 DEF GroupInv
<1>5. CASE Sweep
  <2>1. /\ handler.at = "idle" /\ group = "PENDING" /\ expired' = expired
        /\ \/ /\ group' = "UNWINDING" /\ handler'.at = "cancelling"
              /\ handler' \in [at: Places, left: SUBSET Leg]
           \/ group' \in {"COMPLETE", "ABANDONED"} /\ handler' = handler
    BY <1>5, Verdicts DEF Sweep, Idle, At, Places, Unfilled, Known
  <2>2. GroupTypeOK' /\ HandlerSound'
    BY <1>1, <1>2, <2>1 DEF GroupTypeOK, HandlerSound, GroupInv, Groups
  <2>3. \A l \in Leg : LegSound(l)'
    BY <1>1, <2>1, AllSound DEF Held
  <2>4. QED
    BY <2>2, <2>3 DEF GroupInv
<1>6. CASE StartUnwind
  <2>1. /\ handler.at = "cancelling" /\ handler'.at = "unwinding" /\ handler'.left = FilledLegs
        /\ handler' \in [at: Places, left: SUBSET Leg] /\ group' = group /\ expired' = expired
    BY <1>6 DEF StartUnwind, At, Places, FilledLegs, Known
  <2>2. GroupTypeOK' /\ HandlerSound'
    BY <1>1, <1>2, <2>1 DEF GroupTypeOK, HandlerSound, GroupInv, FilledLegs, Known
  <2>3. \A l \in Leg : LegSound(l)'
    BY <1>1, <2>1, AllSound DEF Held, GroupInv, HandlerSound
  <2>4. QED
    BY <2>2, <2>3 DEF GroupInv
<1>7. CASE MarkUnwound
  <2>1. /\ handler.at = "unwinding" /\ handler'.at = "idle" /\ group' = "UNWOUND"
        /\ handler' \in [at: Places, left: SUBSET Leg] /\ expired' = expired
    BY <1>7 DEF MarkUnwound, At, Idle, Places
  <2>2. GroupTypeOK' /\ HandlerSound'
    BY <1>1, <1>2, <2>1 DEF GroupTypeOK, HandlerSound, GroupInv, Groups
  <2>3. \A l \in Leg : LegSound(l)'
    BY <1>1, <2>1, AllSound DEF Held
  <2>4. QED
    BY <2>2, <2>3 DEF GroupInv
<1>8. CASE Expire
  <2>1. expired' = TRUE /\ handler' = handler /\ group' = group
    BY <1>8 DEF Expire
  <2>2. GroupTypeOK' /\ HandlerSound'
    BY <1>1, <1>2, <2>1 DEF GroupTypeOK, HandlerSound, GroupInv
  <2>3. \A l \in Leg : LegSound(l)'
    BY <1>1, <2>1, AllSound DEF Held, GroupInv, HandlerSound
  <2>4. QED
    BY <2>2, <2>3 DEF GroupInv
<1>9. QED
  BY <1>3, <1>4, <1>5, <1>6, <1>7, <1>8

\* The invariant holds before the signal.
LEMMA GroupStart == GroupInit => GroupInv
<1> SUFFICES ASSUME GroupInit PROVE GroupInv
  OBVIOUS
<1>1. TypeOK
  BY TypeStart DEF GroupInit
<1>2. /\ legs = [l \in Leg |-> NoLeg] /\ group = "NONE" /\ expired = FALSE
      /\ handler.at = "idle" /\ handler \in [at: Places, left: SUBSET Leg]
  BY DEF GroupInit, Idle, Places
<1>3. NoLeg \in Legs /\ NoLeg.filled = 0 /\ NoLeg.known = FALSE
  BY ExecutionAssumption DEF NoLeg, Legs, Status, Terminal
<1>4. GroupTypeOK /\ HandlerSound
  BY <1>1, <1>2, <1>3 DEF GroupTypeOK, HandlerSound, Groups
<1>5. ASSUME NEW l \in Leg PROVE LegSound(l)
  <2>1. /\ machine[Opening(l)] = NoMachine /\ transit[Opening(l)] = 0
        /\ venue[Opening(l)] = NoOrder /\ venue[Unwinding(l)] = NoOrder
    BY Purposes DEF GroupInit, Init
  <2>2. NoOrder.filled = 0 /\ NoOrder.quantity = 0
    BY DEF NoOrder
  <2>3. legs[l].filled = 0 /\ legs[l].known = FALSE
    BY <1>2, <1>3
  <2>4. QED
    BY <1>2, <2>1, <2>2, <2>3, NothingSent DEF LegSound, Held
<1>6. QED
  BY <1>4, <1>5 DEF GroupInv

\* Every step of the group keeps the invariant.
LEMMA GroupStepKeepsInv ==
  ASSUME GroupInv, [GroupNext]_groupVars
  PROVE  GroupInv'
<1>1. CASE UNCHANGED groupVars
  <2>1. GroupTypeOK' /\ HandlerSound'
    BY <1>1 DEF groupVars, GroupInv, GroupTypeOK, HandlerSound, TypeOK
  <2>2. \A l \in Leg : LegSound(l)'
    BY <1>1, AllSound DEF groupVars, Held, GroupInv, HandlerSound
  <2>3. QED
    BY <2>1, <2>2 DEF GroupInv
<1>2. CASE GroupNext
  BY <1>2, PlaceKeepsInv, RaiseKeepsInv, CancelKeepsInv, UnwindKeepsInv, FillKeepsInv, VenueKeepsInv, QuietKeepsInv
  DEF GroupNext
<1>3. QED
  BY <1>1, <1>2

-----------------------------------------------------------------------------
(* Theorems                                                                *)

\* The invariant of a multi-leg trade holds throughout.
THEOREM GroupCorrect == GroupSpec => []GroupInv
<1>1. GroupInit => GroupInv
  BY GroupStart
<1>2. GroupInv /\ [GroupNext]_groupVars => GroupInv'
  BY GroupStepKeepsInv
<1>3. QED
  BY <1>1, <1>2, PTL DEF GroupSpec

\* What the group does with its orders is what the execution layer allows: all that
\* is proved of single orders holds of the orders of a multi-leg trade.
THEOREM GroupExecutes == GroupSpec => Spec
<1>1. GroupInit => Init
  BY DEF GroupInit
<1>2. GroupInv /\ [GroupNext]_groupVars => [Next]_vars
  BY GroupStep
<1>3. QED
  BY <1>1, <1>2, GroupCorrect, PTL DEF GroupSpec, Spec

\* An unwind never opens exposure, however late the fills of its leg come and
\* whatever the risk service or the venue made of either order.
THEOREM UnwindsOnlyClose == GroupSpec => []UnwindWithinFill
<1>1. GroupInv => UnwindWithinFill
  BY DEF GroupInv, LegSound, UnwindWithinFill
<1>2. QED
  BY <1>1, GroupCorrect, PTL

\* While the group is held it knows exactly what its executor knows, at every venue
\* that answers in order.
THEOREM HeldLegsAgree == GroupSpec => []LegsAgree
<1>1. GroupInv => LegsAgree
  BY DEF GroupInv, LegSound, LegsAgree, Known
<1>2. QED
  BY <1>1, GroupCorrect, PTL

\* A trade whose legs all filled, and were reported, is never torn down, though the
\* last fill and the timeout come together.
THEOREM WholeTradesStand == GroupSpec => WholeTradeKept
<1>1. GroupInv /\ [GroupNext]_groupVars =>
        [group' = "UNWINDING" /\ group # "UNWINDING" =>
           \E l \in Leg : ReportedFilled(l) < Qty]_groupVars
  <2> SUFFICES ASSUME GroupInv, GroupNext, group' = "UNWINDING", group # "UNWINDING"
               PROVE  \E l \in Leg : ReportedFilled(l) < Qty
    BY DEF groupVars
  <2>1. Sweep
    BY DEF GroupNext, Signal, Placed, Sweep, StartUnwind, MarkUnwound, Expire, Venue,
           PlaceLeg, OpenRaises, SkipLeg, CancelLeg, UnwindLeg, Fill
  <2>2. group = "PENDING" /\ handler.at = "idle" /\ ~AllFilled
    <3>1. Evaluate = "BROKEN" /\ group = "PENDING" /\ handler = Idle
      BY <2>1, Verdicts DEF Sweep
    <3>2. QED
      BY <3>1 DEF Evaluate, Idle
  <2>3. PICK l \in Known : legs[l].filled < legs[l].quantity
    BY <2>2 DEF AllFilled, Unfilled, Known, GroupInv, HandlerSound
  <2>4. /\ l \in Leg /\ legs[l].quantity = Qty /\ Held
        /\ legs[l].filled + transit[Opening(l)] = venue[Opening(l)].filled
    BY <2>2, <2>3 DEF Known, GroupInv, LegSound, Held
  <2>5. legs[l].filled \in Nat /\ transit[Opening(l)] \in Nat /\ venue[Opening(l)].filled \in Nat
    BY <2>4, Purposes DEF GroupInv, GroupTypeOK, Legs, TypeOK
  <2>6. ReportedFilled(l) < Qty
    BY <2>3, <2>4, <2>5 DEF ReportedFilled
  <2>7. QED
    BY <2>4, <2>6
<1>2. QED
  BY <1>1, GroupCorrect, PTL DEF GroupSpec, WholeTradeKept
=============================================================================
