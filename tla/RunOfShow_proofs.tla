-------------------------- MODULE RunOfShow_proofs ---------------------------
(***************************************************************************)
(* Proofs about the run of show, for any number of episodes, segments and  *)
(* overlapping requests.                                                   *)
(*                                                                         *)
(* The orders that the tab gives out differ because a request that adds a  *)
(* segment holds an order above all that the tab has placed in its         *)
(* episode, and is the only one there (AddsAbove).  The live segment is    *)
(* the episode's own because the copies that requests will write to the    *)
(* column are, or are of a segment that the API moved (CallsOK); a         *)
(* deletion nulls the column, not the copies.                              *)
(***************************************************************************)
EXTENDS RunOfShow, NaturalsInduction, WellFoundedInduction, TLAPS

\* What a request works on and holds, by what it is doing; rows and gone are the
\* segments, and those that the API moved.
CallOK(call, rows, gone) ==
    /\ call.doing = "adding" =>
         call.at \in ShowEpisodes /\ call.copy \in SegmentRow /\ call.copy.episode = call.at
    /\ call.doing = "editing" =>
         call.at \in Segments /\ rows[call.at] # Nil /\ call.copy \in SegmentRow
    /\ call.doing \in {"going live", "saving episode"} =>
         /\ call.at \in ShowEpisodes
         /\ call.copy \in Segments \cup {Nil}
         /\ call.copy # Nil =>
              /\ rows[call.copy] # Nil
              /\ rows[call.copy] \in SegmentRow =>
                   rows[call.copy].episode = call.at \/ call.copy \in gone

CallsOK ==
    /\ showCall = [r \in ShowCalls |-> showCall[r]]
    /\ \A r \in ShowCalls : CallOK(showCall[r], segment, moved)

Adding(r, e) == showCall[r].doing = "adding" /\ showCall[r].at = e

\* The one request that adds a segment to an episode holds an order above those that the
\* tab has placed there.
AddsAbove ==
    \A e \in ShowEpisodes, r \in ShowCalls : Adding(r, e) =>
        /\ \A s \in placed : segment[s].episode = e => segment[s].order < showCall[r].copy.order
        /\ \A q \in ShowCalls : Adding(q, e) => q = r

ShowInv == ShowTypeOK /\ CallsOK /\ AddsAbove /\ PlacedOrdersDiffer /\ ActiveIsOwn

----------------------------------------------------------------------------
(* Rows and orders.                                                        *)

LEMMA RowType ==
    ASSUME NEW e \in ShowEpisodes, NEW o \in 0..LastOrder, NEW t \in Templates \cup {Nil}
    PROVE  /\ Row(e, o, t) \in SegmentRow
           /\ Row(e, o, t).episode = e /\ Row(e, o, t).order = o
BY DEF Row, SegmentRow

LEMMA PresentRows ==
    ASSUME ShowTypeOK
    PROVE  /\ \A s \in Segments : s \in Present <=> segment[s] \in SegmentRow
           /\ Present \subseteq Segments
BY RowsAssumption DEF ShowTypeOK, Present

\* A set of orders has a greatest one.
LEMMA GreatestExists ==
    ASSUME NEW S \in SUBSET (0..LastOrder), S # {}
    PROVE  \E o \in S : \A k \in S : k <= o
<1> DEFINE D == {LastOrder - o : o \in S}
<1>0. LastOrder \in Nat
  BY OrdersAssumption
<1>1. D \subseteq Nat /\ D # {}
  <2>1. \A o \in S : LastOrder - o \in Nat
    BY <1>0
  <2> QED
    BY <2>1
<1>2. PICK x \in D : \A y \in D : ~ (<<y, x>> \in OpToRel(<, Nat))
  BY <1>1, NatLessThanWellFounded, WFMin
<1>3. PICK o \in S : x = LastOrder - o
  OBVIOUS
<1>4. ASSUME NEW k \in S PROVE k <= o
  <2>1. LastOrder - k \in D
    OBVIOUS
  <2>2. ~ (LastOrder - k < LastOrder - o)
    BY <1>1, <1>2, <1>3, <2>1 DEF OpToRel
  <2> QED
    BY <1>0, <2>2
<1> QED
  BY <1>4

\* The next order is above every order in the episode.
LEMMA NextOrderIsNext ==
    ASSUME ShowTypeOK, NEW e \in ShowEpisodes
    PROVE  /\ next_order(e) \in Nat
           /\ \A s \in Present : segment[s].episode = e => segment[s].order < next_order(e)
<1>1. Orders(e) \subseteq 0..LastOrder
  BY PresentRows DEF Orders, SegmentRow
<1>2. \A s \in Present : segment[s].episode = e => segment[s].order \in Orders(e)
  BY DEF Orders
<1>3. CASE Orders(e) = {}
  BY <1>2, <1>3 DEF next_order
<1>4. CASE Orders(e) # {}
  <2> DEFINE o == CHOOSE o \in Orders(e) : \A k \in Orders(e) : k <= o
  <2>1. o \in Orders(e) /\ \A k \in Orders(e) : k <= o
    BY <1>1, <1>4, GreatestExists
  <2>2. next_order(e) = o + 1
    BY <1>4 DEF next_order
  <2> HIDE DEF o
  <2> QED
    BY <1>1, <1>2, <2>1, <2>2, OrdersAssumption
<1> QED
  BY <1>3, <1>4

----------------------------------------------------------------------------
(* What a step may do to the rows and the requests.                        *)

\* A row stays a row, even a deleted one; and one that is there after the step was there
\* before it in the same episode, or is noted as moved.
RowsStay ==
    /\ moved \subseteq moved'
    /\ \A s \in Segments : segment[s] # Nil =>
         /\ segment'[s] # Nil
         /\ segment'[s] \in SegmentRow =>
              \/ s \in moved'
              \/ segment[s] \in SegmentRow /\ segment'[s].episode = segment[s].episode

LEMMA CallStays ==
    ASSUME RowsStay, NEW call, CallOK(call, segment, moved)
    PROVE  CallOK(call, segment', moved')
BY DEF RowsStay, CallOK

\* The requests are right after a step if the one that moved is.
LEMMA CallsStay ==
    ASSUME CallsOK, RowsStay, NEW r \in ShowCalls, NEW call,
           CallOK(call, segment, moved), showCall' = [showCall EXCEPT ![r] = call]
    PROVE  CallsOK'
<1>1. \A q \in ShowCalls : CallOK(showCall'[q], segment, moved)
  BY DEF CallsOK
<1>2. \A q \in ShowCalls : CallOK(showCall'[q], segment', moved')
  BY <1>1, CallStays
<1> QED
  BY <1>2 DEF CallsOK

LEMMA NoCallMoves ==
    ASSUME CallsOK, RowsStay, UNCHANGED showCall
    PROVE  CallsOK'
<1>1. \A q \in ShowCalls : CallOK(showCall'[q], segment', moved')
  BY CallStays DEF CallsOK
<1> QED
  BY <1>1 DEF CallsOK

LEMMA EndStays ==
    ASSUME CallsOK, RowsStay, NEW r \in ShowCalls, End(r)
    PROVE  CallsOK'
<1>1. CallOK(Free, segment, moved)
  BY DEF Free, CallOK
<1> QED
  BY <1>1, CallsStay DEF End

\* A live segment that stays there stays the episode's own.
LEMMA ActiveStays ==
    ASSUME ShowTypeOK, ShowTypeOK', ActiveIsOwn, RowsStay,
           \A e \in ShowEpisodes : active'[e] # Nil =>
               /\ segment'[active'[e]] \in SegmentRow
               /\ \/ active'[e] = active[e]
                  \/ /\ active'[e] \in Present
                     /\ segment[active'[e]].episode = e \/ active'[e] \in moved
    PROVE  ActiveIsOwn'
<1> SUFFICES ASSUME NEW e \in ShowEpisodes, active'[e] # Nil
             PROVE  /\ active'[e] \in Present'
                    /\ segment'[active'[e]].episode = e \/ active'[e] \in moved'
  BY DEF ActiveIsOwn
<1> DEFINE s == active'[e]
<1>1. s \in Segments /\ segment'[s] \in SegmentRow
  BY DEF ShowTypeOK
<1>2. s \in Present /\ (segment[s].episode = e \/ s \in moved)
  BY DEF ActiveIsOwn
<1>3. segment[s] # Nil
  BY <1>2 DEF Present
<1>4. segment'[s].episode = e \/ s \in moved'
  BY <1>1, <1>2, <1>3 DEF RowsStay
<1>5. s \in Present'
  BY <1>1, RowsAssumption DEF Present
<1> QED
  BY <1>4, <1>5

\* A step that places no segment, and begins to add none, keeps the orders.
LEMMA PlacedStay ==
    ASSUME ShowTypeOK, CallsOK, AddsAbove, PlacedOrdersDiffer,
           \A s \in placed' : /\ s \in placed
                              /\ segment'[s].episode = segment[s].episode
                              /\ segment'[s].order = segment[s].order,
           \A r \in ShowCalls : showCall'[r].doing = "adding" => showCall'[r] = showCall[r]
    PROVE  AddsAbove' /\ PlacedOrdersDiffer'
<1>1. \A r \in ShowCalls, e \in ShowEpisodes : Adding(r, e)' =>
        Adding(r, e) /\ showCall'[r] = showCall[r]
  BY DEF Adding
<1>2. AddsAbove'
  BY <1>1 DEF AddsAbove
<1>3. PlacedOrdersDiffer'
  BY DEF PlacedOrdersDiffer
<1> QED
  BY <1>2, <1>3

----------------------------------------------------------------------------
(* The steps.                                                              *)

LEMMA RowsUnmoved ==
    ASSUME ShowTypeOK, UNCHANGED <<segment, moved>>
    PROVE  RowsStay
BY PresentRows DEF RowsStay, Present

\* A request begins that adds nothing.
LEMMA BegunStep ==
    ASSUME ShowInv, NEW r \in ShowCalls, NEW what, NEW at, NEW copy,
           Begin(r, what, at, copy), what # "adding",
           CallOK([doing |-> what, at |-> at, copy |-> copy], segment, moved),
           UNCHANGED <<segment, template, active, placed, moved>>
    PROVE  ShowInv'
<1> DEFINE call == [doing |-> what, at |-> at, copy |-> copy]
<1>0. ShowTypeOK /\ CallsOK /\ AddsAbove /\ PlacedOrdersDiffer /\ ActiveIsOwn
  BY DEF ShowInv
<1>1. showCall' = [showCall EXCEPT ![r] = call] /\ call.doing # "adding"
  BY DEF Begin
<1> HIDE DEF call
<1>2. CallsOK'
  BY <1>0, <1>1, CallsStay, RowsUnmoved DEF call
<1>3. \A q \in ShowCalls : showCall'[q].doing = "adding" => showCall'[q] = showCall[q]
  BY <1>0, <1>1 DEF CallsOK
<1>4. AddsAbove' /\ PlacedOrdersDiffer'
  BY <1>0, <1>3, PlacedStay
<1> QED
  BY <1>0, <1>2, <1>4 DEF ShowInv, ShowTypeOK, ActiveIsOwn, Present

\* Under the lock, the order is above all others.
LEMMA AddStep ==
    ASSUME ShowInv, NEW r \in ShowCalls, NEW e \in ShowEpisodes, EpisodeSegmentsView(r, e)
    PROVE  ShowInv'
<1>0. ShowTypeOK /\ CallsOK /\ AddsAbove /\ PlacedOrdersDiffer /\ ActiveIsOwn
  BY DEF ShowInv
<1>1. PICK t \in template \cup {Nil} : AddSegment(r, e, t)
  BY DEF EpisodeSegmentsView
<1> DEFINE o == next_order(e)
           row == Row(e, o, t)
           call == [doing |-> "adding", at |-> e, copy |-> row]
<1>2. /\ Locks(e) = {}
      /\ showCall' = [showCall EXCEPT ![r] = call]
      /\ UNCHANGED <<segment, template, active, placed, moved>>
  BY <1>1 DEF AddSegment, Begin
<1>3. /\ o \in 0..LastOrder
      /\ \A s \in Present : segment[s].episode = e => segment[s].order < o
  BY <1>0, <1>1, NextOrderIsNext, OrdersAssumption DEF AddSegment
<1> HIDE DEF o
<1>4. row \in SegmentRow /\ row.episode = e /\ row.order = o
  BY <1>0, <1>3, RowType DEF ShowTypeOK
<1> HIDE DEF row
<1>5. CallOK(call, segment, moved)
  BY <1>4 DEF CallOK
<1>6. CallsOK'
  BY <1>0, <1>2, <1>5, CallsStay, RowsUnmoved
<1>7. AddsAbove'
  <2>1. \A q \in ShowCalls : ~Adding(q, e)
    BY <1>2 DEF Locks, Adding
  <2>2. showCall'[r] = call /\ \A q \in ShowCalls : q # r => showCall'[q] = showCall[q]
    BY <1>0, <1>2 DEF CallsOK
  <2>3. \A q \in ShowCalls, d \in ShowEpisodes : Adding(q, d)' =>
          (q = r /\ d = e) \/ (d # e /\ Adding(q, d) /\ showCall'[q] = showCall[q])
    BY <2>1, <2>2 DEF Adding
  <2>4. \A s \in placed : segment[s].episode = e => segment[s].order < showCall'[r].copy.order
    BY <1>0, <1>3, <1>4, <2>2 DEF ShowTypeOK
  <2> QED
    BY <1>0, <1>2, <2>3, <2>4 DEF AddsAbove
<1> QED
  BY <1>0, <1>2, <1>6, <1>7 DEF ShowInv, ShowTypeOK, PlacedOrdersDiffer, ActiveIsOwn, Present

\* The segment that is inserted is above those placed before it in its episode, and no
\* other request adds one there.
LEMMA InsertStep ==
    ASSUME ShowInv, NEW r \in ShowCalls, InsertSegment(r)
    PROVE  ShowInv'
<1> DEFINE row == showCall[r].copy
<1>0. ShowTypeOK /\ CallsOK /\ AddsAbove /\ PlacedOrdersDiffer /\ ActiveIsOwn
  BY DEF ShowInv
<1>1. /\ row \in SegmentRow /\ row.episode \in ShowEpisodes /\ Adding(r, row.episode)
      /\ End(r) /\ UNCHANGED <<template, active, moved>>
  BY <1>0 DEF InsertSegment, CallsOK, CallOK, Adding
<1>2. \A q \in ShowCalls : showCall'[q].doing = "adding" => q # r /\ showCall'[q] = showCall[q]
  BY <1>0, <1>1 DEF End, Free, CallsOK
<1>3. CASE UNCHANGED <<segment, placed>>
  <2>1. CallsOK'
    BY <1>0, <1>1, <1>3, EndStays, RowsUnmoved
  <2>2. AddsAbove' /\ PlacedOrdersDiffer'
    BY <1>0, <1>2, <1>3, PlacedStay
  <2> QED
    BY <1>0, <1>1, <1>3, <2>1, <2>2 DEF ShowInv, ShowTypeOK, ActiveIsOwn, Present
<1>4. ASSUME NEW s \in Segments, segment[s] = Nil,
             segment' = [segment EXCEPT ![s] = row], placed' = placed \cup {s}
      PROVE  ShowInv'
  <2>1. /\ segment'[s] = row /\ \A k \in Segments : k # s => segment'[k] = segment[k]
        /\ segment' \in [Segments -> SegmentRow \cup {Nil, Removed}]
        /\ s \notin placed /\ s \notin Present
    BY <1>0, <1>1, <1>4 DEF ShowTypeOK, Present
  <2>2. Present' = Present \cup {s}
    BY <1>0, <1>1, <1>4, <2>1, RowsAssumption DEF Present
  <2>3. ShowTypeOK'
    BY <1>0, <1>1, <1>4, <2>1, <2>2 DEF ShowTypeOK
  <2>4. RowsStay
    BY <1>0, <1>1, <1>4, <2>1, RowsAssumption DEF RowsStay
  <2>5. CallsOK'
    BY <1>0, <1>1, <2>4, EndStays
  <2>6. \A k \in placed : segment'[k] = segment[k] /\ k \in Segments
    BY <1>0, <2>1 DEF ShowTypeOK, Present
  <2>7. \A k \in placed : segment[k].episode = row.episode => segment[k].order < row.order
    BY <1>0, <1>1 DEF AddsAbove
  <2>8. \A k \in placed : segment[k].order \in Nat
    BY <1>0, PresentRows, OrdersAssumption DEF ShowTypeOK, SegmentRow
  <2>9. row.order \in Nat
    BY <1>1, OrdersAssumption DEF SegmentRow
  <2>10. PlacedOrdersDiffer'
    BY <1>0, <1>4, <2>1, <2>6, <2>7, <2>8, <2>9 DEF PlacedOrdersDiffer
  <2>11. AddsAbove'
    <3>1. \A q \in ShowCalls, e \in ShowEpisodes : Adding(q, e)' =>
            q # r /\ e # row.episode /\ Adding(q, e) /\ showCall'[q] = showCall[q]
      BY <1>0, <1>1, <1>2 DEF Adding, AddsAbove
    <3> QED
      BY <1>0, <1>4, <2>1, <2>6, <3>1 DEF AddsAbove
  <2>12. ActiveIsOwn'
    <3>1. \A e \in ShowEpisodes : active'[e] # Nil => segment'[active'[e]] \in SegmentRow
      BY <1>0, <1>1, <2>1, PresentRows DEF ActiveIsOwn
    <3> QED
      BY <1>0, <1>1, <2>3, <2>4, <3>1, ActiveStays
  <2> QED
    BY <2>3, <2>5, <2>10, <2>11, <2>12 DEF ShowInv
<1> QED
  BY <1>3, <1>4 DEF InsertSegment

\* The API's segments are not the tab's.
LEMMA CreateStep ==
    ASSUME ShowInv, NEW s \in Segments, NEW e \in ShowEpisodes, NEW o \in GivenOrders,
           SegmentListCreateAPI(s, e, o)
    PROVE  ShowInv'
<1> DEFINE row == Row(e, o, Nil)
<1>0. ShowTypeOK /\ CallsOK /\ AddsAbove /\ PlacedOrdersDiffer /\ ActiveIsOwn
  BY DEF ShowInv
<1>1. /\ segment[s] = Nil /\ segment' = [segment EXCEPT ![s] = row]
      /\ UNCHANGED <<template, active, showCall, placed, moved>>
  BY DEF SegmentListCreateAPI
<1>2. row \in SegmentRow
  BY OrdersAssumption, RowType
<1> HIDE DEF row
<1>3. /\ segment'[s] = row /\ \A k \in Segments : k # s => segment'[k] = segment[k]
      /\ segment' \in [Segments -> SegmentRow \cup {Nil, Removed}]
      /\ s \notin placed /\ s \notin Present
  BY <1>0, <1>1, <1>2 DEF ShowTypeOK, Present
<1>4. Present' = Present \cup {s}
  BY <1>0, <1>1, <1>2, <1>3, RowsAssumption DEF Present
<1>5. ShowTypeOK'
  BY <1>0, <1>1, <1>3, <1>4 DEF ShowTypeOK
<1>6. RowsStay
  BY <1>0, <1>1, <1>3, RowsAssumption DEF RowsStay
<1>7. CallsOK'
  BY <1>0, <1>1, <1>6, NoCallMoves
<1>8. \A k \in placed : segment'[k] = segment[k]
  BY <1>0, <1>3 DEF ShowTypeOK, Present
<1>9. AddsAbove' /\ PlacedOrdersDiffer'
  BY <1>0, <1>1, <1>8, PlacedStay
<1>10. \A d \in ShowEpisodes : active'[d] # Nil => segment'[active'[d]] \in SegmentRow
  BY <1>0, <1>1, <1>3, PresentRows DEF ActiveIsOwn
<1> QED
  BY <1>0, <1>1, <1>5, <1>6, <1>7, <1>9, <1>10, ActiveStays DEF ShowInv

\* An edit may put a segment elsewhere, or a deleted one back: it is noted as moved.
LEMMA SaveSegmentStep ==
    ASSUME ShowInv, NEW r \in ShowCalls, SaveSegment(r)
    PROVE  ShowInv'
<1> DEFINE s == showCall[r].at
           row == showCall[r].copy
<1>0. ShowTypeOK /\ CallsOK /\ AddsAbove /\ PlacedOrdersDiffer /\ ActiveIsOwn
  BY DEF ShowInv
<1>1. /\ s \in Segments /\ segment[s] # Nil /\ row \in SegmentRow
      /\ End(r) /\ UNCHANGED <<template, active>>
  BY <1>0 DEF SaveSegment, CallsOK, CallOK
<1>2. \A q \in ShowCalls : showCall'[q].doing = "adding" => showCall'[q] = showCall[q]
  BY <1>0, <1>1 DEF End, Free, CallsOK
<1>3. CASE UNCHANGED <<segment, placed, moved>>
  <2>1. CallsOK'
    BY <1>0, <1>1, <1>3, EndStays, RowsUnmoved
  <2>2. AddsAbove' /\ PlacedOrdersDiffer'
    BY <1>0, <1>2, <1>3, PlacedStay
  <2> QED
    BY <1>0, <1>1, <1>3, <2>1, <2>2 DEF ShowInv, ShowTypeOK, ActiveIsOwn, Present
<1>4. CASE /\ segment' = [segment EXCEPT ![s] = row]
           /\ placed' = placed \ {s}
           /\ moved' = IF s \notin Present \/ segment[s].episode # row.episode
                       THEN moved \cup {s} ELSE moved
  <2>1. /\ segment'[s] = row /\ \A k \in Segments : k # s => segment'[k] = segment[k]
        /\ segment' \in [Segments -> SegmentRow \cup {Nil, Removed}]
    BY <1>0, <1>1, <1>4 DEF ShowTypeOK
  <2>2. Present' = Present \cup {s}
    BY <1>1, <2>1, RowsAssumption DEF Present
  <2>3. ShowTypeOK'
    BY <1>0, <1>1, <1>4, <2>1, <2>2 DEF ShowTypeOK
  <2>4. RowsStay
    BY <1>0, <1>1, <1>4, <2>1, PresentRows, RowsAssumption DEF RowsStay
  <2>5. CallsOK'
    BY <1>0, <1>1, <2>4, EndStays
  <2>6. \A k \in placed' : k \in placed /\ segment'[k] = segment[k]
    BY <1>0, <1>4, <2>1 DEF ShowTypeOK, Present
  <2>7. AddsAbove' /\ PlacedOrdersDiffer'
    BY <1>0, <1>2, <2>6, PlacedStay
  <2>8. \A e \in ShowEpisodes : active'[e] # Nil => segment'[active'[e]] \in SegmentRow
    BY <1>0, <1>1, <2>1, PresentRows DEF ActiveIsOwn
  <2>9. ActiveIsOwn'
    BY <1>0, <1>1, <2>3, <2>4, <2>8, ActiveStays
  <2> QED
    BY <2>3, <2>5, <2>7, <2>9 DEF ShowInv
<1> QED
  BY <1>3, <1>4 DEF SaveSegment

\* A deletion takes the segment off the air, not out of the copies.
LEMMA DeleteStep ==
    ASSUME ShowInv, NEW s \in Segments, SegmentDeleteView(s)
    PROVE  ShowInv'
<1>0. ShowTypeOK /\ CallsOK /\ AddsAbove /\ PlacedOrdersDiffer /\ ActiveIsOwn
  BY DEF ShowInv
<1>1. /\ segment' = [segment EXCEPT ![s] = Removed]
      /\ active' = [e \in ShowEpisodes |-> IF active[e] = s THEN Nil ELSE active[e]]
      /\ placed' = placed \ {s}
      /\ UNCHANGED <<template, showCall, moved>>
  BY DEF SegmentDeleteView
<1>2. /\ segment'[s] = Removed /\ \A k \in Segments : k # s => segment'[k] = segment[k]
      /\ segment' \in [Segments -> SegmentRow \cup {Nil, Removed}]
  BY <1>0, <1>1 DEF ShowTypeOK
<1>3. Present' = Present \ {s}
  BY <1>2, RowsAssumption DEF Present
<1>4. ShowTypeOK'
  BY <1>0, <1>1, <1>2, <1>3 DEF ShowTypeOK
<1>5. RowsStay
  BY <1>0, <1>1, <1>2, PresentRows, RowsAssumption DEF RowsStay, ShowTypeOK
<1>6. CallsOK'
  BY <1>0, <1>1, <1>5, NoCallMoves
<1>7. \A k \in placed' : k \in placed /\ segment'[k] = segment[k]
  BY <1>0, <1>1, <1>2 DEF ShowTypeOK, Present
<1>8. AddsAbove' /\ PlacedOrdersDiffer'
  BY <1>0, <1>1, <1>7, PlacedStay
<1>9. \A e \in ShowEpisodes : active'[e] # Nil =>
        active'[e] = active[e] /\ segment'[active'[e]] \in SegmentRow
  BY <1>0, <1>1, <1>2, PresentRows DEF ActiveIsOwn
<1> QED
  BY <1>0, <1>4, <1>5, <1>6, <1>8, <1>9, ActiveStays DEF ShowInv

\* A template that goes is taken out of the rows, which keep their place.
LEMMA TemplateStep ==
    ASSUME ShowInv, NEW t \in Templates,
           SegmentTemplateListView(t) \/ SegmentTemplateDeleteView(t)
    PROVE  ShowInv'
<1>0. ShowTypeOK /\ CallsOK /\ AddsAbove /\ PlacedOrdersDiffer /\ ActiveIsOwn
  BY DEF ShowInv
<1>1. UNCHANGED <<active, showCall, placed, moved>> /\ template' \subseteq Templates
  BY <1>0 DEF SegmentTemplateListView, SegmentTemplateDeleteView, ShowTypeOK
<1>2. \A k \in Segments :
        \/ segment'[k] = segment[k]
        \/ segment[k] \in SegmentRow /\ segment'[k] = [segment[k] EXCEPT !.source_template = Nil]
  BY <1>0, PresentRows DEF SegmentTemplateListView, SegmentTemplateDeleteView
<1>3. segment' = [k \in Segments |-> segment'[k]]
  BY <1>0 DEF SegmentTemplateListView, SegmentTemplateDeleteView, ShowTypeOK
<1>4. ASSUME NEW row \in SegmentRow
      PROVE  LET new == [row EXCEPT !.source_template = Nil]
             IN  new \in SegmentRow /\ new.episode = row.episode /\ new.order = row.order
  BY DEF SegmentRow
<1>5. \A k \in Segments :
        \/ segment'[k] = segment[k] /\ segment[k] \in {Nil, Removed}
        \/ /\ segment[k] \in SegmentRow /\ segment'[k] \in SegmentRow
           /\ segment'[k].episode = segment[k].episode
           /\ segment'[k].order = segment[k].order
  BY <1>0, <1>2, <1>4 DEF ShowTypeOK
<1>6. segment' \in [Segments -> SegmentRow \cup {Nil, Removed}]
  BY <1>3, <1>5
<1>7. Present' = Present
  BY <1>5, RowsAssumption DEF Present
<1>8. ShowTypeOK'
  BY <1>0, <1>1, <1>6, <1>7 DEF ShowTypeOK
<1>9. RowsStay
  BY <1>1, <1>5, RowsAssumption DEF RowsStay
<1>10. CallsOK'
  BY <1>0, <1>1, <1>9, NoCallMoves
<1>11. AddsAbove' /\ PlacedOrdersDiffer'
  BY <1>0, <1>1, <1>5, RowsAssumption, PlacedStay DEF ShowTypeOK, Present
<1>12. \A e \in ShowEpisodes : active'[e] # Nil => segment'[active'[e]] \in SegmentRow
  BY <1>0, <1>1, <1>5, PresentRows, RowsAssumption DEF ActiveIsOwn
<1> QED
  BY <1>0, <1>1, <1>8, <1>9, <1>10, <1>11, <1>12, ActiveStays DEF ShowInv

\* Only the column of the live segment is written.
LEMMA LiveStep ==
    ASSUME ShowInv, \/ \E r \in ShowCalls : SaveLive(r)
                    \/ \E e \in ShowEpisodes : ClearLive(e)
    PROVE  ShowInv'
<1>0. ShowTypeOK /\ CallsOK /\ AddsAbove /\ PlacedOrdersDiffer /\ ActiveIsOwn
  BY DEF ShowInv
<1>1. UNCHANGED <<segment, template, placed, moved>> /\ RowsStay
  BY <1>0, RowsUnmoved DEF SaveLive, ClearLive
<1>2. ASSUME NEW r \in ShowCalls, SaveLive(r) PROVE ShowInv'
  <2> DEFINE e == showCall[r].at
             s == showCall[r].copy
  <2>0. /\ CallOK(showCall[r], segment, moved)
        /\ showCall[r].doing \in {"going live", "saving episode"}
        /\ active' = IF s \in Present \cup {Nil} THEN [active EXCEPT ![e] = s] ELSE active
        /\ End(r)
    BY <1>0, <1>2 DEF SaveLive, CallsOK
  <2>1. /\ e \in ShowEpisodes /\ s \in Segments \cup {Nil}
        /\ s \in Present => segment[s].episode = e \/ s \in moved
        /\ active' = IF s \in Present \cup {Nil} THEN [active EXCEPT ![e] = s] ELSE active
        /\ End(r)
    BY <1>0, <2>0, PresentRows, RowsAssumption DEF CallOK
  <2>2. ShowTypeOK'
    BY <1>0, <1>1, <2>1 DEF ShowTypeOK, Present
  <2>3. CallsOK'
    BY <1>0, <1>1, <2>1, EndStays
  <2>4. \A q \in ShowCalls : showCall'[q].doing = "adding" => showCall'[q] = showCall[q]
    BY <1>0, <2>1 DEF End, Free, CallsOK
  <2>5. AddsAbove' /\ PlacedOrdersDiffer'
    BY <1>0, <1>1, <2>4, PlacedStay
  <2>6. ActiveIsOwn'
    BY <1>0, <1>1, <2>1 DEF ShowTypeOK, ActiveIsOwn, Present
  <2> QED
    BY <2>2, <2>3, <2>5, <2>6 DEF ShowInv
<1>3. ASSUME NEW e \in ShowEpisodes, ClearLive(e) PROVE ShowInv'
  <2>1. active' = [active EXCEPT ![e] = Nil] /\ UNCHANGED showCall
    BY <1>3 DEF ClearLive
  <2>2. ShowTypeOK' /\ ActiveIsOwn'
    BY <1>0, <1>1, <2>1 DEF ShowTypeOK, ActiveIsOwn, Present
  <2>3. CallsOK'
    BY <1>0, <1>1, <2>1, NoCallMoves
  <2>4. AddsAbove' /\ PlacedOrdersDiffer'
    BY <1>0, <1>1, <2>1, PlacedStay
  <2> QED
    BY <2>2, <2>3, <2>4 DEF ShowInv
<1> QED
  BY <1>2, <1>3

LEMMA ShowInvariance == ShowSpec => []ShowInv
<1>1. ShowInit => ShowInv
  <2> SUFFICES ASSUME ShowInit PROVE ShowInv
    OBVIOUS
  <2>1. ShowTypeOK /\ ActiveIsOwn
    BY DEF ShowInit, ShowTypeOK, ActiveIsOwn
  <2>2. CallsOK /\ AddsAbove
    BY DEF ShowInit, CallsOK, CallOK, Free, AddsAbove, Adding
  <2>3. PlacedOrdersDiffer
    BY DEF ShowInit, PlacedOrdersDiffer
  <2> QED
    BY <2>1, <2>2, <2>3 DEF ShowInv
<1>2. ShowInv /\ [ShowNext]_showVars => ShowInv'
  <2> SUFFICES ASSUME ShowInv, [ShowNext]_showVars PROVE ShowInv'
    OBVIOUS
  <2>0. ShowTypeOK /\ ActiveIsOwn
    BY DEF ShowInv
  <2>1. ASSUME NEW r \in ShowCalls, NEW e \in ShowEpisodes, NEW isForm \in BOOLEAN,
               LoadEpisode(r, e, isForm)
        PROVE  ShowInv'
    <3>1. CallOK([doing |-> "saving episode", at |-> e, copy |-> active[e]], segment, moved)
      BY <2>0, PresentRows, RowsAssumption DEF CallOK, ShowTypeOK, ActiveIsOwn
    <3> QED
      BY <2>1, <3>1, BegunStep DEF LoadEpisode
  <2>2. ASSUME NEW r \in ShowCalls, NEW e \in ShowEpisodes, NEW s \in Segments,
               CheckLive(r, e, s)
        PROVE  ShowInv'
    <3>1. CallOK([doing |-> "going live", at |-> e, copy |-> s], segment, moved)
      BY <2>2 DEF CallOK, CheckLive, Present
    <3> QED
      BY <2>2, <3>1, BegunStep DEF CheckLive
  <2>3. ASSUME NEW r \in ShowCalls, NEW s \in Segments, s \in Present, NEW copy \in SegmentRow,
               Begin(r, "editing", s, copy), UNCHANGED <<segment, template, active, placed, moved>>
        PROVE  ShowInv'
    <3>1. CallOK([doing |-> "editing", at |-> s, copy |-> copy], segment, moved)
      BY <2>3 DEF CallOK, Present
    <3> QED
      BY <2>3, <3>1, BegunStep
  <2>4. ASSUME NEW r \in ShowCalls, NEW s \in Segments, NEW o \in GivenOrders,
               SegmentUpdateView(r, s, o)
        PROVE  ShowInv'
    <3>1. s \in Present /\ [segment[s] EXCEPT !.order = o] \in SegmentRow
      BY <2>0, <2>4, PresentRows, OrdersAssumption DEF SegmentUpdateView, SegmentRow
    <3> QED
      BY <2>3, <2>4, <3>1 DEF SegmentUpdateView
  <2>5. ASSUME NEW r \in ShowCalls, NEW s \in Segments, NEW o \in GivenOrders,
               NEW e \in ShowEpisodes, SegmentDetailAPI(r, s, o, e)
        PROVE  ShowInv'
    <3>1. s \in Present /\ [segment[s] EXCEPT !.order = o, !.episode = e] \in SegmentRow
      BY <2>0, <2>5, PresentRows, OrdersAssumption DEF SegmentDetailAPI, SegmentRow
    <3> QED
      BY <2>3, <2>5, <3>1 DEF SegmentDetailAPI
  <2>6. CASE UNCHANGED showVars
    BY <2>6 DEF showVars, ShowInv, ShowTypeOK, CallsOK, AddsAbove, Adding, PlacedOrdersDiffer,
                ActiveIsOwn, Present
  <2> QED
    BY <2>1, <2>2, <2>4, <2>5, <2>6, AddStep, InsertStep, CreateStep, SaveSegmentStep,
       DeleteStep, TemplateStep, LiveStep DEF ShowNext
<1> QED
  BY <1>1, <1>2, PTL DEF ShowSpec

\* The tables hold rows of their types, and what the tab placed is there.
THEOREM ShowTypeCorrect == ShowSpec => []ShowTypeOK
BY ShowInvariance, PTL DEF ShowInv

\* Segments that the tab has added to an episode never share an order.
THEOREM PlacedDiffer == ShowSpec => []PlacedOrdersDiffer
BY ShowInvariance, PTL DEF ShowInv

\* The live segment of an episode exists and is one of its own, unless the API moved it.
THEOREM ActiveOwn == ShowSpec => []ActiveIsOwn
BY ShowInvariance, PTL DEF ShowInv
=============================================================================
