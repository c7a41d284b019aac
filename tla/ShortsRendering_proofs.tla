----------------------- MODULE ShortsRendering_proofs -----------------------
(***************************************************************************)
(* Proofs about the rendering of shorts, for any number of shorts and of   *)
(* requests that work on them at the same time.                            *)
(*                                                                         *)
(* A PATCH writes an old copy back, so what is true of the rows must be    *)
(* true of the copies as well, and a file that was uploaded must stay.     *)
(***************************************************************************)
EXTENDS ShortsRendering, TLAPS

\* What a row of short s says of its video.
Playable(s, r) ==
    r.status = "ready" => r.public_url = "link" /\ s \in stored /\ r.error_message = ""

Copies ==
    \A r \in Requests : request[r].doing = "patching" =>
        request[r].at \in Shorts /\ Playable(request[r].at, request[r].copy)

\* A request knows which short it renders, and has uploaded its file when it
\* says so.
AtHand ==
    \A r \in Requests :
        /\ request[r].doing \in Busy \cup {"uploaded"} => request[r].at \in Shorts
        /\ request[r].doing = "uploaded" => request[r].at \in stored

Inv == ShortsTypeOK /\ Copies /\ AtHand /\ ReadyIsPlayable /\ BusyHasCause

----------------------------------------------------------------------------
Pending == [doing : Doing, todo : SUBSET Shorts, at : Shorts \cup {NoShort}, copy : ShortRows]

LEMMA NoRowType == NoRow \in ShortRows
BY DEF NoRow, ShortRows

LEMMA IdleType == Idle \in Pending /\ Idle.doing = "idle"
BY NoRowType DEF Idle, Pending, Doing

\* A request that is done with its short works on nothing for the moment.
LEMMA GoOnEffect ==
    ASSUME ShortsTypeOK, NEW r \in Requests, NEW s, GoOn(r, s)
    PROVE  /\ request' \in [Requests -> Pending]
           /\ request'[r].doing \in {"idle", "next"}
           /\ \A q \in Requests \ {r} : request'[q] = request[q]
<1>1. request[r] \in Pending
  BY DEF ShortsTypeOK, Pending
<1>2. [Idle EXCEPT !.doing = "next", !.todo = request[r].todo \ {s}] \in Pending
  BY <1>1, NoRowType DEF Idle, Pending, Doing
<1>3. [Idle EXCEPT !.doing = "next", !.todo = request[r].todo \ {s}].doing = "next"
  BY DEF Idle
<1> QED
  BY <1>1, <1>2, <1>3, IdleType DEF GoOn, ShortsTypeOK, Pending

LEMMA InitInv == Init => Inv
<1> SUFFICES ASSUME Init PROVE Inv
  OBVIOUS
<1>1. \A r \in Requests : request[r].doing = "idle"
  BY IdleType DEF Init
<1>2. \A s \in Shorts : short[s].status = "absent"
  BY DEF Init, NoRow
<1>3. ShortsTypeOK
  BY NoRowType, IdleType DEF Init, ShortsTypeOK, Pending
<1> QED
  BY <1>1, <1>2, <1>3 DEF Inv, Copies, AtHand, ReadyIsPlayable, BusyHasCause, Busy

----------------------------------------------------------------------------
(* One lemma per kind of step.                                             *)

\* A step that only moves requests that are not rendering.
LEMMA QuietStep ==
    ASSUME Inv, NEW r \in Requests, UNCHANGED <<short, stored, patched, cut>>,
           request' \in [Requests -> Pending],
           \A q \in Requests \ {r} : request'[q] = request[q],
           request[r].doing \notin Busy \cup {"uploaded"},
           request'[r].doing \notin Busy \cup {"uploaded", "patching"}
    PROVE  Inv'
<1>1. ShortsTypeOK'
  BY DEF Inv, ShortsTypeOK, Pending
<1>2. Copies' /\ AtHand' /\ ReadyIsPlayable'
  BY ZenonT(30) DEF Inv, Copies, AtHand, ReadyIsPlayable, Playable
<1>3. BusyHasCause'
  BY DEF Inv, BusyHasCause, Busy
<1> QED
  BY <1>1, <1>2, <1>3 DEF Inv

\* A step that replaces one row, which is not busy afterwards or is so by the
\* request's own hand, and moves one request.
LEMMA RowStep ==
    ASSUME Inv, NEW r \in Requests, NEW s \in Shorts, NEW row \in ShortRows,
           Playable(s, row), stored' = stored,
           short' = [short EXCEPT ![s] = row],
           patched \subseteq patched', patched' \subseteq Shorts, cut' = cut,
           request' \in [Requests -> Pending],
           \A q \in Requests \ {r} : request'[q] = request[q],
           \/ row.status \notin Busy
           \/ s \in patched'
           \/ request'[r].at = s /\ request'[r].doing \in Busy \cup {"uploaded"},
           request[r].doing \in Busy \cup {"uploaded"} => request[r].at = s,
           request'[r].doing # "patching",
           request'[r].doing \in Busy => request'[r].at \in Shorts,
           request'[r].doing # "uploaded"
    PROVE  Inv'
<1>0. ShortsTypeOK /\ Copies /\ AtHand /\ ReadyIsPlayable /\ BusyHasCause
  BY DEF Inv
<1>1. ShortsTypeOK'
  BY <1>0 DEF ShortsTypeOK, Pending
<1>2. short'[s] = row /\ \A q \in Shorts \ {s} : short'[q] = short[q]
  BY <1>0 DEF ShortsTypeOK
<1>3. Copies'
  BY <1>0 DEF Copies, Playable
<1>4. AtHand'
  BY <1>0 DEF AtHand, Busy
<1>5. ReadyIsPlayable'
  <2> SUFFICES ASSUME NEW q \in Shorts, short'[q].status = "ready"
               PROVE  /\ short'[q].public_url = "link" /\ q \in stored'
                      /\ short'[q].error_message = ""
    BY DEF ReadyIsPlayable
  <2> QED
    BY <1>0, <1>2 DEF ReadyIsPlayable, Playable
<1>6. BusyHasCause'
  BY <1>0, <1>2 DEF BusyHasCause, Busy
<1> QED
  BY <1>1, <1>3, <1>4, <1>5, <1>6 DEF Inv

LEMMA BeginStep ==
    ASSUME Inv, NEW r \in Requests, NEW S \in SUBSET Shorts,
           NEW what \in {"queueing", "downloading", "next"}, Begin(r, what, S)
    PROVE  Inv'
<1>1. [Idle EXCEPT !.doing = what, !.todo = S] \in Pending
  BY NoRowType DEF Idle, Pending, Doing
<1>2. [Idle EXCEPT !.doing = what, !.todo = S].doing = what
  BY DEF Idle
<1>3. /\ request' \in [Requests -> Pending]
      /\ request'[r].doing = what
      /\ \A q \in Requests \ {r} : request'[q] = request[q]
      /\ request[r].doing = "idle"
      /\ UNCHANGED <<short, stored, patched, cut>>
  BY <1>1, <1>2 DEF Begin, Inv, ShortsTypeOK, Pending
<1> QED
  BY <1>3, QuietStep DEF Busy

LEMMA QueueStep ==
    ASSUME Inv, NEW r \in Requests, NEW s \in Shorts, QueueShort(r, s) PROVE Inv'
<1> DEFINE row == [NoRow EXCEPT !.status = "queued"]
<1>1. row \in ShortRows /\ row.status = "queued"
  BY DEF NoRow, ShortRows, ShortStatus
<1>2. /\ short' = [short EXCEPT ![s] = row]
      /\ request[r].doing = "queueing"
      /\ UNCHANGED <<stored, request, patched, cut>>
  BY DEF QueueShort
<1>3. request' \in [Requests -> Pending] /\ patched' \subseteq Shorts
  BY <1>2 DEF Inv, ShortsTypeOK, Pending
<1>4. Playable(s, row)
  BY <1>1 DEF Playable
<1> HIDE DEF row
<1> QED
  BY <1>1, <1>2, <1>3, <1>4, RowStep DEF Busy

LEMMA StatusEffect ==
    ASSUME ShortsTypeOK, NEW s \in Shorts, NEW status \in Busy, SaveStatus(s, status)
    PROVE  \E row \in ShortRows :
             /\ row.status = status
             /\ row.public_url = short[s].public_url
             /\ short' = [short EXCEPT ![s] = row]
<1> DEFINE row == [short[s] EXCEPT !.status = status]
<1>1. short[s] \in ShortRows
  BY DEF ShortsTypeOK
<1>2. row \in ShortRows /\ row.status = status /\ row.public_url = short[s].public_url
  BY <1>1 DEF ShortRows, ShortStatus, Busy
<1>3. short' = [short EXCEPT ![s] = row]
  BY DEF SaveStatus
<1> HIDE DEF row
<1> QED
  BY <1>2, <1>3

LEMMA FailedRow ==
    ASSUME NEW old \in ShortRows
    PROVE  LET row == [old EXCEPT !.status = "failed", !.error_message = "error"]
           IN  /\ row \in ShortRows
               /\ row.status = "failed" /\ row.public_url = old.public_url
BY DEF ShortRows, ShortStatus

LEMMA MarkRenderingStep ==
    ASSUME Inv, NEW r \in Requests, NEW s \in Shorts, MarkRendering(r, s) PROVE Inv'
<1>0. ShortsTypeOK
  BY DEF Inv
<1>1. /\ SaveStatus(s, "rendering")
      /\ request[r].doing = "next"
      /\ request' = [request EXCEPT ![r].doing = "rendering", ![r].at = s]
      /\ UNCHANGED <<stored, patched, cut>>
  BY DEF MarkRendering
<1>2. PICK row \in ShortRows : row.status = "rendering" /\ short' = [short EXCEPT ![s] = row]
  BY <1>0, <1>1, StatusEffect DEF Busy
<1>3. /\ request' \in [Requests -> Pending]
      /\ request'[r].doing = "rendering" /\ request'[r].at = s
      /\ \A q \in Requests \ {r} : request'[q] = request[q]
  BY <1>0, <1>1 DEF ShortsTypeOK, Pending, Doing, Busy
<1>4. Playable(s, row) /\ patched' \subseteq Shorts
  BY <1>0, <1>1, <1>2 DEF Playable, ShortsTypeOK
<1> QED
  BY <1>1, <1>2, <1>3, <1>4, RowStep DEF Busy

LEMMA MarkUploadingStep ==
    ASSUME Inv, NEW r \in Requests, MarkUploading(r) PROVE Inv'
<1> DEFINE s == request[r].at
<1>0. ShortsTypeOK /\ AtHand
  BY DEF Inv
<1>1. /\ SaveStatus(s, "uploading")
      /\ request[r].doing = "rendering"
      /\ request' = [request EXCEPT ![r].doing = "uploading"]
      /\ UNCHANGED <<stored, patched, cut>>
  BY DEF MarkUploading
<1>2. s \in Shorts
  BY <1>0, <1>1 DEF AtHand, Busy
<1>3. PICK row \in ShortRows : row.status = "uploading" /\ short' = [short EXCEPT ![s] = row]
  BY <1>0, <1>1, <1>2, StatusEffect DEF Busy
<1>4. /\ request' \in [Requests -> Pending]
      /\ request'[r].doing = "uploading" /\ request'[r].at = s
      /\ \A q \in Requests \ {r} : request'[q] = request[q]
  BY <1>0, <1>1 DEF ShortsTypeOK, Pending, Doing, Busy
<1>5. Playable(s, row) /\ patched' \subseteq Shorts
  BY <1>0, <1>1, <1>3 DEF Playable, ShortsTypeOK
<1> HIDE DEF s
<1>6. request[r].at = s
  BY DEF s
<1> QED
  BY <1>1, <1>2, <1>3, <1>4, <1>5, <1>6, RowStep DEF Busy

LEMMA UploadStep == ASSUME Inv, NEW r \in Requests, Upload(r) PROVE Inv'
<1>0. ShortsTypeOK /\ Copies /\ AtHand /\ ReadyIsPlayable /\ BusyHasCause
  BY DEF Inv
<1>1. /\ request[r].at \in Shorts
      /\ stored' = stored \cup {request[r].at}
      /\ request' \in [Requests -> Pending]
      /\ request[r].doing = "uploading"
      /\ request'[r].doing = "uploaded" /\ request'[r].at = request[r].at
      /\ \A q \in Requests \ {r} : request'[q] = request[q]
      /\ UNCHANGED <<short, patched, cut>>
  BY <1>0 DEF Upload, ShortsTypeOK, Pending, Doing, AtHand, Busy
<1>2. ShortsTypeOK'
  BY <1>0, <1>1 DEF ShortsTypeOK, Pending
<1>3. Copies'
  BY <1>0, <1>1 DEF Copies, Playable
<1>4. AtHand'
  BY <1>0, <1>1 DEF AtHand, Busy
<1>5. ReadyIsPlayable'
  BY <1>0, <1>1 DEF ReadyIsPlayable
<1>6. BusyHasCause'
  BY <1>0, <1>1 DEF BusyHasCause, Busy
<1> QED
  BY <1>2, <1>3, <1>4, <1>5, <1>6 DEF Inv

LEMMA EndStep ==
    ASSUME Inv, NEW r \in Requests, SaveReady(r) \/ RenderFails(r)
    PROVE  Inv'
<1>0. ShortsTypeOK /\ AtHand /\ ReadyIsPlayable /\ BusyHasCause
  BY DEF Inv
<1> DEFINE s == request[r].at
<1>1. /\ s \in Shorts
      /\ request[r].doing \in Busy \cup {"uploaded"}
      /\ UNCHANGED <<stored, patched, cut>>
      /\ patched' \subseteq Shorts
      /\ GoOn(r, s)
  BY <1>0 DEF SaveReady, RenderFails, AtHand, ShortsTypeOK
<1>2. /\ request' \in [Requests -> Pending]
      /\ request'[r].doing \in {"idle", "next"}
      /\ \A q \in Requests \ {r} : request'[q] = request[q]
  BY <1>0, <1>1, GoOnEffect
<1>3. ASSUME NEW row \in ShortRows, short' = [short EXCEPT ![s] = row],
             row.status \notin Busy, Playable(s, row)
      PROVE  Inv'
  BY <1>1, <1>2, <1>3, RowStep DEF Busy
<1>4. CASE SaveReady(r)
  <2> DEFINE row == [status |-> "ready", public_url |-> "link", error_message |-> ""]
  <2>1. row \in ShortRows /\ row.status \notin Busy /\ Playable(s, row)
    BY <1>0, <1>4 DEF SaveReady, ShortRows, ShortStatus, Busy, Playable, AtHand
  <2>2. short' = [short EXCEPT ![s] = row]
    BY <1>4 DEF SaveReady
  <2> QED
    BY <1>3, <2>1, <2>2
<1>5. CASE RenderFails(r) /\ Exists(s)
  <2> DEFINE row == [short[s] EXCEPT !.status = "failed", !.error_message = "error"]
  <2>1. row \in ShortRows /\ row.status \notin Busy /\ Playable(s, row)
    <3>1. short[s] \in ShortRows
      BY <1>0, <1>1 DEF ShortsTypeOK
    <3>2. row \in ShortRows /\ row.status = "failed"
      BY <3>1, FailedRow
    <3> HIDE DEF row
    <3> QED
      BY <3>2 DEF Playable, Busy
  <2>2. short' = [short EXCEPT ![s] = row]
    BY <1>0, <1>1, <1>5 DEF RenderFails, ShortsTypeOK, ShortRows
  <2> QED
    BY <1>3, <2>1, <2>2
<1>6. CASE RenderFails(r) /\ ~Exists(s)
  <2>1. short' = short /\ short[s].status \notin Busy /\ short[s] \in ShortRows
    BY <1>0, <1>1, <1>6 DEF RenderFails, Exists, ShortStatus, Busy, ShortsTypeOK
  <2>2. short' = [short EXCEPT ![s] = short[s]]
    BY <1>0, <2>1 DEF ShortsTypeOK
  <2>3. Playable(s, short[s])
    BY <1>0, <1>1 DEF ReadyIsPlayable, Playable
  <2> QED
    BY <1>3, <2>1, <2>2, <2>3
<1> QED
  BY <1>4, <1>5, <1>6

LEMMA PatchStep ==
    ASSUME Inv, NEW r \in Requests, (\E s \in Shorts : LoadPatch(r, s)) \/ SavePatch(r)
    PROVE  Inv'
<1>0. ShortsTypeOK /\ Copies /\ AtHand /\ ReadyIsPlayable /\ BusyHasCause
  BY DEF Inv
<1>1. ASSUME NEW s \in Shorts, LoadPatch(r, s) PROVE Inv'
  <2>1. /\ request' \in [Requests -> Pending]
        /\ request[r].doing = "idle"
        /\ request'[r].doing = "patching"
        /\ request'[r].at = s /\ request'[r].copy = short[s]
        /\ \A q \in Requests \ {r} : request'[q] = request[q]
        /\ UNCHANGED <<short, stored, patched, cut>>
    BY <1>0, <1>1 DEF LoadPatch, ShortsTypeOK, Pending, Doing
  <2>2. ShortsTypeOK'
    BY <1>0, <2>1 DEF ShortsTypeOK, Pending
  <2>3. Copies'
    <3>1. Playable(s, short[s])
      BY <1>0 DEF ReadyIsPlayable, Playable
    <3> QED
      BY ZenonT(30), <1>0, <2>1, <3>1 DEF Copies, Playable
  <2>4. AtHand'
    BY <1>0, <2>1 DEF AtHand, Busy
  <2>5. ReadyIsPlayable'
    BY <1>0, <2>1 DEF ReadyIsPlayable
  <2>6. BusyHasCause'
    BY <1>0, <2>1 DEF BusyHasCause, Busy
  <2> QED
    BY <2>2, <2>3, <2>4, <2>5, <2>6 DEF Inv
<1>2. ASSUME SavePatch(r) PROVE Inv'
  <2> DEFINE s == request[r].at
  <2>1. /\ s \in Shorts /\ request[r].copy \in ShortRows
        /\ Playable(s, request[r].copy)
        /\ short' = [short EXCEPT ![s] = request[r].copy]
        /\ patched' = patched \cup {s} /\ patched' \subseteq Shorts
        /\ UNCHANGED <<stored, cut>>
        /\ request[r].doing = "patching"
    BY <1>0, <1>2 DEF SavePatch, Copies, ShortsTypeOK
  <2>2. /\ request' \in [Requests -> Pending]
        /\ request'[r].doing = "idle"
        /\ \A q \in Requests \ {r} : request'[q] = request[q]
    BY <1>0, <1>2, IdleType DEF SavePatch, ShortsTypeOK, Pending
  <2> QED
    BY <2>1, <2>2, RowStep DEF Busy
<1> QED
  BY <1>1, <1>2

LEMMA DeleteStep == ASSUME Inv, NEW s \in Shorts, Delete(s) PROVE Inv'
<1>0. ShortsTypeOK /\ Copies /\ AtHand /\ ReadyIsPlayable /\ BusyHasCause
  BY DEF Inv
<1>1. [NoRow EXCEPT !.status = "deleted"] \in ShortRows
      /\ [NoRow EXCEPT !.status = "deleted"].status = "deleted"
  BY DEF NoRow, ShortRows, ShortStatus
<1>2. /\ short' \in [Shorts -> ShortRows]
      /\ short'[s].status = "deleted"
      /\ \A q \in Shorts \ {s} : short'[q] = short[q]
      /\ UNCHANGED <<stored, request, patched, cut>>
  BY <1>0, <1>1 DEF Delete, ShortsTypeOK
<1>3. ShortsTypeOK' /\ Copies' /\ AtHand'
  BY <1>0, <1>2 DEF ShortsTypeOK, Copies, AtHand, Playable
<1>4. ReadyIsPlayable'
  BY <1>0, <1>2 DEF ReadyIsPlayable
<1>5. BusyHasCause'
  BY <1>0, <1>2 DEF BusyHasCause, Busy
<1> QED
  BY <1>3, <1>4, <1>5 DEF Inv

LEMMA KillStep == ASSUME Inv, NEW r \in Requests, Kill(r) PROVE Inv'
<1>0. ShortsTypeOK /\ Copies /\ AtHand /\ ReadyIsPlayable /\ BusyHasCause
  BY DEF Inv
<1>1. /\ request' \in [Requests -> Pending]
      /\ request'[r].doing = "idle"
      /\ \A q \in Requests \ {r} : request'[q] = request[q]
      /\ UNCHANGED <<short, stored, patched>>
  BY <1>0, IdleType DEF Kill, ShortsTypeOK, Pending
<1>2. /\ cut \subseteq cut' /\ cut' \subseteq Shorts
      /\ request[r].doing \in Busy \cup {"uploaded"} => request[r].at \in cut'
  BY <1>0 DEF Kill, ShortsTypeOK, AtHand
<1>3. ShortsTypeOK' /\ Copies' /\ AtHand'
  BY <1>0, <1>1, <1>2 DEF ShortsTypeOK, Copies, AtHand, Playable, Pending, Busy
<1>4. ReadyIsPlayable'
  BY <1>0, <1>1 DEF ReadyIsPlayable
<1>5. BusyHasCause'
  BY <1>0, <1>1, <1>2 DEF BusyHasCause, Busy
<1> QED
  BY <1>3, <1>4, <1>5 DEF Inv

LEMMA InvStep == Inv /\ [Next]_vars => Inv'
<1> SUFFICES ASSUME Inv, [Next]_vars PROVE Inv'
  OBVIOUS
<1>0. ShortsTypeOK
  BY DEF Inv
<1>1. ASSUME NEW r \in Requests, identify_and_queue_shorts(r) \/ render_all_queued_shorts(r)
      PROVE  Inv'
  <2>1. \E S \in SUBSET Shorts, what \in {"queueing", "downloading", "next"} : Begin(r, what, S)
    BY <1>1 DEF identify_and_queue_shorts, render_all_queued_shorts
  <2> QED
    BY <2>1, BeginStep
<1>2. ASSUME NEW r \in Requests, NEW s \in Shorts, RenderShortAPI(r, s) PROVE Inv'
  BY <1>2, BeginStep DEF RenderShortAPI
<1>3. ASSUME NEW r \in Requests, QueueingEnds(r) \/ SourceArrives(r) \/ SourceFails(r)
      PROVE  Inv'
  <2>1. /\ UNCHANGED <<short, stored, patched, cut>>
        /\ request' \in [Requests -> Pending]
        /\ \A q \in Requests \ {r} : request'[q] = request[q]
        /\ request[r].doing \in {"queueing", "downloading"}
        /\ request'[r].doing \in {"idle", "next"}
    BY <1>0, <1>3, IdleType DEF QueueingEnds, SourceArrives, SourceFails, ShortsTypeOK,
                                Pending, Doing
  <2> QED
    BY <2>1, QuietStep DEF Busy
<1>4. ASSUME NEW r \in Requests, NEW s \in Shorts, SkipDeleted(r, s) PROVE Inv'
  <2>1. /\ UNCHANGED <<short, stored, patched, cut>>
        /\ request[r].doing = "next"
        /\ GoOn(r, s)
    BY <1>4 DEF SkipDeleted
  <2> QED
    BY <1>0, <2>1, GoOnEffect, QuietStep DEF Busy
<1>5. ASSUME UNCHANGED vars PROVE Inv'
  BY <1>5 DEF vars, Inv, ShortsTypeOK, Copies, AtHand, ReadyIsPlayable, BusyHasCause, Playable
<1> QED
  BY <1>1, <1>2, <1>3, <1>4, <1>5, QueueStep, MarkRenderingStep, MarkUploadingStep, UploadStep, EndStep, PatchStep,
     DeleteStep, KillStep DEF Next, Render

\* Every variable stays within its type.
THEOREM ShortsTypeCorrect == Spec => []ShortsTypeOK
<1>1. Inv => ShortsTypeOK
  BY DEF Inv
<1> QED
  BY <1>1, InitInv, InvStep, PTL DEF Spec

\* A READY short can be played, whatever requests overlap.
THEOREM ReadyPlays == Spec => []ReadyIsPlayable
<1>1. Inv => ReadyIsPlayable
  BY DEF Inv
<1> QED
  BY <1>1, InitInv, InvStep, PTL DEF Spec

\* A short is left busy only by a kill or by a stale edit.
THEOREM BusyIsExplained == Spec => []BusyHasCause
<1>1. Inv => BusyHasCause
  BY DEF Inv
<1> QED
  BY <1>1, InitInv, InvStep, PTL DEF Spec

\* No render takes a shared link away.
THEOREM LinksStay == Spec => LinkStays
<1> DEFINE Keep == \A s \in Shorts :
                     short[s].public_url = "link" /\ Exists(s) /\ Exists(s)' =>
                        \/ short'[s].public_url = "link"
                        \/ \E r \in Requests : request[r].doing = "patching" /\ request[r].at = s
<1>1. Inv /\ [Next]_vars => [Keep]_vars
  <2> SUFFICES ASSUME Inv, Next PROVE Keep
    OBVIOUS
  <2>0. ShortsTypeOK
    BY DEF Inv
  <2>1. ASSUME short' = short PROVE Keep
    BY <2>1
  <2>2. ASSUME NEW s \in Shorts, NEW row \in ShortRows, short' = [short EXCEPT ![s] = row],
               \/ row.public_url \in {"link", short[s].public_url}
               \/ row.status \notin ShortStatus
               \/ ~Exists(s)
               \/ \E r \in Requests : request[r].doing = "patching" /\ request[r].at = s
        PROVE  Keep
    <3>1. short'[s] = row /\ \A q \in Shorts \ {s} : short'[q] = short[q]
      BY <2>0, <2>2 DEF ShortsTypeOK
    <3> QED
      BY <2>2, <3>1 DEF Exists
  <2>3. ASSUME NEW r \in Requests, NEW s \in Shorts, QueueShort(r, s) PROVE Keep
    <3>1. [NoRow EXCEPT !.status = "queued"] \in ShortRows
      BY DEF NoRow, ShortRows, ShortStatus
    <3>2. ~Exists(s) /\ short' = [short EXCEPT ![s] = [NoRow EXCEPT !.status = "queued"]]
      BY <2>3 DEF QueueShort, Exists, ShortStatus
    <3> QED
      BY <2>2, <3>1, <3>2
  <2>4. ASSUME NEW s \in Shorts, NEW status \in Busy, SaveStatus(s, status) PROVE Keep
    <3>1. PICK row \in ShortRows : /\ row.public_url = short[s].public_url
                                  /\ short' = [short EXCEPT ![s] = row]
      BY <2>0, <2>4, StatusEffect
    <3> QED
      BY <2>2, <3>1
  <2>5. ASSUME NEW r \in Requests, NEW s \in Shorts, MarkRendering(r, s) PROVE Keep
    BY <2>4, <2>5 DEF MarkRendering, Busy
  <2>6. ASSUME NEW r \in Requests, MarkUploading(r) PROVE Keep
    <3>1. request[r].at \in Shorts /\ SaveStatus(request[r].at, "uploading")
      BY <2>6 DEF Inv, AtHand, MarkUploading, Busy
    <3> QED
      BY <2>4, <3>1 DEF Busy
  <2>7. ASSUME NEW r \in Requests, SaveReady(r) PROVE Keep
    <3> DEFINE row == [status |-> "ready", public_url |-> "link", error_message |-> ""]
    <3>1. request[r].at \in Shorts
      BY <2>7 DEF Inv, AtHand, SaveReady, Busy
    <3>2. row \in ShortRows /\ row.public_url = "link"
      BY DEF ShortRows, ShortStatus
    <3>3. short' = [short EXCEPT ![request[r].at] = row]
      BY <2>7 DEF SaveReady
    <3> HIDE DEF row
    <3> QED
      BY <2>2, <3>1, <3>2, <3>3
  <2>8. ASSUME NEW r \in Requests, RenderFails(r) PROVE Keep
    <3> DEFINE s == request[r].at
               row == [short[s] EXCEPT !.status = "failed", !.error_message = "error"]
    <3>1. s \in Shorts
      BY <2>8 DEF Inv, AtHand, RenderFails
    <3>2. row \in ShortRows /\ row.public_url = short[s].public_url
      <4>1. short[s] \in ShortRows
        BY <2>0, <3>1 DEF ShortsTypeOK
      <4> QED
        BY <4>1, FailedRow
    <3>3. short' = [short EXCEPT ![s] = row] \/ short' = short
      BY <2>8, <2>0, <3>1 DEF RenderFails, ShortsTypeOK, ShortRows
    <3> HIDE DEF s, row
    <3> QED
      BY <2>1, <2>2, <3>1, <3>2, <3>3
  <2>9. ASSUME NEW r \in Requests, SavePatch(r) PROVE Keep
    <3>1. request[r].at \in Shorts /\ request[r].copy \in ShortRows
      BY <2>9 DEF Inv, Copies, SavePatch, ShortsTypeOK
    <3> QED
      BY <2>2, <2>9, <3>1 DEF SavePatch
  <2>10. ASSUME NEW s \in Shorts, Delete(s) PROVE Keep
    <3>1. /\ [NoRow EXCEPT !.status = "deleted"] \in ShortRows
          /\ [NoRow EXCEPT !.status = "deleted"].status \notin ShortStatus
      BY DEF NoRow, ShortRows, ShortStatus
    <3> QED
      BY <2>2, <2>10, <3>1 DEF Delete
  <2> HIDE DEF Keep
  <2>11. ASSUME NEW r \in Requests, NEW s \in Shorts,
               RenderShortAPI(r, s) \/ LoadPatch(r, s) \/ SkipDeleted(r, s)
        PROVE  short' = short
    BY <2>11 DEF RenderShortAPI, Begin, LoadPatch, SkipDeleted
  <2>12. ASSUME NEW r \in Requests,
               identify_and_queue_shorts(r) \/ QueueingEnds(r) \/ render_all_queued_shorts(r)
               \/ Kill(r) \/ SourceArrives(r) \/ SourceFails(r) \/ Upload(r)
        PROVE  short' = short
    BY <2>12 DEF identify_and_queue_shorts, QueueingEnds, render_all_queued_shorts,
                 Begin, Kill, SourceArrives, SourceFails, Upload
  <2> QED
    BY <2>1, <2>3, <2>5, <2>6, <2>7, <2>8, <2>9, <2>10, <2>11, <2>12 DEF Next, Render
<1> QED
  BY <1>1, InitInv, InvStep, PTL DEF Spec, LinkStays
=============================================================================
