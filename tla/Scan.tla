------------------------------- MODULE Scan -------------------------------
(***************************************************************************)
(* disk_scheduling::scan: the elevator's seek distance and select_next,    *)
(* once for an array of requests and once for a flat_set.                  *)
(*                                                                         *)
(* A request is its track.  The array's select_next sorts it first, so it  *)
(* tells its requests apart as a set does.  The library leaves serving to  *)
(* its user; here the user serves what the flat_set's select_next chose,   *)
(* moves the head there and takes the request out, while others arrive.    *)
(***************************************************************************)
EXTENDS Integers, FiniteSetsExt

CONSTANTS MinTrack, MaxTrack     \* type_info

ASSUME TracksAssumption == MinTrack \in Nat /\ MaxTrack \in Nat /\ MinTrack < MaxTrack

Tracks == MinTrack .. MaxTrack

VARIABLES head_position,
          curr_direction,
          requests         \* the flat_set

scanVars == <<head_position, curr_direction, requests>>

Selection(request, direction) == [request |-> request, direction |-> direction]

-----------------------------------------------------------------------------
(* compute_seek_distance *)

\* Variant: a request at the head is taken for one behind it.
SeekDistanceBehind(pending, head, direction) ==
    CASE pending \subseteq {head} -> 0
      [] direction = "left" /\ pending # {head} ->
            (head - MinTrack) + (IF head <= Max(pending) THEN Max(pending) - MinTrack ELSE 0)
      [] OTHER -> (MaxTrack - head) + (IF head >= Min(pending) THEN MaxTrack - Min(pending) ELSE 0)

SeekDistance(pending, head, direction) ==
    CASE pending \subseteq {head} -> 0
      [] direction = "left" /\ ~(pending \subseteq {head}) ->
            (head - MinTrack) + (IF head < Max(pending) THEN Max(pending) - MinTrack ELSE 0)
      [] OTHER -> (MaxTrack - head) + (IF head > Min(pending) THEN MaxTrack - Min(pending) ELSE 0)

-----------------------------------------------------------------------------
(* select_next *)

\* Over a sorted array: index is the first request greater than the head.
SelectFromArray(head, direction, pending) ==
    LET greater == {r \in pending : r > head}
        others == pending \ greater
    IN  IF direction = "right"
        THEN IF greater = {} THEN Selection(Max(pending), "left")
             ELSE Selection(Min(greater), "right")
        ELSE IF others = {} THEN Selection(Min(pending), "right")
             ELSE Selection(Max(others), "left")

\* Variant: beyond the last request ahead, the farthest one behind is chosen.
SelectFromSetFarthest(head, direction, pending) ==
    LET greater == {r \in pending : r > head}
        less == {r \in pending : r < head}
    IN  IF direction = "right"
        THEN IF greater = {} THEN Selection(Min(pending), "left")
             ELSE Selection(Min(greater), "right")
        ELSE IF less = {} THEN Selection(Max(pending), "right")
             ELSE Selection(Max(less), "left")

\* Variant: the direction is not changed at the last request.
SelectFromSetOneWay(head, direction, pending) ==
    LET greater == {r \in pending : r > head}
    IN  IF greater = {} THEN Selection(Max(pending), "right")
        ELSE Selection(Min(greater), "right")

\* Over a flat_set, with upper_bound and lower_bound: never the head's own request
\* while there is another one ahead.
SelectFromSet(head, direction, pending) ==
    LET greater == {r \in pending : r > head}
        less == {r \in pending : r < head}
    IN  IF direction = "right"
        THEN IF greater = {} THEN Selection(Max(pending), "left")
             ELSE Selection(Min(greater), "right")
        ELSE IF less = {} THEN Selection(Min(pending), "right")
             ELSE Selection(Max(less), "left")

-----------------------------------------------------------------------------

ScanTypeOK ==
    /\ head_position \in Tracks
    /\ curr_direction \in {"left", "right"}
    /\ requests \subseteq Tracks

ScanInit ==
    /\ head_position \in Tracks
    /\ curr_direction \in {"left", "right"}
    /\ requests \in SUBSET Tracks

Arrive(r) ==
    /\ requests' = requests \cup {r}
    /\ UNCHANGED <<head_position, curr_direction>>

SelectNext ==
    /\ requests # {}
    /\ LET selected == SelectFromSet(head_position, curr_direction, requests)
       IN  /\ head_position' = selected.request
           /\ curr_direction' = selected.direction
           /\ requests' = requests \ {selected.request}

ScanNext == SelectNext \/ \E r \in Tracks \ requests : Arrive(r)

ScanSpec == ScanInit /\ [][ScanNext]_scanVars

ScanFairness == WF_scanVars(SelectNext)

-----------------------------------------------------------------------------
(* Properties *)

\* Where the head is after n moves of one track: on in its direction to the end of the
\* disk, and back from there.
ToEnd(head, direction) == IF direction = "left" THEN head - MinTrack ELSE MaxTrack - head
After(n, head, direction) ==
    LET turn == ToEnd(head, direction)
        forth == IF n <= turn THEN n ELSE turn - (n - turn)
    IN  IF direction = "left" THEN head - forth ELSE head + forth

\* How many moves take it to the end, and over all that is waiting.
Sweeps(pending, head, direction) ==
    {n \in ToEnd(head, direction) .. 2 * (MaxTrack - MinTrack) :
        \A r \in pending : \E i \in 0 .. n : r = After(i, head, direction)}

\* compute_seek_distance is the way of a head that sweeps to the end of the disk and
\* then back as far as requests are waiting, or none if nothing waits elsewhere.
SeekDistanceIsTravelled ==
    \A direction \in {"left", "right"} :
        SeekDistance(requests, head_position, direction) =
            IF requests \subseteq {head_position} THEN 0
            ELSE Min(Sweeps(requests, head_position, direction))

\* The two select_next choose the same request and direction but in one case: of a request
\* where the head is, which a head moving left serves at once from an array, and goes on,
\* whereas the flat_set's prefers what is ahead, and turns round if nothing is.  A head moving
\* right treats it alike in both.
SelectionsAgree ==
    requests # {} =>
        \A direction \in {"left", "right"} :
            SelectFromArray(head_position, direction, requests) =
                IF direction = "left" /\ head_position \in requests
                THEN Selection(head_position, "left")
                ELSE SelectFromSet(head_position, direction, requests)

\* The head never jumps over a request: what it moves to is the nearest in its way.
NothingIsPassed ==
    [][SelectNext => \A r \in requests :
          ~(head_position < r /\ r < head_position') /\ ~(head_position' < r /\ r < head_position)]_scanVars

\* Every request is served in the end, whatever arrives meanwhile, at the head's own
\* track too: select_next on a flat_set starves none.  (On an array it can, with
\* requests that keep arriving where the head stands while it moves left.)
EveryRequestServed == \A r \in Tracks : r \in requests ~> r \notin requests
=============================================================================
