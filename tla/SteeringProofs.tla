---------------------------- MODULE SteeringProofs ----------------------------
(***************************************************************************)
(* Proofs about Steering and the paged reads under it, for any number of   *)
(* callers, sessions, activities, calls and plans, and any page size.      *)
(* Each invariant is inductive relative to the types and the shape of a    *)
(* call (Frame).  They rest on three facts about Jules: the log only       *)
(* grows, what is written never changes, and plans are numbered upwards.   *)
(* The reads are shown to implement RegularRead, and every call to run     *)
(* down a measure.                                                         *)
(***************************************************************************)
EXTENDS Steering, FiniteSetTheorems, TLAPS

(* What the program counter of a call says of its locals.                   *)
Shape(c) ==
    /\ call[c].pc # "idle" => calls[c] \in 1 .. MaxCalls /\ call[c].command \in Command
    /\ call[c].command \in Bulk =>
         /\ call[c].pc \in {"look", "post", "again", "done"}
         /\ call[c].pc # "done" => call[c].todo # {}
    /\ call[c].command = "message" => call[c].pc \notin {"look", "again"}
    /\ call[c].todo \subseteq call[c].ids

(* Only call c changes, and keeps what it is about.                         *)
Moves(c) ==
    /\ call' \in [Caller -> Call]
    /\ \A d \in Caller \ {c} : call'[d] = call[d]
    /\ call'[c].command = call[c].command
    /\ call'[c].ids = call[c].ids
    /\ call'[c].known = call[c].known
    /\ call'[c].hidden = call[c].hidden
    /\ call'[c].asks = call[c].asks
    /\ call'[c].todo \subseteq call[c].todo

(* The program counter moves, nothing else of the call.                     *)
KeepsLocals(c) ==
    /\ call'[c].before = call[c].before
    /\ call'[c].moved = call[c].moved
    /\ call'[c].todo = call[c].todo
    /\ call'[c].failed = call[c].failed

-----------------------------------------------------------------------------
LEMMA EndMoves ==
  ASSUME TypeOK, NEW c \in Caller,
         NEW outcome \in {"completed", "existing", "reconciled", "indeterminate", "error"},
         End(c, outcome)
  PROVE  /\ Moves(c)
         /\ call'[c].pc = "done"
         /\ call'[c].outcome = outcome
  <1> DEFINE v == [call[c] EXCEPT !.pc = "done", !.outcome = outcome, !.before = {},
                                  !.moved = FALSE, !.todo = {}]
  <1>1. call[c] \in Call
    BY DEF TypeOK
  <1>2. v \in Call
    BY <1>1 DEF Call, Success
  <1>3. call' = [call EXCEPT ![c] = v]
    BY <1>1 DEF End, TypeOK, Call
  <1>4. /\ v.command = call[c].command
        /\ v.ids = call[c].ids
        /\ v.known = call[c].known
        /\ v.hidden = call[c].hidden
        /\ v.asks = call[c].asks
        /\ v.todo = {}
        /\ v.pc = "done"
        /\ v.outcome = outcome
    BY <1>1 DEF Call
  <1> HIDE DEF v
  <1>5. /\ call' \in [Caller -> Call]
        /\ call'[c] = v
        /\ \A d \in Caller \ {c} : call'[d] = call[d]
    BY <1>2, <1>3 DEF TypeOK
  <1> QED
    BY <1>4, <1>5 DEF Moves

LEMMA GotoMoves ==
  ASSUME TypeOK, NEW c \in Caller,
         NEW label \in {"before", "post", "again", "after"},
         Goto(c, label)
  PROVE  /\ Moves(c)
         /\ KeepsLocals(c)
         /\ call'[c].pc = label
  <1> DEFINE v == [call[c] EXCEPT !.pc = label]
  <1>1. call[c] \in Call
    BY DEF TypeOK
  <1>2. v \in Call
    BY <1>1 DEF Call
  <1>3. call' = [call EXCEPT ![c] = v]
    BY <1>1 DEF Goto, TypeOK, Call
  <1>4. /\ v.command = call[c].command
        /\ v.ids = call[c].ids
        /\ v.known = call[c].known
        /\ v.hidden = call[c].hidden
        /\ v.asks = call[c].asks
        /\ v.todo = call[c].todo
        /\ v.before = call[c].before
        /\ v.moved = call[c].moved
        /\ v.failed = call[c].failed
        /\ v.pc = label
    BY <1>1 DEF Call
  <1> HIDE DEF v
  <1>5. /\ call' \in [Caller -> Call]
        /\ call'[c] = v
        /\ \A d \in Caller \ {c} : call'[d] = call[d]
    BY <1>2, <1>3 DEF TypeOK
  <1> QED
    BY <1>4, <1>5 DEF Moves, KeepsLocals

(* One item of a bulk command is done.                                      *)
LEMMA NextItemMoves ==
  ASSUME TypeOK, NEW c \in Caller, NEW bad \in BOOLEAN, NextItem(c, bad)
  PROVE  /\ Moves(c)
         /\ call'[c].todo = call[c].todo \ {Item(c)}
         /\ call'[c].failed = (call[c].failed \/ bad)
         /\ \/ call'[c].pc = "look" /\ call'[c].todo # {}
            \/ /\ call'[c].pc = "done"
               /\ call'[c].todo = {}
               /\ call'[c].outcome \in {"partial", "completed"}
               /\ call'[c].outcome = "completed" => ~ call'[c].failed
  <1> DEFINE rest == call[c].todo \ {Item(c)}
             failed == call[c].failed \/ bad
             on == [call[c] EXCEPT !.todo = rest, !.failed = failed, !.pc = "look"]
             end == [call[c] EXCEPT !.todo = rest, !.failed = failed, !.pc = "done",
                        !.outcome = IF failed THEN "partial" ELSE "completed"]
             v == IF rest # {} THEN on ELSE end
  <1>1. call[c] \in Call
    BY DEF TypeOK
  <1>2. rest \subseteq Session /\ failed \in BOOLEAN
    BY <1>1 DEF Call
  <1>3. on \in Call /\ end \in Call
    BY <1>1, <1>2 DEF Call, Success
  <1>4. call' = [call EXCEPT ![c] = v]
    BY <1>1 DEF NextItem, TypeOK, Call
  <1>5. /\ on.command = call[c].command /\ end.command = call[c].command
        /\ on.ids = call[c].ids /\ end.ids = call[c].ids
        /\ on.known = call[c].known /\ end.known = call[c].known
        /\ on.hidden = call[c].hidden /\ end.hidden = call[c].hidden
        /\ on.asks = call[c].asks /\ end.asks = call[c].asks
        /\ on.todo = rest /\ end.todo = rest
        /\ on.failed = failed /\ end.failed = failed
        /\ on.pc = "look" /\ end.pc = "done"
        /\ end.outcome = IF failed THEN "partial" ELSE "completed"
    BY <1>1 DEF Call
  <1> HIDE DEF on, end
  <1>6. /\ call' \in [Caller -> Call]
        /\ call'[c] = v
        /\ \A d \in Caller \ {c} : call'[d] = call[d]
    BY <1>3, <1>4 DEF TypeOK
  <1>7. Moves(c) /\ call'[c].todo = rest /\ call'[c].failed = failed
    BY <1>5, <1>6 DEF Moves
  <1> QED
    BY <1>5, <1>6, <1>7

LEMMA FailsMoves ==
  ASSUME TypeOK, NEW c \in Caller, NEW outcome \in {"indeterminate", "error"},
         Fails(c, outcome)
  PROVE  /\ Moves(c)
         /\ \/ call[c].command \in Bulk /\ NextItem(c, TRUE)
            \/ /\ call[c].command \notin Bulk
               /\ call'[c].pc = "done"
               /\ call'[c].outcome = outcome
  BY EndMoves, NextItemMoves DEF Fails

LEMMA SucceedsMoves ==
  ASSUME TypeOK, NEW c \in Caller, NEW outcome \in Success, Succeeds(c, outcome)
  PROVE  /\ Moves(c)
         /\ \/ call[c].command \in Bulk /\ NextItem(c, FALSE)
            \/ /\ call[c].command \notin Bulk
               /\ call'[c].pc = "done"
               /\ call'[c].outcome = outcome
  BY EndMoves, NextItemMoves DEF Succeeds, Success

LEMMA GetFailsMoves ==
  ASSUME TypeOK, NEW c \in Caller, GetFails(c)
  PROVE  /\ Moves(c)
         /\ \/ call[c].command \in Bulk /\ NextItem(c, TRUE)
            \/ call'[c].pc = "done" /\ call'[c].outcome = "error"
  BY EndMoves, FailsMoves DEF GetFails

-----------------------------------------------------------------------------
(* Reads.  What was listed when a read began is yielded or lies ahead.      *)
ReadOK(r) ==
    /\ read[r].start \subseteq listed
    /\ \A a \in Resource : /\ read[r].yielded[a] <= 1
                           /\ read[r].yielded[a] > 0 => a \in listed
    /\ read[r].pc = "page" =>
         \A a \in read[r].start : read[r].yielded[a] > 0 \/ Place(a) >= read[r].token
    /\ read[r].pc = "whole" => \A a \in read[r].start : read[r].yielded[a] > 0

LEMMA ListedIsFinite ==
  ASSUME ListingTypeOK
  PROVE  IsFiniteSet(listed) /\ Cardinality(listed) \in Nat
  BY FS_Subset, FS_CardinalityType, ResourceAssumption DEF ListingTypeOK

LEMMA PlaceIsNat ==
  ASSUME ListingTypeOK, NEW a \in listed
  PROVE  Place(a) \in Nat /\ Place(a) < Cardinality(listed)
  <1> DEFINE below == {b \in listed : b < a}
  <1>1. IsFiniteSet(listed) /\ Cardinality(listed) \in Nat
    BY ListedIsFinite
  <1>2. below \in SUBSET listed
    OBVIOUS
  <1>3. /\ IsFiniteSet(below)
        /\ Cardinality(below) <= Cardinality(listed)
        /\ Cardinality(listed) = Cardinality(below) => listed = below
    BY <1>1, <1>2, FS_Subset
  <1>4. Cardinality(below) \in Nat
    BY <1>3, FS_CardinalityType
  <1>5. a \notin below
    BY ResourceAssumption DEF ListingTypeOK
  <1>6. listed # below
    BY <1>5
  <1>7. Place(a) = Cardinality(below)
    BY DEF Place
  <1> QED
    BY <1>1, <1>3, <1>4, <1>6, <1>7

LEMMA PlaceGrows ==
  ASSUME ListingTypeOK, ListingTypeOK', listed \subseteq listed', NEW a \in listed
  PROVE  Place(a) \in Nat /\ Place(a)' \in Nat /\ Place(a) <= Place(a)'
  <1> DEFINE below == {b \in listed : b < a}
             after == {b \in listed' : b < a}
  <1>1. IsFiniteSet(listed')
    BY FS_Subset, ResourceAssumption DEF ListingTypeOK
  <1>2. IsFiniteSet(after)
    BY <1>1, FS_Subset
  <1>3. below \in SUBSET after
    OBVIOUS
  <1>4. Cardinality(below) <= Cardinality(after)
    BY <1>2, <1>3, FS_Subset
  <1>5. IsFiniteSet(below)
    BY <1>2, <1>3, FS_Subset
  <1>6. Cardinality(below) \in Nat /\ Cardinality(after) \in Nat
    BY <1>2, <1>5, FS_CardinalityType
  <1>7. Place(a) = Cardinality(below) /\ Place(a)' = Cardinality(after)
    BY DEF Place
  <1> QED
    BY <1>4, <1>6, <1>7

LEMMA NoReadTyped == NoRead \in Read
  BY PageAssumption DEF NoRead, Read

LEMMA BeginReadOK ==
  ASSUME ListingTypeOK, NEW r \in Reader, BeginRead(r)
  PROVE  /\ read' \in [Reader -> Read]
         /\ read'[r].pc = "page"
         /\ read'[r].start = listed
         /\ read'[r].token = 0
         /\ \A a \in Resource : read'[r].yielded[a] = 0
         /\ \A q \in Reader \ {r} : read'[q] = read[q]
  <1> DEFINE v == [NoRead EXCEPT !.pc = "page", !.start = listed]
  <1>1. v \in Read
    BY NoReadTyped DEF Read, ListingTypeOK
  <1>2. /\ v.pc = "page" /\ v.start = listed /\ v.token = 0
        /\ \A a \in Resource : v.yielded[a] = 0
    BY DEF NoRead
  <1> HIDE DEF v
  <1>3. read' = [read EXCEPT ![r] = v]
    BY DEF BeginRead, v
  <1> QED
    BY <1>1, <1>2, <1>3 DEF ListingTypeOK

LEMMA ForgetOK ==
  ASSUME ListingTypeOK, NEW r \in Reader, Forget(r)
  PROVE  /\ read' \in [Reader -> Read]
         /\ read'[r] = NoRead
         /\ \A q \in Reader \ {r} : read'[q] = read[q]
  BY NoReadTyped DEF Forget, ListingTypeOK

(* A new page, with v the read after it: everything that was listed at its  *)
(* start has been yielded or lies at the next offset or behind it.          *)
LEMMA PageCovers ==
  ASSUME ListingTypeOK, NEW r \in Reader, ReadOK(r), read[r].pc = "page"
  PROVE  LET y == Yield(read[r].yielded, Page(read[r].token))
         IN  /\ y \in [Resource -> Nat]
             /\ \A a \in Resource : y[a] <= 1 /\ (y[a] > 0 => a \in listed)
             /\ \A a \in Resource : read[r].yielded[a] > 0 => y[a] > 0
             /\ \A a \in read[r].start : y[a] > 0 \/ Place(a) >= read[r].token + PageSize
  <1> DEFINE page == Page(read[r].token)
             y == Yield(read[r].yielded, page)
  <1>1. read[r] \in Read
    BY DEF ListingTypeOK
  <1>2. read[r].yielded \in [Resource -> Nat] /\ read[r].token \in Nat
    BY <1>1 DEF Read
  <1>3. page \subseteq listed /\ listed \subseteq Resource
    BY DEF Page, ListingTypeOK
  <1>4. y \in [Resource -> Nat] /\ \A a \in Resource :
          /\ a \in page => y[a] > 0
          /\ read[r].yielded[a] > 0 => y[a] = read[r].yielded[a]
          /\ y[a] > 0 => read[r].yielded[a] > 0 \/ a \in page
          /\ read[r].yielded[a] <= 1 => y[a] <= 1
    BY <1>2 DEF Yield
  <1>5. ASSUME NEW a \in read[r].start
        PROVE  y[a] > 0 \/ Place(a) >= read[r].token + PageSize
    <2>1. a \in listed /\ a \in Resource
      BY <1>3 DEF ReadOK
    <2>2. Place(a) \in Nat
      BY <2>1, PlaceIsNat
    <2>3. CASE read[r].yielded[a] > 0
      BY <1>4, <2>1, <2>3
    <2>4. CASE /\ Place(a) >= read[r].token
               /\ Place(a) < read[r].token + PageSize
      <3>1. a \in page
        BY <1>2, <2>1, <2>2, <2>4, PageAssumption DEF Page
      <3> QED
        BY <1>4, <2>1, <3>1
    <2> QED
      BY <1>2, <2>2, <2>3, <2>4, PageAssumption DEF ReadOK
  <1>a. ASSUME NEW a \in Resource
        PROVE  read[r].yielded[a] <= 1 /\ (read[r].yielded[a] > 0 => a \in listed)
    BY Zenon DEF ReadOK
  <1>6. \A a \in Resource : y[a] <= 1 /\ (y[a] > 0 => a \in listed)
    <2> HIDE DEF y, page
    <2> QED
      BY <1>3, <1>4, <1>a
  <1>7. \A a \in Resource : read[r].yielded[a] > 0 => y[a] > 0
    BY <1>4
  <1> HIDE DEF y, page
  <1>8. y = Yield(read[r].yielded, Page(read[r].token))
    BY DEF y, page
  <1> QED
    BY <1>4, <1>5, <1>6, <1>7, <1>8

LEMMA ReadStays ==
  ASSUME ListingTypeOK, ListingTypeOK', listed \subseteq listed', NEW r \in Reader,
         ReadOK(r), read'[r] = read[r]
  PROVE  ReadOK(r)'
  <1>1. read[r] \in Read
    BY DEF ListingTypeOK
  <1>2. \A a \in read[r].start : Place(a) \in Nat /\ Place(a)' \in Nat /\ Place(a) <= Place(a)'
    BY PlaceGrows DEF ReadOK
  <1>3. read[r].token \in Nat
    BY <1>1 DEF Read
  <1> QED
    BY <1>2, <1>3 DEF ReadOK

LEMMA ReadStarts ==
  ASSUME ListingTypeOK, ListingTypeOK', listed \subseteq listed', NEW r \in Reader,
         BeginRead(r)
  PROVE  ReadOK(r)'
  <1>1. \A a \in read'[r].start : Place(a)' \in Nat
    BY BeginReadOK, PlaceGrows
  <1> QED
    BY <1>1, BeginReadOK DEF ReadOK

LEMMA ReadIsForgotten ==
  ASSUME ListingTypeOK, NEW r \in Reader, Forget(r)
  PROVE  ReadOK(r)'
  <1>1. read'[r] = NoRead
    BY ForgetOK
  <1>2. /\ NoRead.start = {}
        /\ NoRead.pc = "off"
        /\ \A a \in Resource : NoRead.yielded[a] = 0
    BY DEF NoRead
  <1> QED
    BY <1>1, <1>2 DEF ReadOK

(* A page is answered: the read goes on at the next offset or is over.      *)
LEMMA ServedOK ==
  ASSUME ListingTypeOK, NEW r \in Reader, ReadOK(r), PageServed(r), UNCHANGED listed
  PROVE  /\ read' \in [Reader -> Read]
         /\ \A q \in Reader \ {r} : read'[q] = read[q]
         /\ read'[r].start = read[r].start
         /\ read'[r].pc # "off"
         /\ ReadOK(r)'
  <1> DEFINE y == Yield(read[r].yielded, Page(read[r].token))
             v == [read[r] EXCEPT !.yielded = y]
             next == read[r].token + PageSize
             whole == [v EXCEPT !.pc = "whole"]
             broken == [v EXCEPT !.pc = "broken"]
             on(token) == [v EXCEPT !.token = token, !.used = @ \cup {token}, !.tries = 0]
  <1>1. read[r] \in Read /\ read[r].pc = "page"
    BY DEF ListingTypeOK, PageServed
  <1>2. /\ y \in [Resource -> Nat]
        /\ \A a \in Resource : y[a] <= 1 /\ (y[a] > 0 => a \in listed)
        /\ \A a \in Resource : read[r].yielded[a] > 0 => y[a] > 0
        /\ \A a \in read[r].start : y[a] > 0 \/ Place(a) >= read[r].token + PageSize
    BY <1>1, PageCovers
  <1> HIDE DEF y
  <1>3. v \in Read /\ v.used = read[r].used /\ v.start = read[r].start /\ v.yielded = y
    BY <1>1, <1>2 DEF Read
  <1>4. next \in Nat /\ read[r].used \subseteq Nat
    BY <1>1, PageAssumption DEF Read
  <1>5. /\ whole \in Read /\ whole.pc = "whole" /\ whole.start = read[r].start
        /\ whole.yielded = y
    BY <1>3 DEF Read
  <1>6. /\ broken \in Read /\ broken.pc = "broken" /\ broken.start = read[r].start
        /\ broken.yielded = y
    BY <1>3 DEF Read
  <1>7. ASSUME NEW token \in Nat
        PROVE  /\ on(token) \in Read /\ on(token).pc = "page"
               /\ on(token).start = read[r].start /\ on(token).yielded = y
               /\ on(token).token = token
    <2> HIDE DEF v
    <2>1. v.used \cup {token} \subseteq Nat /\ 0 \in 0 .. ReadAttempts - 1
      BY <1>3, PageAssumption DEF Read
    <2>2. v.pc = "page"
      BY <1>1 DEF v, Read
    <2> QED
      BY <1>3, <2>1, <2>2 DEF Read
  <1>8. \/ next >= Cardinality(listed) /\ read' = [read EXCEPT ![r] = whole]
        \/ read' = [read EXCEPT ![r] = broken]
        \/ read' = [read EXCEPT ![r] = on(next)]
    <2>1. CASE next >= Cardinality(listed) /\ read' = [read EXCEPT ![r] = whole]
      BY <2>1
    <2>2. CASE \E token \in {next} \cup v.used :
                  read' = [read EXCEPT ![r] = FollowToken(v, token)]
      <3>1. PICK token \in {next} \cup v.used :
                  read' = [read EXCEPT ![r] = FollowToken(v, token)]
        BY <2>2
      <3>2. FollowToken(v, token) = broken \/ (token \notin v.used /\ FollowToken(v, token) = on(token))
        BY DEF FollowToken
      <3> QED
        BY <3>1, <3>2
    <2> QED
      BY <2>1, <2>2 DEF PageServed, y
  <1>9. read[r].start \subseteq listed /\ listed \subseteq Resource
    BY DEF ReadOK, ListingTypeOK
  <1> HIDE DEF v, whole, broken, on
  <1>10. CASE next >= Cardinality(listed) /\ read' = [read EXCEPT ![r] = whole]
    <2>1. read' \in [Reader -> Read] /\ read'[r] = whole
      BY <1>5, <1>10 DEF ListingTypeOK
    <2>2. \A a \in read[r].start : y[a] > 0
      <3> SUFFICES ASSUME NEW a \in read[r].start, ~ y[a] > 0
                   PROVE  FALSE
        OBVIOUS
      <3>1. Place(a) \in Nat /\ Place(a) < Cardinality(listed)
        BY <1>9, PlaceIsNat
      <3>2. Place(a) >= next
        BY <1>2
      <3>3. Cardinality(listed) \in Nat
        BY ListedIsFinite
      <3> QED
        BY <1>4, <1>10, <3>1, <3>2, <3>3
    <2>3. ReadOK(r)'
      BY <1>2, <1>5, <1>9, <2>1, <2>2 DEF ReadOK
    <2> QED
      BY <1>5, <1>10, <2>1, <2>3 DEF ListingTypeOK
  <1>11. CASE read' = [read EXCEPT ![r] = broken]
    <2>1. read' \in [Reader -> Read] /\ read'[r] = broken
      BY <1>6, <1>11 DEF ListingTypeOK
    <2>2. ReadOK(r)'
      BY <1>2, <1>6, <1>9, <2>1 DEF ReadOK
    <2> QED
      BY <1>6, <1>11, <2>1, <2>2 DEF ListingTypeOK
  <1>12. CASE read' = [read EXCEPT ![r] = on(next)]
    <2>1. read' \in [Reader -> Read] /\ read'[r] = on(next)
      BY <1>4, <1>7, <1>12 DEF ListingTypeOK
    <2>2. \A a \in Resource : Place(a)' = Place(a)
      BY DEF Place
    <2>3. ReadOK(r)'
      BY <1>2, <1>4, <1>7, <1>9, <2>1, <2>2 DEF ReadOK
    <2> QED
      BY <1>4, <1>7, <1>12, <2>1, <2>3 DEF ListingTypeOK
  <1> QED
    BY <1>8, <1>10, <1>11, <1>12

LEMMA FailedOK ==
  ASSUME ListingTypeOK, NEW r \in Reader, ReadOK(r), PageFails(r), UNCHANGED listed
  PROVE  /\ read' \in [Reader -> Read]
         /\ \A q \in Reader \ {r} : read'[q] = read[q]
         /\ read'[r].start = read[r].start
         /\ read'[r].pc # "off"
         /\ ReadOK(r)'
  <1> DEFINE again == [read[r] EXCEPT !.tries = @ + 1]
             broken == [read[r] EXCEPT !.pc = "broken"]
  <1>1. read[r] \in Read /\ read[r].pc = "page"
    BY DEF ListingTypeOK, PageFails
  <1>2. broken \in Read /\ broken.pc = "broken" /\ broken.start = read[r].start
        /\ broken.yielded = read[r].yielded
    BY <1>1 DEF Read
  <1>3. /\ read[r].tries + 1 < ReadAttempts => again \in Read
        /\ again.pc = "page" /\ again.start = read[r].start
        /\ again.yielded = read[r].yielded /\ again.token = read[r].token
    BY <1>1, PageAssumption DEF Read
  <1>4. \/ read[r].tries + 1 < ReadAttempts /\ read' = [read EXCEPT ![r] = again]
        \/ read' = [read EXCEPT ![r] = broken]
    BY DEF PageFails, ListingTypeOK
  <1> HIDE DEF again, broken
  <1>5. \A a \in Resource : Place(a)' = Place(a)
    BY DEF Place
  <1>6. listed \subseteq Resource /\ read[r].start \subseteq listed
    BY DEF ListingTypeOK, ReadOK
  <1>7. CASE read[r].tries + 1 < ReadAttempts /\ read' = [read EXCEPT ![r] = again]
    <2>1. read' \in [Reader -> Read] /\ read'[r] = again
      BY <1>3, <1>7 DEF ListingTypeOK
    <2>2. ReadOK(r)'
      BY <1>1, <1>3, <1>5, <1>6, <2>1 DEF ReadOK
    <2> QED
      BY <1>3, <1>7, <2>1, <2>2 DEF ListingTypeOK
  <1>8. CASE read' = [read EXCEPT ![r] = broken]
    <2>1. read' \in [Reader -> Read] /\ read'[r] = broken
      BY <1>2, <1>8 DEF ListingTypeOK
    <2>2. ReadOK(r)'
      BY <1>2, <1>6, <2>1 DEF ReadOK
    <2> QED
      BY <1>2, <1>8, <2>1, <2>2 DEF ListingTypeOK
  <1> QED
    BY <1>4, <1>7, <1>8

-----------------------------------------------------------------------------
(* Types, the shape of calls and reads.                                     *)
Frame == TypeOK /\ \A c \in Caller : Shape(c) /\ ReadOK(c)

Author == (Caller \X (1 .. MaxCalls)) \cup {Foreign}

(* The log only grows, what is written never changes.                       *)
Evolves ==
    /\ listed \subseteq listed'
    /\ listed' \subseteq Resource
    /\ activity' \in [Resource -> Activity]
    /\ \A a \in Written : activity'[a] = activity[a]

LEMMA WriteOK ==
  ASSUME TypeOK, NEW kind \in {"message", "approval"}, NEW by \in Author, Write(kind, by)
  PROVE  /\ Evolves
         /\ \E a \in Resource \ Written :
              /\ activity'[a] = [kind |-> kind, by |-> by]
              /\ \A b \in Resource \ {a} : activity'[b] = activity[b]
  <1>1. PICK a \in Resource \ Written :
            /\ activity' = [activity EXCEPT ![a] = [kind |-> kind, by |-> by]]
            /\ \/ listed' = listed \cup {a}
               \/ Lag /\ UNCHANGED listed
    BY DEF Write
  <1>2. [kind |-> kind, by |-> by] \in Activity
    BY DEF Activity, Author
  <1> QED
    BY <1>1, <1>2 DEF TypeOK, ListingTypeOK, Evolves

LEMMA EffectOK ==
  ASSUME TypeOK, NEW by \in Author, NEW command \in Command, NEW ids \in SUBSET Session,
         Effect(by, command, ids)
  PROVE  /\ Evolves
         /\ plan' = plan
         /\ state' \in State
         /\ archived' \in [Session -> BOOLEAN]
         /\ held' \in [Caller -> SUBSET Session]
  <1>1. CASE command = "message" /\ MessageEffect(by)
    BY <1>1, WriteOK DEF MessageEffect, sessionVars, TypeOK
  <1>2. CASE command = "approve" /\ ApproveEffect
    <2>1. Write("approval", Foreign)
      BY <1>2 DEF ApproveEffect
    <2> QED
      BY <1>2, <2>1, WriteOK DEF ApproveEffect, TypeOK, Author, State
  <1>3. CASE command \in Bulk /\ \E s \in ids : ArchiveEffect(s, Desired(command))
    <2>1. PICK s \in ids : ArchiveEffect(s, Desired(command))
      BY <1>3
    <2>2. Desired(command) \in BOOLEAN
      BY DEF Desired
    <2>3. \A c \in Caller : held[c] \in SUBSET Session
      BY DEF TypeOK
    <2>4. held' \in [Caller -> SUBSET Session]
      BY <2>1, <2>3 DEF ArchiveEffect
    <2>5. archived' \in [Session -> BOOLEAN]
      BY <2>1, <2>2 DEF ArchiveEffect, TypeOK
    <2> QED
      BY <2>1, <2>4, <2>5 DEF ArchiveEffect, TypeOK, ListingTypeOK, Evolves
  <1> QED
    BY <1>1, <1>2, <1>3 DEF Effect

LEMMA NothingEvolves ==
  ASSUME TypeOK, UNCHANGED <<listed, activity>>
  PROVE  Evolves
  BY DEF TypeOK, ListingTypeOK, Evolves

LEMMA PostedOK ==
  ASSUME Frame, NEW c \in Caller, At(c, "post")
  PROVE  /\ Posted(c) \in Post
         /\ Posted(c).by = <<c, calls[c]>> /\ Posted(c).by \in Author
         /\ Posted(c).command = call[c].command /\ call[c].command \in Command
         /\ Posted(c).ids \subseteq Session
         /\ Posted(c).ids = IF call[c].command \in Bulk THEN {Item(c)} ELSE {}
         /\ call[c].command \in Bulk => Item(c) \in call[c].todo
  <1>1. calls[c] \in 1 .. MaxCalls /\ call[c].command \in Command
    BY DEF Frame, Shape, At
  <1>2. call[c].command \in Bulk => Item(c) \in call[c].todo
    BY DEF Frame, Shape, At, Item
  <1>3. call[c].todo \subseteq Session
    BY DEF Frame, TypeOK, Call
  <1> QED
    BY <1>1, <1>2, <1>3 DEF Posted, Post, Author

(* The part of a step that its caller sees: its own call and its own read.  *)
Turns(c) ==
    /\ Moves(c)
    /\ Shape(c)'
    /\ calls' = calls
    /\ read' \in [Reader -> Read]
    /\ \A r \in Reader \ {c} : read'[r] = read[r]

LEMMA BulkItem ==
  ASSUME Frame, NEW c \in Caller, call[c].command \in Bulk, call[c].pc \notin {"idle", "done"}
  PROVE  Item(c) \in call[c].todo /\ Item(c) \in call[c].ids /\ Item(c) \in Session
  BY DEF Frame, Shape, Item, TypeOK, Call

(* The shape of a call that moved.                                          *)
LEMMA ShapeMoves ==
  ASSUME Frame, NEW c \in Caller, Moves(c), UNCHANGED calls,
         call[c].pc # "idle", call'[c].pc # "idle",
         call[c].command \in Bulk =>
           /\ call'[c].pc \in {"look", "post", "again", "done"}
           /\ call'[c].pc # "done" => call'[c].todo # {},
         call[c].command = "message" => call'[c].pc \notin {"look", "again"}
  PROVE  Shape(c)'
  BY DEF Frame, Shape, Moves

LEMMA EndShape ==
  ASSUME Frame, NEW c \in Caller, Moves(c), UNCHANGED calls,
         call[c].pc # "idle", call'[c].pc = "done"
  PROVE  Shape(c)'
  BY ShapeMoves

LEMMA NextItemShape ==
  ASSUME Frame, NEW c \in Caller, NEW bad \in BOOLEAN, NextItem(c, bad), UNCHANGED calls,
         call[c].command \in Bulk, call[c].pc # "idle"
  PROVE  Shape(c)'
  <1>1. call[c].command # "message"
    BY DEF Bulk
  <1>2. TypeOK
    BY DEF Frame
  <1> QED
    BY <1>1, <1>2, NextItemMoves, ShapeMoves

LEMMA GotoShape ==
  ASSUME Frame, NEW c \in Caller, NEW label \in {"before", "post", "again", "after"},
         Goto(c, label), UNCHANGED calls, call[c].pc \notin {"idle", "done"},
         call[c].command \in Bulk => label \in {"post", "again"},
         call[c].command = "message" => label # "again"
  PROVE  Shape(c)'
  <1>1. Moves(c) /\ KeepsLocals(c) /\ call'[c].pc = label
    BY GotoMoves DEF Frame
  <1>2. call[c].command \in Bulk => call'[c].todo # {}
    BY <1>1 DEF KeepsLocals, Frame, Shape
  <1> QED
    BY <1>1, <1>2, ShapeMoves

LEMMA FailsShape ==
  ASSUME Frame, NEW c \in Caller, NEW outcome \in {"indeterminate", "error"},
         Fails(c, outcome), UNCHANGED calls, call[c].pc # "idle"
  PROVE  Moves(c) /\ Shape(c)'
  <1>1. TypeOK
    BY DEF Frame
  <1> QED
    BY <1>1, FailsMoves, NextItemShape, EndShape

LEMMA SucceedsShape ==
  ASSUME Frame, NEW c \in Caller, NEW outcome \in Success,
         Succeeds(c, outcome), UNCHANGED calls, call[c].pc # "idle"
  PROVE  Moves(c) /\ Shape(c)'
  <1>1. TypeOK
    BY DEF Frame
  <1> QED
    BY <1>1, SucceedsMoves, NextItemShape, EndShape

LEMMA GetFailsShape ==
  ASSUME Frame, NEW c \in Caller, GetFails(c), UNCHANGED calls, call[c].pc # "idle"
  PROVE  Moves(c) /\ Shape(c)'
  <1>1. TypeOK
    BY DEF Frame
  <1> QED
    BY <1>1, GetFailsMoves, NextItemShape, EndShape

LEMMA CallersRead == \A c \in Caller : c \in Reader
  BY CallerAssumption

LEMMA BeginTurns ==
  ASSUME Frame, NEW c \in Caller, BeginRead(c)
  PROVE  /\ read' \in [Reader -> Read]
         /\ \A r \in Reader \ {c} : read'[r] = read[r]
  BY CallersRead, BeginReadOK DEF Frame, TypeOK

LEMMA ForgetTurns ==
  ASSUME Frame, NEW c \in Caller, Forget(c)
  PROVE  /\ read' \in [Reader -> Read]
         /\ \A r \in Reader \ {c} : read'[r] = read[r]
  BY CallersRead, ForgetOK DEF Frame, TypeOK

LEMMA ReadUnmoved ==
  ASSUME Frame, UNCHANGED read
  PROVE  read' \in [Reader -> Read]
  BY DEF Frame, TypeOK, ListingTypeOK

LEMMA LookTurns ==
  ASSUME Frame, NEW c \in Caller, Look(c)
  PROVE  Turns(c)
  <1>1. call[c].pc = "look" /\ UNCHANGED calls /\ call[c].command # "message"
    BY DEF Look, At, Frame, Shape
  <1>2. CASE /\ call[c].command = "approve"
             /\ \/ Goto(c, "before") /\ BeginRead(c)
                \/ End(c, "existing") /\ UNCHANGED read
    <2>1. call[c].command \notin Bulk
      BY <1>2 DEF Bulk
    <2>2. CASE Goto(c, "before") /\ BeginRead(c)
      BY <1>1, <2>1, <2>2, GotoShape, GotoMoves, BeginTurns DEF Turns, Frame
    <2>3. CASE End(c, "existing") /\ UNCHANGED read
      BY <1>1, <2>3, EndMoves, EndShape, ReadUnmoved DEF Turns, Frame
    <2> QED
      BY <1>2, <2>2, <2>3
  <1>3. CASE /\ call[c].command \in Bulk
             /\ Succeeds(c, "existing") \/ Goto(c, "post")
             /\ UNCHANGED read
    <2>1. CASE Succeeds(c, "existing")
      BY <1>1, <1>3, <2>1, SucceedsShape, ReadUnmoved DEF Turns, Success
    <2>2. CASE Goto(c, "post")
      BY <1>1, <1>3, <2>2, GotoShape, GotoMoves, ReadUnmoved DEF Turns, Frame
    <2> QED
      BY <1>3, <2>1, <2>2
  <1>4. CASE GetFails(c) /\ UNCHANGED read
    BY <1>1, <1>4, GetFailsShape, ReadUnmoved DEF Turns
  <1> QED
    BY <1>2, <1>3, <1>4 DEF Look

LEMMA ReadPageTurns ==
  ASSUME Frame, NEW c \in Caller, ReadPage(c)
  PROVE  Turns(c) /\ ReadOK(c)' /\ read'[c].start = read[c].start
  <1>1. /\ UNCHANGED <<call, calls, listed>>
        /\ PageServed(c) \/ PageFails(c)
    BY DEF ReadPage, ReadStep
  <1>2. Moves(c) /\ Shape(c)'
    BY <1>1 DEF Frame, TypeOK, Moves, Shape
  <1>3. /\ read' \in [Reader -> Read]
        /\ \A r \in Reader \ {c} : read'[r] = read[r]
        /\ ReadOK(c)'
        /\ read'[c].start = read[c].start
    BY <1>1, CallersRead, ServedOK, FailedOK DEF Frame, TypeOK
  <1> QED
    BY <1>1, <1>2, <1>3 DEF Turns

LEMMA ReadBreaksTurns ==
  ASSUME Frame, NEW c \in Caller, ReadBreaks(c)
  PROVE  Turns(c)
  BY FailsShape, ForgetTurns DEF ReadBreaks, Turns

LEMMA TakeEvidenceMoves ==
  ASSUME TypeOK, NEW c \in Caller, TakeEvidence(c)
  PROVE  /\ Moves(c)
         /\ call'[c].pc = "post"
         /\ call'[c].before = Yielded(c)
         /\ call'[c].todo = call[c].todo
  <1> DEFINE v == [call[c] EXCEPT !.pc = "post", !.before = Yielded(c)]
  <1>1. call[c] \in Call
    BY DEF TypeOK
  <1>2. Yielded(c) \subseteq Resource
    BY DEF Yielded
  <1>3. v \in Call
    BY <1>1, <1>2 DEF Call
  <1>4. call' = [call EXCEPT ![c] = v]
    BY <1>1 DEF TakeEvidence, TypeOK, Call
  <1>5. /\ v.command = call[c].command
        /\ v.ids = call[c].ids
        /\ v.known = call[c].known
        /\ v.hidden = call[c].hidden
        /\ v.asks = call[c].asks
        /\ v.todo = call[c].todo
        /\ v.before = Yielded(c)
        /\ v.pc = "post"
    BY <1>1 DEF Call
  <1> HIDE DEF v
  <1>6. /\ call' \in [Caller -> Call]
        /\ call'[c] = v
        /\ \A d \in Caller \ {c} : call'[d] = call[d]
    BY <1>3, <1>4 DEF TypeOK
  <1> QED
    BY <1>5, <1>6 DEF Moves

LEMMA ReadersAskTheLog ==
  ASSUME Frame, NEW c \in Caller, call[c].pc \in {"before", "after"}
  PROVE  call[c].command \in {"message", "approve"} /\ call[c].command \notin Bulk
  BY DEF Frame, Shape, Command, Bulk

LEMMA TakeEvidenceTurns ==
  ASSUME Frame, NEW c \in Caller, TakeEvidence(c)
  PROVE  Turns(c)
  <1>1. call[c].pc = "before" /\ UNCHANGED calls /\ Forget(c)
    BY DEF TakeEvidence, At
  <1>2. call[c].command \notin Bulk
    BY <1>1, ReadersAskTheLog
  <1>3. Moves(c) /\ call'[c].pc = "post"
    BY TakeEvidenceMoves DEF Frame
  <1>4. Shape(c)'
    BY <1>1, <1>2, <1>3, ShapeMoves
  <1> QED
    BY <1>1, <1>3, <1>4, ForgetTurns DEF Turns

LEMMA PostAnsweredTurns ==
  ASSUME Frame, NEW c \in Caller, PostAnswered(c)
  PROVE  Turns(c)
  <1>1. call[c].pc = "post" /\ UNCHANGED <<calls, read>>
    BY DEF PostAnswered, At
  <1>2. CASE Succeeds(c, "completed")
    BY <1>1, <1>2, SucceedsShape, ReadUnmoved DEF Turns, Success
  <1>3. CASE End(c, "error")
    BY <1>1, <1>3, EndMoves, EndShape, ReadUnmoved DEF Turns, Frame
  <1> QED
    BY <1>2, <1>3 DEF PostAnswered

LEMMA LookAfterTurns ==
  ASSUME Frame, NEW c \in Caller, At(c, "post"), UNCHANGED calls, LookAfter(c)
  PROVE  Turns(c)
  <1>1. call[c].pc = "post" /\ call[c].command \in Command
    BY DEF At, Frame, Shape
  <1>2. CASE call[c].command = "message" /\ Goto(c, "after") /\ BeginRead(c)
    BY <1>1, <1>2, GotoShape, GotoMoves, BeginTurns DEF Turns, Frame, Bulk
  <1>3. CASE call[c].command # "message" /\ Goto(c, "again") /\ UNCHANGED read
    BY <1>1, <1>3, GotoShape, GotoMoves, ReadUnmoved DEF Turns, Frame
  <1> QED
    BY <1>2, <1>3 DEF LookAfter

LEMMA PostRefusedTurns ==
  ASSUME Frame, NEW c \in Caller, PostRefused(c)
  PROVE  Turns(c)
  BY FailsShape, ReadUnmoved DEF PostRefused, At, Turns

LEMMA LookAgainMoves ==
  ASSUME TypeOK, NEW c \in Caller, NEW moved \in BOOLEAN,
         call' = [call EXCEPT ![c].pc = "after", ![c].moved = moved]
  PROVE  /\ Moves(c)
         /\ call'[c].pc = "after"
         /\ call'[c].before = call[c].before
         /\ call'[c].moved = moved
  <1> DEFINE v == [call[c] EXCEPT !.pc = "after", !.moved = moved]
  <1>1. call[c] \in Call
    BY DEF TypeOK
  <1>2. v \in Call
    BY <1>1 DEF Call
  <1>3. call' = [call EXCEPT ![c] = v]
    BY <1>1 DEF TypeOK, Call
  <1>4. /\ v.command = call[c].command
        /\ v.ids = call[c].ids
        /\ v.known = call[c].known
        /\ v.hidden = call[c].hidden
        /\ v.asks = call[c].asks
        /\ v.todo = call[c].todo
        /\ v.before = call[c].before
        /\ v.moved = moved
        /\ v.pc = "after"
    BY <1>1 DEF Call
  <1> HIDE DEF v
  <1>5. /\ call' \in [Caller -> Call]
        /\ call'[c] = v
        /\ \A d \in Caller \ {c} : call'[d] = call[d]
    BY <1>2, <1>3 DEF TypeOK
  <1> QED
    BY <1>4, <1>5 DEF Moves

LEMMA LookAgainTurns ==
  ASSUME Frame, NEW c \in Caller, LookAgain(c)
  PROVE  Turns(c)
  <1>1. call[c].pc = "again" /\ UNCHANGED calls
    BY DEF LookAgain, At
  <1>2. CASE /\ call[c].command = "approve"
             /\ \E seen \in StateSeen :
                  call' = [call EXCEPT ![c].pc = "after", ![c].moved = seen \notin Undecided]
             /\ BeginRead(c)
    <2>1. PICK seen \in StateSeen :
                  call' = [call EXCEPT ![c].pc = "after", ![c].moved = seen \notin Undecided]
      BY <1>2
    <2>2. Moves(c) /\ call'[c].pc = "after"
      BY <2>1, LookAgainMoves DEF Frame
    <2>3. Shape(c)'
      BY <1>1, <1>2, <2>2, ShapeMoves DEF Bulk
    <2> QED
      BY <1>1, <1>2, <2>2, <2>3, BeginTurns DEF Turns
  <1>3. CASE /\ call[c].command \in Bulk
             /\ Succeeds(c, "reconciled") \/ Fails(c, "indeterminate")
             /\ UNCHANGED read
    BY <1>1, <1>3, SucceedsShape, FailsShape, ReadUnmoved DEF Turns, Success
  <1>4. CASE GetFails(c) /\ UNCHANGED read
    BY <1>1, <1>4, GetFailsShape, ReadUnmoved DEF Turns
  <1> QED
    BY <1>2, <1>3, <1>4 DEF LookAgain

LEMMA JudgeEnds ==
  ASSUME Frame, NEW c \in Caller, Judge(c)
  PROVE  \E outcome \in {"reconciled", "indeterminate"} : End(c, outcome)
  BY DEF Judge, JudgeMessage, JudgeApproval

LEMMA JudgeTurns ==
  ASSUME Frame, NEW c \in Caller, Judge(c)
  PROVE  Turns(c) /\ call'[c].pc = "done"
  <1>1. call[c].pc = "after" /\ UNCHANGED calls /\ Forget(c)
    BY DEF Judge, At
  <1>2. Moves(c) /\ call'[c].pc = "done"
    BY JudgeEnds, EndMoves DEF Frame
  <1> QED
    BY <1>1, <1>2, EndShape, ForgetTurns DEF Turns

(* What a step of a call does to everything but the call and its read.      *)
World ==
    /\ Evolves
    /\ plan' = plan
    /\ state' \in State
    /\ archived' \in [Session -> BOOLEAN]
    /\ late' \subseteq Post
    /\ held' \in [Caller -> SUBSET Session]

LEMMA WorldStays ==
  ASSUME Frame, UNCHANGED <<listed, activity, sessionVars, late>>
  PROVE  World
  BY NothingEvolves DEF World, Frame, TypeOK, sessionVars

LEMMA StepTurns ==
  ASSUME Frame, NEW c \in Caller, Step(c)
  PROVE  Turns(c) /\ World
  <1>1. CASE Look(c)
    BY <1>1, LookTurns, WorldStays DEF Look
  <1>2. CASE ReadPage(c)
    BY <1>2, ReadPageTurns, WorldStays DEF ReadPage
  <1>3. CASE ReadBreaks(c)
    BY <1>3, ReadBreaksTurns, WorldStays DEF ReadBreaks
  <1>4. CASE TakeEvidence(c)
    BY <1>4, TakeEvidenceTurns, WorldStays DEF TakeEvidence
  <1>5. CASE PostAnswered(c)
    <2>1. At(c, "post") /\ UNCHANGED late /\ late \subseteq Post
      BY <1>5 DEF PostAnswered, Frame, TypeOK
    <2> QED
      BY <1>5, <2>1, PostAnsweredTurns, PostedOK, EffectOK DEF PostAnswered, World, Frame
  <1>6. CASE PostUncertain(c)
    <2>1. At(c, "post") /\ UNCHANGED calls /\ LookAfter(c) /\ late \subseteq Post
      BY <1>6 DEF PostUncertain, Frame, TypeOK
    <2>2. CASE Effect(Posted(c).by, Posted(c).command, Posted(c).ids) /\ UNCHANGED late
      BY <2>1, <2>2, LookAfterTurns, PostedOK, EffectOK DEF World, Frame
    <2>3. CASE NoEffect /\ late' \in {late, late \cup {Posted(c)}}
      <3>1. late' \subseteq Post
        BY <2>1, <2>3, PostedOK
      <3> QED
        BY <2>1, <2>3, <3>1, LookAfterTurns, NothingEvolves
           DEF World, NoEffect, Frame, TypeOK, sessionVars
    <2> QED
      BY <1>6, <2>2, <2>3 DEF PostUncertain
  <1>7. CASE PostRefused(c)
    BY <1>7, PostRefusedTurns, WorldStays DEF PostRefused
  <1>8. CASE LookAgain(c)
    BY <1>8, LookAgainTurns, WorldStays DEF LookAgain
  <1>9. CASE Judge(c)
    BY <1>9, JudgeTurns, WorldStays DEF Judge
  <1> QED
    BY <1>1, <1>2, <1>3, <1>4, <1>5, <1>6, <1>7, <1>8, <1>9 DEF Step

(* The read of the caller after its step: the same, a new one, forgotten or *)
(* a page further.                                                          *)
LEMMA StepReads ==
  ASSUME Frame, NEW c \in Caller, Step(c)
  PROVE  \/ UNCHANGED read
         \/ BeginRead(c)
         \/ Forget(c)
         \/ ReadPage(c) /\ UNCHANGED listed
  BY DEF Step, Look, ReadPage, ReadBreaks, TakeEvidence, PostAnswered, PostUncertain,
         PostRefused, LookAgain, Judge, LookAfter

(* A call begins: it knows what is listed and which plan waits.             *)
Begun(c) ==
    /\ call' \in [Caller -> Call]
    /\ \A d \in Caller \ {c} : call'[d] = call[d]
    /\ call'[c].known = listed
    /\ call'[c].hidden = Written \ listed
    /\ call'[c].asks = IF state = "awaiting" THEN plan ELSE 0
    /\ call'[c].todo = call'[c].ids
    /\ call'[c].before = {}
    /\ call'[c].moved = FALSE
    /\ call'[c].failed = FALSE
    /\ \/ /\ call'[c].pc = "before" /\ call'[c].command = "message"
          /\ BeginRead(c) /\ UNCHANGED held
       \/ /\ call'[c].pc = "look" /\ call'[c].command = "approve"
          /\ UNCHANGED <<read, held>>
       \/ /\ call'[c].pc = "look" /\ call'[c].command \in Bulk
          /\ call'[c].ids # {}
          /\ held' = [held EXCEPT ![c] = {s \in call'[c].ids :
                                            archived[s] = Desired(call'[c].command)}]
          /\ UNCHANGED read

BegunCall(label, command, ids) ==
    [pc |-> label, command |-> command, before |-> {}, moved |-> FALSE,
     ids |-> ids, todo |-> ids, failed |-> FALSE, outcome |-> "none",
     known |-> listed, hidden |-> Written \ listed,
     asks |-> IF state = "awaiting" THEN plan ELSE 0]

LEMMA BeginTyped ==
  ASSUME TypeOK, NEW command \in Command, NEW ids \in SUBSET Session,
         NEW label \in {"look", "before"}
  PROVE  BegunCall(label, command, ids) \in Call
  <1>1. plan \in 0 .. MaxPlans /\ 0 \in 0 .. MaxPlans /\ listed \in SUBSET Resource
    BY CallAssumption DEF TypeOK, ListingTypeOK
  <1>2. Written \ listed \in SUBSET Resource
    BY DEF Written
  <1>3. (IF state = "awaiting" THEN plan ELSE 0) \in 0 .. MaxPlans
    BY <1>1
  <1> QED
    BY <1>1, <1>2, <1>3 DEF BegunCall, Call

LEMMA StartBegins ==
  ASSUME TypeOK, NEW c \in Caller, Start(c)
  PROVE  Begun(c)
  <1>1. CASE StartMessage(c)
    <2>1. PICK v : v = [Begin(c, "message") EXCEPT !.pc = "before"]
      OBVIOUS
    <2>2. v = BegunCall("before", "message", {})
      BY <2>1 DEF Begin, NoCall, BegunCall
    <2>3. v \in Call
      BY <2>2, BeginTyped DEF Command
    <2>4. /\ v.pc = "before" /\ v.command = "message"
          /\ v.known = listed /\ v.hidden = Written \ listed
          /\ v.asks = IF state = "awaiting" THEN plan ELSE 0
          /\ v.ids = {} /\ v.todo = {} /\ v.before = {}
          /\ v.moved = FALSE /\ v.failed = FALSE
      BY <2>2 DEF BegunCall
    <2>5. call' = [call EXCEPT ![c] = v]
      BY <1>1, <2>1 DEF StartMessage
    <2> QED
      BY <1>1, <2>3, <2>4, <2>5 DEF StartMessage, TypeOK, Begun
  <1>2. CASE StartApprove(c)
    <2>1. PICK v : v = [Begin(c, "approve") EXCEPT !.pc = "look"]
      OBVIOUS
    <2>2. v = BegunCall("look", "approve", {})
      BY <2>1 DEF Begin, NoCall, BegunCall
    <2>3. v \in Call
      BY <2>2, BeginTyped DEF Command
    <2>4. /\ v.pc = "look" /\ v.command = "approve"
          /\ v.known = listed /\ v.hidden = Written \ listed
          /\ v.asks = IF state = "awaiting" THEN plan ELSE 0
          /\ v.ids = {} /\ v.todo = {} /\ v.before = {}
          /\ v.moved = FALSE /\ v.failed = FALSE
      BY <2>2 DEF BegunCall
    <2>5. call' = [call EXCEPT ![c] = v]
      BY <1>2, <2>1 DEF StartApprove
    <2> QED
      BY <1>2, <2>3, <2>4, <2>5 DEF StartApprove, TypeOK, Begun
  <1>3. CASE StartBulk(c)
    <2>1. PICK command \in Bulk, ids \in (SUBSET Session) \ {{}} :
         /\ call' = [call EXCEPT ![c] = [Begin(c, command) EXCEPT
                                            !.pc = "look", !.ids = ids, !.todo = ids]]
         /\ held' = [held EXCEPT ![c] = {s \in ids : archived[s] = Desired(command)}]
         /\ UNCHANGED read
      BY <1>3 DEF StartBulk
    <2>2. PICK v : v = [Begin(c, command) EXCEPT !.pc = "look", !.ids = ids, !.todo = ids]
      OBVIOUS
    <2>3. v = BegunCall("look", command, ids)
      BY <2>2 DEF Begin, NoCall, BegunCall
    <2>4. v \in Call
      BY <2>3, BeginTyped DEF Command
    <2>5. /\ v.pc = "look" /\ v.command = command
          /\ v.known = listed /\ v.hidden = Written \ listed
          /\ v.asks = IF state = "awaiting" THEN plan ELSE 0
          /\ v.ids = ids /\ v.todo = ids /\ v.before = {}
          /\ v.moved = FALSE /\ v.failed = FALSE
      BY <2>3 DEF BegunCall
    <2>6. call' = [call EXCEPT ![c] = v]
      BY <2>1, <2>2
    <2>7. /\ call' \in [Caller -> Call]
          /\ call'[c] = v
          /\ \A d \in Caller \ {c} : call'[d] = call[d]
      BY <2>4, <2>6 DEF TypeOK
    <2>8. ids # {}
      OBVIOUS
    <2> QED
      BY <2>1, <2>5, <2>7, <2>8 DEF Begun
  <1> QED
    BY <1>1, <1>2, <1>3 DEF Start

LEMMA StartFrame ==
  ASSUME Frame, NEW c \in Caller, Start(c)
  PROVE  TypeOK' /\ Shape(c)' /\ \A d \in Caller \ {c} : calls'[d] = calls[d]
  <1>1. Begun(c)
    BY StartBegins DEF Frame
  <1>2. /\ calls' = [calls EXCEPT ![c] = @ + 1]
        /\ calls[c] \in 0 .. MaxCalls /\ calls[c] < MaxCalls
        /\ UNCHANGED <<listed, activity, state, plan, archived, late>>
    BY DEF Start, Frame, TypeOK
  <1>3. calls' \in [Caller -> 0 .. MaxCalls] /\ calls'[c] \in 1 .. MaxCalls
        /\ \A d \in Caller \ {c} : calls'[d] = calls[d]
    BY <1>2, CallAssumption DEF Frame, TypeOK
  <1>4. read' \in [Reader -> Read]
    BY <1>1, BeginTurns, ReadUnmoved DEF Begun
  <1>5. held' \in [Caller -> SUBSET Session]
    <2>1. held \in [Caller -> SUBSET Session]
      BY DEF Frame, TypeOK
    <2>2. call'[c].ids \subseteq Session
      BY <1>1 DEF Begun, Call
    <2> QED
      BY <1>1, <2>1, <2>2 DEF Begun
  <1>6. TypeOK'
    BY <1>1, <1>2, <1>3, <1>4, <1>5 DEF Frame, TypeOK, ListingTypeOK, Begun
  <1>7. Shape(c)'
    BY <1>1, <1>3 DEF Begun, Shape, Command, Bulk
  <1> QED
    BY <1>3, <1>6, <1>7

(* Jules and its other clients leave the calls alone.                       *)
Elsewhere ==
    \/ \E post \in late : LateEffect(post)
    \/ \E a \in Resource : Show(a)
    \/ ForeignEffect
    \/ SessionMoves

LEMMA ElsewhereWorld ==
  ASSUME Frame, Elsewhere
  PROVE  /\ Evolves
         /\ UNCHANGED <<read, call, calls>>
         /\ TypeOK'
  <1>1. TypeOK
    BY DEF Frame
  <1>2. CASE \E post \in late : LateEffect(post)
    <2>1. PICK post \in late : LateEffect(post)
      BY <1>2
    <2>2. /\ post.by \in Author /\ post.command \in Command /\ post.ids \in SUBSET Session
          /\ late' \subseteq Post
      BY <1>1, <2>1 DEF TypeOK, Post, Author, LateEffect
    <2> QED
      BY <1>1, <2>1, <2>2, EffectOK DEF LateEffect, TypeOK, ListingTypeOK, Evolves
  <1>3. CASE \E a \in Resource : Show(a)
    BY <1>1, <1>3 DEF Show, TypeOK, ListingTypeOK, Evolves, sessionVars
  <1>4. CASE ForeignEffect
    <2>1. PICK command \in Command : Effect(Foreign, command, Session)
      BY <1>4 DEF ForeignEffect
    <2>2. Foreign \in Author
      BY DEF Author
    <2> QED
      BY <1>1, <1>4, <2>1, <2>2, EffectOK DEF ForeignEffect, TypeOK, ListingTypeOK, Evolves
  <1>5. CASE SessionMoves
    <2>1. state' \in State /\ plan' \in 0 .. MaxPlans
      BY <1>1, <1>5, CallAssumption DEF SessionMoves, TypeOK, State
    <2> QED
      BY <1>1, <1>5, <2>1, NothingEvolves DEF SessionMoves, TypeOK, ListingTypeOK
  <1> QED
    BY <1>2, <1>3, <1>4, <1>5 DEF Elsewhere

LEMMA NextSplits ==
  Next <=> (\E c \in Caller : Start(c) \/ Step(c)) \/ Elsewhere
  BY DEF Next, Elsewhere

LEMMA StepFrame ==
  ASSUME Frame, NEW c \in Caller, Step(c)
  PROVE  TypeOK'
  BY StepTurns DEF Frame, TypeOK, ListingTypeOK, Turns, World, Moves, Evolves

LEMMA FrameInit == Init => Frame
  <1> SUFFICES ASSUME Init PROVE Frame
    OBVIOUS
  <1>1. Unwritten \in Activity
    BY DEF Unwritten, Activity
  <1>2. NoCall \in Call
    BY CallAssumption DEF NoCall, Call
  <1>3. TypeOK
    BY <1>1, <1>2, NoReadTyped, CallAssumption DEF Init, ListingInit, TypeOK, ListingTypeOK, State
  <1>4. \A c \in Caller : Shape(c)
    BY DEF Init, Shape, NoCall, Bulk
  <1>5. \A r \in Reader : ReadOK(r)
    BY DEF Init, ListingInit, ReadOK, NoRead
  <1> QED
    BY <1>3, <1>4, <1>5, CallersRead DEF Frame

LEMMA StepReadOK ==
  ASSUME Frame, NEW c \in Caller, Step(c), TypeOK', NEW r \in Reader
  PROVE  ReadOK(r)'
  <1>1. ListingTypeOK /\ ListingTypeOK' /\ c \in Reader /\ r \in Caller
    BY CallerAssumption DEF Frame, TypeOK
  <1>2. listed \subseteq listed' /\ ReadOK(r)
    BY <1>1, StepTurns DEF World, Evolves, Frame
  <1>3. r # c => read'[r] = read[r]
    BY StepTurns DEF Turns
  <1>4. CASE r # c \/ UNCHANGED read
    BY <1>1, <1>2, <1>3, <1>4, ReadStays
  <1>5. CASE r = c /\ BeginRead(c)
    BY <1>1, <1>2, <1>5, ReadStarts
  <1>6. CASE r = c /\ Forget(c)
    BY <1>1, <1>6, ReadIsForgotten
  <1>7. CASE r = c /\ ReadPage(c)
    BY <1>7, ReadPageTurns
  <1> QED
    BY <1>4, <1>5, <1>6, <1>7, StepReads

LEMMA FrameNext == Frame /\ [Next]_vars => Frame'
  <1> SUFFICES ASSUME Frame, [Next]_vars PROVE Frame'
    OBVIOUS
  <1>1. ASSUME NEW c \in Caller, Step(c) PROVE Frame'
    <2>1. TypeOK'
      BY <1>1, StepFrame
    <2>2. \A d \in Caller : ReadOK(d)'
      BY <1>1, <2>1, StepReadOK, CallersRead
    <2>3. \A d \in Caller : Shape(d)'
      <3>1. Shape(c)' /\ UNCHANGED calls /\ \A d \in Caller \ {c} : call'[d] = call[d]
        BY <1>1, StepTurns DEF Turns, Moves
      <3>2. \A d \in Caller \ {c} : Shape(d)'
        BY <3>1 DEF Frame, Shape
      <3> QED
        BY <3>1, <3>2
    <2> QED
      BY <2>1, <2>2, <2>3 DEF Frame
  <1>2. ASSUME NEW c \in Caller, Start(c) PROVE Frame'
    <2>1. TypeOK' /\ Shape(c)' /\ \A d \in Caller \ {c} : calls'[d] = calls[d]
      BY <1>2, StartFrame
    <2>2. Begun(c) /\ UNCHANGED listed
      BY <1>2, StartBegins DEF Frame, Start
    <2>3. \A d \in Caller \ {c} : Shape(d)'
      BY <2>1, <2>2 DEF Frame, Shape, Begun
    <2>4. ListingTypeOK /\ ListingTypeOK'
      BY <2>1 DEF Frame, TypeOK
    <2>5. UNCHANGED read => \A d \in Caller : ReadOK(d)'
      BY <2>2, <2>4, ReadStays, CallersRead DEF Frame
    <2>6. BeginRead(c) => \A d \in Caller : ReadOK(d)'
      BY <2>2, <2>4, ReadStays, ReadStarts, BeginTurns, CallersRead DEF Frame
    <2> QED
      BY <2>1, <2>2, <2>3, <2>5, <2>6 DEF Frame, Begun
  <1>3. ASSUME Elsewhere PROVE Frame'
    <2>1. Evolves /\ UNCHANGED <<read, call, calls>> /\ TypeOK'
      BY <1>3, ElsewhereWorld
    <2>2. ListingTypeOK /\ ListingTypeOK' /\ listed \subseteq listed'
      BY <2>1 DEF Frame, TypeOK, Evolves
    <2>3. \A d \in Caller : ReadOK(d)'
      BY <2>1, <2>2, ReadStays, CallersRead DEF Frame
    <2> QED
      BY <2>1, <2>3 DEF Frame, Shape
  <1>4. ASSUME UNCHANGED vars PROVE Frame'
    <2>1. \A r \in Reader : ReadOK(r)'
      BY <1>4, CallerAssumption DEF Frame, ReadOK, vars, Place
    <2> QED
      BY <1>4, <2>1, CallersRead
         DEF Frame, TypeOK, ListingTypeOK, Shape, vars, sessionVars
  <1> QED
    BY <1>1, <1>2, <1>3, <1>4, NextSplits

(* The types and the shape of every call hold in every reachable state.     *)
THEOREM FrameHolds == Spec => []Frame
  BY FrameInit, FrameNext, PTL DEF Spec

(* Every variable holds a value of its kind.                                *)
THEOREM TypeCorrect == Spec => []TypeOK
  <1>1. Frame => TypeOK
    BY DEF Frame
  <1> QED
    BY <1>1, FrameHolds, PTL

(* A read that ends without an error has yielded everything that was listed *)
(* when it began and nothing that is not listed, for any page size and any  *)
(* sequence of tokens and failures.                                         *)
THEOREM ReadsAreComplete == Spec => []CompleteRead
  <1>1. Frame => CompleteRead
    BY CallerAssumption DEF Frame, ReadOK, CompleteRead
  <1> QED
    BY <1>1, FrameHolds, PTL

(* A read yields no resource twice.                                         *)
THEOREM YieldsOnce == Spec => []YieldedOnce
  <1>1. Frame => YieldedOnce
    BY CallerAssumption DEF Frame, ReadOK, YieldedOnce
  <1> QED
    BY <1>1, FrameHolds, PTL

-----------------------------------------------------------------------------
(* Evidence.  The first reading began after the call did, so before_ids     *)
(* holds everything the call knew.                                          *)
EvidenceOK(c) ==
    /\ call[c].pc # "idle" => call[c].known \subseteq listed
    /\ call[c].pc = "before" => call[c].known \subseteq read[c].start
    /\ call[c].pc \in {"post", "again", "after"} /\ call[c].command \notin Bulk =>
         call[c].known \subseteq call[c].before
    /\ Reports(c, "message", {"reconciled"}) =>
         \E a \in listed \ call[c].known : activity[a].kind = "message"

(* The caller moves to label, or ends otherwise than with new evidence.     *)
LEMMA EvidenceAtEnd ==
  ASSUME Frame, NEW c \in Caller, EvidenceOK(c), Moves(c), Evolves,
         call[c].pc # "idle", call'[c].pc = "done",
         call[c].command = "message" => call'[c].outcome # "reconciled"
  PROVE  EvidenceOK(c)'
  BY DEF EvidenceOK, Moves, Evolves, Reports, At

LEMMA EvidenceInBulk ==
  ASSUME Frame, NEW c \in Caller, EvidenceOK(c), Moves(c), Evolves,
         call[c].pc # "idle", call[c].command \in Bulk, call'[c].pc # "before"
  PROVE  EvidenceOK(c)'
  BY DEF EvidenceOK, Moves, Evolves, Reports, At, Bulk

(* A failing call, or a bulk command's next item.                           *)
LEMMA EvidenceOnFailure ==
  ASSUME Frame, NEW c \in Caller, EvidenceOK(c), Evolves, call[c].pc # "idle",
         NEW outcome \in {"indeterminate", "error"}, Fails(c, outcome)
  PROVE  EvidenceOK(c)'
  <1>1. TypeOK
    BY DEF Frame
  <1> QED
    BY <1>1, FailsMoves, NextItemMoves, EvidenceAtEnd, EvidenceInBulk

LEMMA EvidenceOnSuccess ==
  ASSUME Frame, NEW c \in Caller, EvidenceOK(c), Evolves, call[c].pc # "idle",
         NEW outcome \in Success, Succeeds(c, outcome),
         call[c].command = "message" => outcome # "reconciled"
  PROVE  EvidenceOK(c)'
  <1>1. TypeOK
    BY DEF Frame
  <1> QED
    BY <1>1, SucceedsMoves, NextItemMoves, EvidenceAtEnd, EvidenceInBulk

LEMMA EvidenceOnGetFails ==
  ASSUME Frame, NEW c \in Caller, EvidenceOK(c), Evolves, call[c].pc # "idle", GetFails(c)
  PROVE  EvidenceOK(c)'
  <1>1. TypeOK
    BY DEF Frame
  <1> QED
    BY <1>1, GetFailsMoves, NextItemMoves, EvidenceAtEnd, EvidenceInBulk

LEMMA EvidenceStays ==
  ASSUME Frame, NEW c \in Caller, EvidenceOK(c), Evolves,
         call'[c] = call[c], read'[c].start = read[c].start
  PROVE  EvidenceOK(c)'
  BY DEF EvidenceOK, Evolves, Reports, At, Written

LEMMA YieldedOK ==
  ASSUME Frame, NEW c \in Caller, call[c].pc \in {"before", "after"}, read[c].pc = "whole"
  PROVE  read[c].start \subseteq Yielded(c) /\ Yielded(c) \subseteq listed
  BY CallersRead DEF Frame, ReadOK, Yielded, TypeOK, ListingTypeOK

LEMMA EvidenceTaken ==
  ASSUME Frame, NEW c \in Caller, EvidenceOK(c), TakeEvidence(c)
  PROVE  EvidenceOK(c)'
  <1>1. call[c].pc = "before" /\ read[c].pc = "whole" /\ UNCHANGED listed
    BY DEF TakeEvidence, At
  <1>2. call[c].known \subseteq Yielded(c) /\ call[c].known \subseteq listed
    BY <1>1, YieldedOK DEF EvidenceOK
  <1>3. Moves(c) /\ call'[c].pc = "post" /\ call'[c].before = Yielded(c)
    BY TakeEvidenceMoves DEF Frame
  <1> QED
    BY <1>1, <1>2, <1>3 DEF EvidenceOK, Moves, Reports, At

LEMMA EvidenceGoes ==
  ASSUME Frame, NEW c \in Caller, EvidenceOK(c), Evolves, Moves(c),
         call[c].pc \in {"post", "again"}, call'[c].pc \in {"again", "after"},
         call'[c].before = call[c].before
  PROVE  EvidenceOK(c)'
  BY DEF EvidenceOK, Moves, Evolves, Reports, At

LEMMA EvidenceJudged ==
  ASSUME Frame, NEW c \in Caller, EvidenceOK(c), Judge(c)
  PROVE  EvidenceOK(c)'
  <1>1. /\ call[c].pc = "after" /\ read[c].pc = "whole"
        /\ UNCHANGED <<listed, activity>>
    BY DEF Judge, At
  <1>2. Moves(c) /\ call'[c].pc = "done"
    BY JudgeTurns DEF Turns
  <1>3. Evolves
    BY <1>1, NothingEvolves DEF Frame
  <1>4. CASE call[c].command = "message" /\ call'[c].outcome = "reconciled"
    <2>1. \E a \in NewEvidence(c, "message") : TRUE
      <3>1. TypeOK /\ ~ (End(c, "indeterminate"))
        BY <1>4, EndMoves DEF Frame
      <3>2. JudgeMessage(c)
        BY <1>4 DEF Judge
      <3> QED
        BY <3>1, <3>2 DEF JudgeMessage
    <2>2. PICK a \in NewEvidence(c, "message") : TRUE
      BY <2>1
    <2>3. a \in Yielded(c) /\ a \notin call[c].before /\ activity[a].kind = "message"
      BY <2>2 DEF NewEvidence
    <2>4. call[c].known \subseteq call[c].before
      BY <1>1, <1>4 DEF EvidenceOK, Bulk
    <2>5. a \in listed \ call[c].known
      BY <1>1, <2>3, <2>4, YieldedOK
    <2> QED
      BY <1>1, <1>2, <2>3, <2>5 DEF EvidenceOK, Moves, Reports, At
  <1>5. CASE call[c].command = "message" => call'[c].outcome # "reconciled"
    BY <1>1, <1>2, <1>3, <1>5, EvidenceAtEnd
  <1> QED
    BY <1>4, <1>5

LEMMA EvidenceStep ==
  ASSUME Frame, NEW c \in Caller, EvidenceOK(c), Step(c)
  PROVE  EvidenceOK(c)'
  <1>1. Evolves /\ Moves(c) /\ TypeOK
    BY StepTurns DEF World, Turns, Frame
  <1>2. CASE Look(c)
    <2>1. call[c].pc = "look" /\ UNCHANGED listed /\ call[c].command # "message"
      BY <1>2 DEF Look, At, Frame, Shape
    <2>2. CASE call[c].command = "approve" /\ Goto(c, "before") /\ BeginRead(c)
      <3>1. call'[c].pc = "before" /\ read'[c].start = listed
        BY <1>1, <2>2, GotoMoves, BeginReadOK, CallersRead DEF TypeOK
      <3> QED
        BY <1>1, <2>1, <2>2, <3>1 DEF EvidenceOK, Moves, Reports, At
    <2>3. CASE End(c, "existing")
      BY <1>1, <2>1, <2>3, EndMoves, EvidenceAtEnd
    <2>4. CASE call[c].command \in Bulk /\ Succeeds(c, "existing")
      BY <1>1, <2>1, <2>4, EvidenceOnSuccess DEF Success
    <2>5. CASE call[c].command \in Bulk /\ Goto(c, "post")
      BY <1>1, <2>1, <2>5, GotoMoves, EvidenceInBulk
    <2>6. CASE GetFails(c)
      BY <1>1, <2>1, <2>6, EvidenceOnGetFails
    <2> QED
      BY <1>2, <2>2, <2>3, <2>4, <2>5, <2>6 DEF Look
  <1>3. CASE ReadPage(c)
    <2>1. read'[c].start = read[c].start /\ call'[c] = call[c]
      BY <1>3, ReadPageTurns DEF ReadPage
    <2> QED
      BY <1>1, <2>1, EvidenceStays
  <1>4. CASE ReadBreaks(c)
    BY <1>1, <1>4, EvidenceOnFailure DEF ReadBreaks
  <1>5. CASE TakeEvidence(c)
    BY <1>5, EvidenceTaken
  <1>6. CASE PostAnswered(c)
    <2>1. call[c].pc = "post" /\ (Succeeds(c, "completed") \/ End(c, "error"))
      BY <1>6 DEF PostAnswered, At
    <2>2. CASE Succeeds(c, "completed")
      BY <1>1, <2>1, <2>2, EvidenceOnSuccess DEF Success
    <2>3. CASE End(c, "error")
      BY <1>1, <2>1, <2>3, EndMoves, EvidenceAtEnd
    <2> QED
      BY <2>1, <2>2, <2>3
  <1>7. CASE PostUncertain(c)
    <2>1. call[c].pc = "post" /\ (Goto(c, "after") \/ Goto(c, "again"))
      BY <1>7 DEF PostUncertain, At, LookAfter
    <2>2. /\ call'[c].pc \in {"again", "after"}
          /\ call'[c].before = call[c].before
      BY <1>1, <2>1, GotoMoves DEF KeepsLocals
    <2> QED
      BY <1>1, <2>1, <2>2, EvidenceGoes
  <1>8. CASE PostRefused(c)
    BY <1>1, <1>8, EvidenceOnFailure DEF PostRefused, At
  <1>9. CASE LookAgain(c)
    <2>1. call[c].pc = "again" /\ call[c].command # "message"
      BY <1>9 DEF LookAgain, At, Frame, Shape
    <2>2. CASE \E seen \in StateSeen :
            call' = [call EXCEPT ![c].pc = "after", ![c].moved = seen \notin Undecided]
      BY <1>1, <2>1, <2>2, LookAgainMoves, EvidenceGoes
    <2>3. CASE Succeeds(c, "reconciled")
      BY <1>1, <2>1, <2>3, EvidenceOnSuccess DEF Success
    <2>4. CASE Fails(c, "indeterminate")
      BY <1>1, <2>1, <2>4, EvidenceOnFailure
    <2>5. CASE GetFails(c)
      BY <1>1, <2>1, <2>5, EvidenceOnGetFails
    <2> QED
      BY <1>9, <2>2, <2>3, <2>4, <2>5 DEF LookAgain
  <1>10. CASE Judge(c)
    BY <1>10, EvidenceJudged
  <1> QED
    BY <1>2, <1>3, <1>4, <1>5, <1>6, <1>7, <1>8, <1>9, <1>10 DEF Step

LEMMA EvidenceStart ==
  ASSUME Frame, NEW c \in Caller, Start(c)
  PROVE  EvidenceOK(c)'
  <1>1. Begun(c) /\ UNCHANGED listed /\ ListingTypeOK
    BY StartBegins DEF Start, Frame, TypeOK
  <1>2. BeginRead(c) => read'[c].start = listed
    BY <1>1, BeginReadOK, CallersRead
  <1> QED
    BY <1>1, <1>2 DEF Begun, EvidenceOK, Reports, At

(* Who does not move in a step keeps its call and its read.                 *)
LEMMA OthersStay ==
  ASSUME Frame, [Next]_vars, NEW d \in Caller,
         ~ Step(d), ~ Start(d)
  PROVE  Evolves /\ call'[d] = call[d] /\ read'[d] = read[d] /\ calls'[d] = calls[d]
  <1>1. ASSUME NEW c \in Caller \ {d}, Step(c)
        PROVE  Evolves /\ call'[d] = call[d] /\ read'[d] = read[d] /\ calls'[d] = calls[d]
    BY <1>1, StepTurns, CallersRead DEF Turns, World, Moves
  <1>2. ASSUME NEW c \in Caller \ {d}, Start(c)
        PROVE  Evolves /\ call'[d] = call[d] /\ read'[d] = read[d] /\ calls'[d] = calls[d]
    <2>1. TypeOK
      BY DEF Frame
    <2>2. Begun(c) /\ Evolves
      BY <1>2, <2>1, StartBegins, NothingEvolves DEF Start
    <2>3. read'[d] = read[d]
      BY <2>2, BeginTurns, CallersRead DEF Begun
    <2> QED
      BY <1>2, <2>2, <2>3, StartFrame DEF Begun
  <1>3. CASE Elsewhere
    BY <1>3, ElsewhereWorld
  <1>4. CASE UNCHANGED vars
    BY <1>4, NothingEvolves DEF vars, Frame
  <1> QED
    BY <1>1, <1>2, <1>3, <1>4, NextSplits

LEMMA EvidenceNext ==
  ASSUME Frame, [Next]_vars, \A c \in Caller : EvidenceOK(c)
  PROVE  (\A c \in Caller : EvidenceOK(c))'
  <1> SUFFICES ASSUME NEW c \in Caller PROVE EvidenceOK(c)'
    OBVIOUS
  <1>1. CASE Step(c)
    BY <1>1, EvidenceStep
  <1>2. CASE Start(c)
    BY <1>2, EvidenceStart
  <1>3. CASE ~ Step(c) /\ ~ Start(c)
    BY <1>3, OthersStay, EvidenceStays
  <1> QED
    BY <1>1, <1>2, <1>3

Evidence == Frame /\ \A c \in Caller : EvidenceOK(c)

(* What a caller holds as evidence, before and after its POST, is what the  *)
(* log says it is, in every reachable state.                                *)
THEOREM EvidenceHolds == Spec => []Evidence
  <1>1. Init => Evidence
    <2> SUFFICES ASSUME Init PROVE \A c \in Caller : EvidenceOK(c)
      BY FrameInit DEF Evidence
    <2> QED
      BY DEF Init, EvidenceOK, NoCall, Reports, At
  <1>2. Evidence /\ [Next]_vars => Evidence'
    BY FrameNext, EvidenceNext DEF Evidence
  <1> QED
    BY <1>1, <1>2, PTL DEF Spec

(* A message is reported reconciled only on evidence that was not listed    *)
(* when the call began.                                                     *)
THEOREM OnlyNewEvidence == Spec => []EvidenceIsNew
  <1>1. Evidence => EvidenceIsNew
    BY DEF Evidence, EvidenceOK, EvidenceIsNew
  <1> QED
    BY <1>1, EvidenceHolds, PTL

-----------------------------------------------------------------------------
(* Approvals.  A plan that still waits has waited since the call began, and *)
(* every approval in the log is older than the call.                        *)
PlanOK == state = "awaiting" => plan >= 1

Waits(c) == state = "awaiting" /\ plan = call[c].asks

ApproveOK(c) ==
    call[c].pc # "idle" =>
      /\ call[c].asks <= plan
      /\ Waits(c) =>
           /\ \A a \in Resource : activity[a].kind = "approval" =>
                                    a \in call[c].known \cup call[c].hidden
           /\ call[c].pc = "after" /\ call[c].command = "approve" => ~ call[c].moved
           /\ ~ (Reports(c, "approve", Success) /\ call[c].hidden = {})

(* A plan that waits after a step and is no new plan waited before it, and  *)
(* nothing was approved in between.                                         *)
StillWaits ==
    /\ plan <= plan'
    /\ state' = "awaiting" /\ plan' = plan =>
         /\ state = "awaiting"
         /\ \A a \in Resource : activity'[a].kind = "approval" => activity[a].kind = "approval"

LEMMA EffectStillWaits ==
  ASSUME TypeOK, NEW by \in Author, NEW command \in Command, NEW ids \in SUBSET Session,
         Effect(by, command, ids)
  PROVE  StillWaits /\ (command = "approve" => state' = "working")
  <1>1. plan \in Nat
    BY CallAssumption DEF TypeOK
  <1>2. CASE command = "message" /\ MessageEffect(by)
    <2>1. Write("message", by) /\ UNCHANGED <<state, plan>>
      BY <1>2 DEF MessageEffect, sessionVars
    <2>2. PICK a \in Resource \ Written :
              /\ activity'[a] = [kind |-> "message", by |-> by]
              /\ \A b \in Resource \ {a} : activity'[b] = activity[b]
      BY <2>1, WriteOK
    <2> QED
      BY <1>1, <1>2, <2>1, <2>2 DEF StillWaits
  <1>3. CASE command = "approve" /\ ApproveEffect
    BY <1>1, <1>3 DEF ApproveEffect, StillWaits
  <1>4. CASE command \in Bulk /\ \E s \in ids : ArchiveEffect(s, Desired(command))
    BY <1>1, <1>4 DEF ArchiveEffect, StillWaits, Bulk
  <1> QED
    BY <1>2, <1>3, <1>4 DEF Effect

LEMMA NothingStillWaits ==
  ASSUME TypeOK, UNCHANGED <<activity, state, plan>>
  PROVE  StillWaits
  BY CallAssumption DEF TypeOK, StillWaits

LEMMA StepStillWaits ==
  ASSUME Frame, NEW c \in Caller, Step(c)
  PROVE  StillWaits
  <1>1. TypeOK
    BY DEF Frame
  <1>2. CASE PostAnswered(c)
    BY <1>1, <1>2, PostedOK, EffectStillWaits DEF PostAnswered
  <1>3. CASE PostUncertain(c)
    <2>1. At(c, "post")
      BY <1>3 DEF PostUncertain
    <2>2. CASE Effect(Posted(c).by, Posted(c).command, Posted(c).ids)
      BY <1>1, <2>1, <2>2, PostedOK, EffectStillWaits
    <2>3. CASE NoEffect
      BY <1>1, <2>3, NothingStillWaits DEF NoEffect, sessionVars
    <2> QED
      BY <1>3, <2>2, <2>3 DEF PostUncertain
  <1>4. CASE UNCHANGED <<activity, state, plan>>
    BY <1>1, <1>4, NothingStillWaits
  <1> QED
    BY <1>2, <1>3, <1>4 DEF Step, Look, ReadPage, ReadBreaks, TakeEvidence, PostRefused,
                            LookAgain, Judge, sessionVars

LEMMA ElsewhereStillWaits ==
  ASSUME Frame, Elsewhere
  PROVE  StillWaits
  <1>1. TypeOK
    BY DEF Frame
  <1>2. CASE \E post \in late : LateEffect(post)
    <2>1. PICK post \in late : LateEffect(post)
      BY <1>2
    <2>2. post.by \in Author /\ post.command \in Command /\ post.ids \in SUBSET Session
      BY <1>1, <2>1 DEF TypeOK, Post, Author
    <2> QED
      BY <1>1, <2>1, <2>2, EffectStillWaits DEF LateEffect
  <1>3. CASE \E a \in Resource : Show(a)
    BY <1>1, <1>3, NothingStillWaits DEF Show, sessionVars
  <1>4. CASE ForeignEffect
    BY <1>1, <1>4, EffectStillWaits DEF ForeignEffect, Author
  <1>5. CASE SessionMoves
    BY <1>1, <1>5, CallAssumption DEF SessionMoves, TypeOK, StillWaits
  <1> QED
    BY <1>2, <1>3, <1>4, <1>5 DEF Elsewhere

LEMMA NextStillWaits ==
  ASSUME Frame, PlanOK, [Next]_vars
  PROVE  StillWaits /\ PlanOK'
  <1>1. TypeOK
    BY DEF Frame
  <1>2. StillWaits
    <2>1. ASSUME NEW c \in Caller, Start(c) PROVE StillWaits
      BY <1>1, <2>1, NothingStillWaits DEF Start
    <2>2. CASE UNCHANGED vars
      BY <1>1, <2>2, NothingStillWaits DEF vars, sessionVars
    <2> QED
      BY <2>1, <2>2, NextSplits, StepStillWaits, ElsewhereStillWaits
  <1>3. plan \in Nat /\ plan' \in Nat
    BY FrameNext, CallAssumption DEF Frame, TypeOK
  <1> QED
    BY <1>2, <1>3 DEF StillWaits, PlanOK

(* A call keeps ApproveOK if its own step adds no claim while its plan      *)
(* waits.                                                                   *)
LEMMA ApproveKeeps ==
  ASSUME Frame, Frame', NEW c \in Caller, ApproveOK(c), StillWaits,
         call[c].pc # "idle",
         call'[c].asks = call[c].asks,
         call'[c].known = call[c].known,
         call'[c].hidden = call[c].hidden,
         Waits(c) =>
           \/ state' # "awaiting"
           \/ /\ call'[c].pc = "after" /\ call'[c].command = "approve" => ~ call'[c].moved
              /\ ~ (Reports(c, "approve", Success)' /\ call'[c].hidden = {})
  PROVE  ApproveOK(c)'
  <1>1. plan \in Nat /\ plan' \in Nat /\ call[c].asks \in Nat
    BY CallAssumption DEF Frame, TypeOK, Call
  <1>2. plan <= plan' /\ call[c].asks <= plan
    BY DEF StillWaits, ApproveOK
  <1>3. CASE Waits(c)'
    <2>1. state' = "awaiting" /\ plan' = plan /\ plan = call[c].asks
      BY <1>1, <1>2, <1>3 DEF Waits
    <2>2. Waits(c) /\ \A a \in Resource : activity'[a].kind = "approval" =>
                                            activity[a].kind = "approval"
      BY <2>1 DEF StillWaits, Waits
    <2>3. \A a \in Resource : activity'[a].kind = "approval" =>
                                 a \in call[c].known \cup call[c].hidden
      BY <2>2 DEF ApproveOK
    <2> QED
      BY <1>1, <1>2, <2>1, <2>2, <2>3 DEF ApproveOK
  <1>4. CASE ~ Waits(c)'
    BY <1>1, <1>2, <1>4 DEF ApproveOK
  <1> QED
    BY <1>3, <1>4

(* An end without success, and a move that is not to "after", claim nothing.*)
LEMMA ApproveClaimsNothing ==
  ASSUME Frame, Frame', NEW c \in Caller, ApproveOK(c), StillWaits,
         call[c].pc # "idle", Moves(c),
         call[c].command = "approve" =>
           /\ call'[c].pc # "after"
           /\ call'[c].pc = "done" => call'[c].outcome \notin Success
  PROVE  ApproveOK(c)'
  BY ApproveKeeps DEF Moves, Reports, At

LEMMA NextItemIsBulk ==
  ASSUME TypeOK, NEW c \in Caller, call[c].command \in Bulk
  PROVE  call[c].command # "approve"
  BY DEF Bulk

LEMMA ApproveOnFailure ==
  ASSUME Frame, Frame', NEW c \in Caller, ApproveOK(c), StillWaits, call[c].pc # "idle",
         \/ \E outcome \in {"indeterminate", "error"} : Fails(c, outcome)
         \/ GetFails(c)
  PROVE  ApproveOK(c)'
  <1>1. TypeOK
    BY DEF Frame
  <1>2. Moves(c)
    BY <1>1, FailsMoves, GetFailsMoves
  <1>3. call[c].command = "approve" =>
          call'[c].pc = "done" /\ call'[c].outcome \in {"indeterminate", "error"}
    BY <1>1, FailsMoves, GetFailsMoves, NextItemIsBulk
  <1> QED
    BY <1>2, <1>3, ApproveClaimsNothing DEF Success

LEMMA ApproveJudged ==
  ASSUME Frame, Frame', NEW c \in Caller, ApproveOK(c), EvidenceOK(c), StillWaits, Judge(c)
  PROVE  ApproveOK(c)'
  <1>1. TypeOK /\ call[c].pc = "after" /\ read[c].pc = "whole"
    BY DEF Frame, Judge, At
  <1>2. Moves(c) /\ call'[c].pc = "done"
    BY JudgeTurns DEF Turns
  <1>3. CASE call[c].command = "approve" /\ Waits(c) /\ call[c].hidden = {}
    <2>1. call[c].known \subseteq call[c].before
      BY <1>1, <1>3 DEF EvidenceOK, Bulk
    <2>2. NewEvidence(c, "approval") = {}
      BY <1>1, <1>3, <2>1 DEF NewEvidence, Yielded, ApproveOK
    <2>3. ~ call[c].moved
      BY <1>1, <1>3 DEF ApproveOK
    <2>4. JudgeApproval(c)
      BY <1>3 DEF Judge
    <2>5. End(c, "indeterminate")
      BY <2>2, <2>3, <2>4 DEF JudgeApproval
    <2>6. call'[c].outcome = "indeterminate"
      BY <1>1, <2>5, EndMoves
    <2> QED
      BY <1>1, <1>2, <2>6, ApproveClaimsNothing DEF Success
  <1>4. CASE ~ (call[c].command = "approve" /\ Waits(c) /\ call[c].hidden = {})
    <2>1. Waits(c) => ~ (Reports(c, "approve", Success)' /\ call'[c].hidden = {})
      BY <1>2, <1>4 DEF Moves, Reports, At
    <2> QED
      BY <1>1, <1>2, <2>1, ApproveKeeps DEF Moves
  <1> QED
    BY <1>3, <1>4

LEMMA ApproveStep ==
  ASSUME Frame, Frame', NEW c \in Caller, ApproveOK(c), EvidenceOK(c), StillWaits, Step(c)
  PROVE  ApproveOK(c)'
  <1>1. Moves(c) /\ TypeOK
    BY StepTurns DEF Turns, Frame
  <1>2. CASE Look(c)
    <2>1. call[c].pc = "look"
      BY <1>2 DEF Look, At
    <2>2. CASE call[c].command = "approve" /\ Goto(c, "before")
      BY <1>1, <2>1, <2>2, GotoMoves, ApproveClaimsNothing
    <2>3. CASE \E seen \in StateSeen : seen \notin Undecided /\ End(c, "existing")
      <3>1. ~ Waits(c)
        BY <2>3 DEF StateSeen, Undecided, Waits
      <3> QED
        BY <1>1, <2>1, <3>1, ApproveKeeps DEF Moves
    <2>4. CASE call[c].command \in Bulk
      BY <1>1, <2>1, <2>4, NextItemIsBulk, ApproveClaimsNothing
    <2>5. CASE GetFails(c)
      BY <2>1, <2>5, ApproveOnFailure
    <2> QED
      BY <1>2, <2>2, <2>3, <2>4, <2>5 DEF Look
  <1>3. CASE ReadPage(c)
    <2>1. call'[c] = call[c] /\ call[c].pc \in {"before", "after"}
      BY <1>3 DEF ReadPage
    <2> QED
      BY <2>1, ApproveKeeps DEF ApproveOK, Reports, At
  <1>4. CASE ReadBreaks(c)
    BY <1>4, ApproveOnFailure DEF ReadBreaks
  <1>5. CASE TakeEvidence(c)
    <2>1. call[c].pc = "before" /\ call'[c].pc = "post"
      BY <1>1, <1>5, TakeEvidenceMoves DEF TakeEvidence, At
    <2> QED
      BY <1>1, <2>1, ApproveClaimsNothing
  <1>6. CASE PostAnswered(c)
    <2>1. call[c].pc = "post" /\ At(c, "post")
      BY <1>6 DEF PostAnswered, At
    <2>2. call[c].command = "approve" => state' = "working"
      BY <1>1, <1>6, <2>1, PostedOK, EffectStillWaits DEF PostAnswered
    <2> QED
      BY <1>1, <2>1, <2>2, ApproveKeeps DEF Moves, Reports, At
  <1>7. CASE PostUncertain(c)
    <2>1. call[c].pc = "post" /\ (call[c].command # "message" => Goto(c, "again"))
      BY <1>7 DEF PostUncertain, LookAfter, At
    <2> QED
      BY <1>1, <2>1, GotoMoves, ApproveClaimsNothing
  <1>8. CASE PostRefused(c)
    BY <1>8, ApproveOnFailure DEF PostRefused, At
  <1>9. CASE LookAgain(c)
    <2>1. call[c].pc = "again"
      BY <1>9 DEF LookAgain, At
    <2>2. CASE \E seen \in StateSeen :
            call' = [call EXCEPT ![c].pc = "after", ![c].moved = seen \notin Undecided]
      <3>1. PICK seen \in StateSeen :
            call' = [call EXCEPT ![c].pc = "after", ![c].moved = seen \notin Undecided]
        BY <2>2
      <3>2. call'[c].pc = "after" /\ call'[c].moved = (seen \notin Undecided)
        BY <1>1, <3>1, LookAgainMoves
      <3>3. Waits(c) => seen \in Undecided
        BY DEF Waits, StateSeen, Undecided
      <3> QED
        BY <1>1, <2>1, <3>2, <3>3, ApproveKeeps DEF Moves, Reports, At
    <2>3. CASE call[c].command \in Bulk
      BY <1>1, <2>1, <2>3, NextItemIsBulk, ApproveClaimsNothing
    <2>4. CASE GetFails(c)
      BY <2>1, <2>4, ApproveOnFailure
    <2> QED
      BY <1>9, <2>2, <2>3, <2>4 DEF LookAgain
  <1>10. CASE Judge(c)
    BY <1>10, ApproveJudged
  <1> QED
    BY <1>2, <1>3, <1>4, <1>5, <1>6, <1>7, <1>8, <1>9, <1>10 DEF Step

LEMMA ApproveStart ==
  ASSUME Frame, PlanOK, NEW c \in Caller, Start(c)
  PROVE  ApproveOK(c)'
  <1>1. Begun(c) /\ UNCHANGED <<listed, activity, state, plan>>
    BY StartBegins DEF Start, Frame
  <1>2. plan \in Nat
    BY CallAssumption DEF Frame, TypeOK
  <1>3. \A a \in Resource : activity'[a].kind = "approval" =>
                               a \in call'[c].known \cup call'[c].hidden
    BY <1>1 DEF Begun, Written
  <1> QED
    BY <1>1, <1>2, <1>3 DEF Begun, ApproveOK, Reports, At

LEMMA ApproveNext ==
  ASSUME Frame, PlanOK, [Next]_vars, \A c \in Caller : EvidenceOK(c) /\ ApproveOK(c)
  PROVE  PlanOK' /\ (\A c \in Caller : ApproveOK(c))'
  <1>1. StillWaits /\ PlanOK' /\ Frame'
    BY NextStillWaits, FrameNext
  <1> SUFFICES ASSUME NEW c \in Caller PROVE ApproveOK(c)'
    BY <1>1
  <1>2. CASE Step(c)
    BY <1>1, <1>2, ApproveStep
  <1>3. CASE Start(c)
    BY <1>3, ApproveStart
  <1>4. CASE ~ Step(c) /\ ~ Start(c)
    <2>1. call'[c] = call[c]
      BY <1>4, OthersStay
    <2> QED
      BY <1>1, <2>1, ApproveKeeps DEF ApproveOK, Reports, At
  <1> QED
    BY <1>2, <1>3, <1>4

Approvals == Evidence /\ PlanOK /\ \A c \in Caller : ApproveOK(c)

(* After any success of approve the plan that waited when the call began    *)
(* waits no more, unless the log was behind at that time.                   *)
THEOREM ApprovedPlansMoveOn == Spec => []ApprovedMovesOn
  <1>1. Init => Approvals
    <2> SUFFICES ASSUME Init PROVE Approvals
      OBVIOUS
    <2>1. Evidence
      BY FrameInit DEF Init, Evidence, EvidenceOK, NoCall, Reports, At
    <2> QED
      BY <2>1 DEF Init, Approvals, PlanOK, ApproveOK, NoCall
  <1>2. Approvals /\ [Next]_vars => Approvals'
    BY FrameNext, EvidenceNext, ApproveNext DEF Approvals, Evidence
  <1>3. Approvals => ApprovedMovesOn
    BY DEF Approvals, ApproveOK, ApprovedMovesOn, Reports, At, Waits
  <1> QED
    BY <1>1, <1>2, <1>3, PTL DEF Spec

-----------------------------------------------------------------------------
(* Bulk commands.  held tracks who is as desired, tried items included.     *)
BulkOK(c) ==
    call[c].command \in Bulk =>
      /\ \A s \in call[c].ids : archived[s] = Desired(call[c].command) => s \in held[c]
      /\ call[c].pc # "done" /\ ~ call[c].failed => call[c].ids \ call[c].todo \subseteq held[c]
      /\ call[c].pc = "done" /\ call[c].outcome = "completed" => call[c].ids \subseteq held[c]

(* Who comes to be as a bulk command desires is held; who is held stays so. *)
HoldsOn(c) ==
    /\ held[c] \subseteq held'[c]
    /\ call[c].command \in Bulk =>
         \A s \in call[c].ids :
            archived'[s] = Desired(call[c].command) =>
               archived[s] = Desired(call[c].command) \/ s \in held'[c]

LEMMA NothingHoldsOn ==
  ASSUME NEW c \in Caller, UNCHANGED <<archived, held>>
  PROVE  HoldsOn(c)
  BY DEF HoldsOn

LEMMA EffectHoldsOn ==
  ASSUME TypeOK, NEW by, NEW command \in Command, NEW ids \in SUBSET Session,
         Effect(by, command, ids)
  PROVE  /\ \A c \in Caller : HoldsOn(c)
         /\ \A c \in Caller : /\ command \in Bulk
                              /\ ids \subseteq call[c].ids
                              /\ call[c].command = command
                              /\ \E s \in Session : ids = {s}
                              => ids \subseteq held'[c]
  <1>1. CASE command \in Bulk /\ \E s \in ids : ArchiveEffect(s, Desired(command))
    <2>1. PICK s \in ids : ArchiveEffect(s, Desired(command))
      BY <1>1
    <2>2. /\ archived' = [archived EXCEPT ![s] = Desired(command)]
          /\ \A c \in Caller : held'[c] = IF /\ call[c].command \in Bulk
                                             /\ s \in call[c].ids
                                             /\ Desired(command) = Desired(call[c].command)
                                          THEN held[c] \cup {s} ELSE held[c]
      BY <2>1 DEF ArchiveEffect
    <2>3. \A t \in Session : archived'[t] = IF t = s THEN Desired(command) ELSE archived[t]
      BY <2>2 DEF TypeOK
    <2>4. ASSUME NEW c \in Caller PROVE HoldsOn(c)
      <3>1. call[c].ids \subseteq Session
        BY DEF TypeOK, Call
      <3> QED
        BY <2>2, <2>3, <3>1 DEF HoldsOn
    <2>5. \A t \in Session : ids = {t} => t = s
      OBVIOUS
    <2> QED
      BY <1>1, <2>2, <2>4, <2>5
  <1>2. CASE command \notin Bulk /\ UNCHANGED <<archived, held>>
    BY <1>2, NothingHoldsOn
  <1> QED
    BY <1>1, <1>2 DEF Effect, MessageEffect, ApproveEffect, sessionVars, Bulk

(* The world changes and the call does not claim anything.                  *)
LEMMA BulkKeeps ==
  ASSUME NEW c \in Caller, BulkOK(c), HoldsOn(c),
         call'[c].command = call[c].command,
         call'[c].ids = call[c].ids,
         \/ call'[c] = call[c]
         \/ call[c].command \notin Bulk
         \/ /\ call[c].pc # "done" /\ call'[c].pc # "done"
            /\ call'[c].todo = call[c].todo
            /\ call'[c].failed = call[c].failed
         \/ call'[c].pc = "done" /\ call'[c].outcome # "completed"
  PROVE  BulkOK(c)'
  BY DEF BulkOK, HoldsOn

(* An item is tried, and held unless it failed.                             *)
LEMMA BulkNextItem ==
  ASSUME Frame, NEW c \in Caller, BulkOK(c), HoldsOn(c),
         call[c].command \in Bulk, call[c].pc \notin {"idle", "done"},
         NEW bad \in BOOLEAN, NextItem(c, bad), bad \/ Item(c) \in held'[c]
  PROVE  BulkOK(c)'
  <1>1. /\ Moves(c)
        /\ call'[c].todo = call[c].todo \ {Item(c)}
        /\ call'[c].failed = (call[c].failed \/ bad)
        /\ \/ call'[c].pc = "look" /\ call'[c].todo # {}
           \/ /\ call'[c].pc = "done"
              /\ call'[c].todo = {}
              /\ call'[c].outcome = "completed" => ~ call'[c].failed
    BY NextItemMoves DEF Frame
  <1>2. ~ call'[c].failed => call[c].ids \ call'[c].todo \subseteq held'[c]
    BY <1>1 DEF BulkOK, HoldsOn
  <1> QED
    BY <1>1, <1>2 DEF BulkOK, HoldsOn, Moves

LEMMA BulkOnFailure ==
  ASSUME Frame, NEW c \in Caller, BulkOK(c), HoldsOn(c), call[c].pc \notin {"idle", "done"},
         \/ \E outcome \in {"indeterminate", "error"} : Fails(c, outcome)
         \/ GetFails(c)
  PROVE  BulkOK(c)'
  <1>1. TypeOK
    BY DEF Frame
  <1>2. Moves(c)
    BY <1>1, FailsMoves, GetFailsMoves
  <1>3. \/ call[c].command \in Bulk /\ NextItem(c, TRUE)
        \/ call[c].command \notin Bulk
        \/ call'[c].pc = "done" /\ call'[c].outcome = "error"
    BY <1>1, FailsMoves, GetFailsMoves
  <1> QED
    BY <1>2, <1>3, BulkNextItem, BulkKeeps DEF Moves

LEMMA BulkOnSuccess ==
  ASSUME Frame, NEW c \in Caller, BulkOK(c), HoldsOn(c), call[c].pc \notin {"idle", "done"},
         NEW outcome \in Success, Succeeds(c, outcome),
         call[c].command \in Bulk => Item(c) \in held'[c]
  PROVE  BulkOK(c)'
  <1>1. TypeOK
    BY DEF Frame
  <1> QED
    BY <1>1, SucceedsMoves, BulkNextItem, BulkKeeps DEF Moves

(* What get_session shows of an item that is as desired.                    *)
LEMMA SeenIsHeld ==
  ASSUME Frame, NEW c \in Caller, BulkOK(c), HoldsOn(c), call[c].command \in Bulk,
         call[c].pc \notin {"idle", "done"}, Wanted(c) \in ArchivedSeen(c)
  PROVE  Item(c) \in held'[c]
  <1>1. Item(c) \in call[c].ids /\ Item(c) \in Session
    BY BulkItem
  <1>2. archived[Item(c)] \in BOOLEAN /\ Desired(call[c].command) \in BOOLEAN
    BY <1>1 DEF Frame, TypeOK, Desired
  <1>3. archived[Item(c)] = Desired(call[c].command)
    BY <1>2 DEF Wanted, ArchivedSeen
  <1> QED
    BY <1>1, <1>3 DEF BulkOK, HoldsOn

LEMMA BulkStep ==
  ASSUME Frame, NEW c \in Caller, BulkOK(c), Step(c)
  PROVE  BulkOK(c)'
  <1>1. Moves(c) /\ TypeOK
    BY StepTurns DEF Turns, Frame
  <1>2. CASE Look(c)
    <2>1. call[c].pc = "look" /\ HoldsOn(c)
      BY <1>2, NothingHoldsOn DEF Look, At, sessionVars
    <2>2. CASE call[c].command \notin Bulk
      BY <1>1, <2>1, <2>2, BulkKeeps DEF Moves
    <2>3. CASE /\ call[c].command \in Bulk
               /\ \E seen \in ArchivedSeen(c) : seen = Wanted(c) /\ Succeeds(c, "existing")
      BY <2>1, <2>3, SeenIsHeld, BulkOnSuccess DEF Success
    <2>4. CASE call[c].command \in Bulk /\ Goto(c, "post")
      BY <1>1, <2>1, <2>4, GotoMoves, BulkKeeps DEF Moves, KeepsLocals
    <2>5. CASE GetFails(c)
      BY <2>1, <2>5, BulkOnFailure
    <2> QED
      BY <1>2, <2>2, <2>3, <2>4, <2>5 DEF Look, Bulk
  <1>3. CASE ReadPage(c) \/ TakeEvidence(c) \/ Judge(c) \/ ReadBreaks(c)
    <2>1. call[c].command \notin Bulk /\ HoldsOn(c)
      BY <1>3, ReadersAskTheLog, NothingHoldsOn
         DEF ReadPage, TakeEvidence, Judge, ReadBreaks, At, sessionVars
    <2> QED
      BY <1>1, <2>1, BulkKeeps DEF Moves
  <1>4. CASE PostAnswered(c)
    <2>1. /\ At(c, "post") /\ call[c].pc = "post"
          /\ Effect(Posted(c).by, Posted(c).command, Posted(c).ids)
      BY <1>4 DEF PostAnswered, At
    <2>2. HoldsOn(c)
      BY <1>1, <2>1, PostedOK, EffectHoldsOn
    <2>3. CASE call[c].command \notin Bulk
      BY <1>1, <2>2, <2>3, BulkKeeps DEF Moves
    <2>4. CASE call[c].command \in Bulk
      <3>1. /\ Item(c) \in call[c].ids /\ Item(c) \in Session
            /\ Posted(c).ids = {Item(c)} /\ Posted(c).command = call[c].command
        BY <2>1, <2>4, BulkItem, PostedOK
      <3>a. Effect(Posted(c).by, call[c].command, {Item(c)})
        BY <2>1, <3>1
      <3>b. call[c].command \in Command /\ {Item(c)} \in SUBSET Session
        BY <2>4, <3>1 DEF Command
      <3>2. Item(c) \in held'[c]
        BY <1>1, <2>4, <3>1, <3>a, <3>b, EffectHoldsOn
      <3>3. CASE Succeeds(c, "completed")
        BY <2>1, <2>2, <3>2, <3>3, BulkOnSuccess DEF Success
      <3>4. CASE End(c, "error")
        BY <1>1, <2>1, <2>2, <3>4, EndMoves, BulkKeeps DEF Moves
      <3> QED
        BY <1>4, <3>3, <3>4 DEF PostAnswered
    <2> QED
      BY <2>3, <2>4
  <1>5. CASE PostUncertain(c)
    <2>1. /\ At(c, "post") /\ call[c].pc = "post"
          /\ call[c].command \in Bulk => Goto(c, "again")
      BY <1>5 DEF PostUncertain, LookAfter, At, Bulk
    <2>2. HoldsOn(c)
      <3>1. CASE Effect(Posted(c).by, Posted(c).command, Posted(c).ids)
        BY <1>1, <2>1, <3>1, PostedOK, EffectHoldsOn
      <3>2. CASE NoEffect
        BY <3>2, NothingHoldsOn DEF NoEffect, sessionVars
      <3> QED
        BY <1>5, <3>1, <3>2 DEF PostUncertain
    <2> QED
      BY <1>1, <2>1, <2>2, GotoMoves, BulkKeeps DEF Moves, KeepsLocals
  <1>6. CASE PostRefused(c)
    BY <1>6, BulkOnFailure, NothingHoldsOn DEF PostRefused, At, sessionVars
  <1>7. CASE LookAgain(c)
    <2>1. call[c].pc = "again" /\ HoldsOn(c)
      BY <1>7, NothingHoldsOn DEF LookAgain, At, sessionVars
    <2>2. CASE call[c].command \notin Bulk
      BY <1>1, <2>1, <2>2, BulkKeeps DEF Moves
    <2>3. CASE /\ call[c].command \in Bulk
               /\ \E seen \in ArchivedSeen(c) : seen = Wanted(c) /\ Succeeds(c, "reconciled")
      BY <2>1, <2>3, SeenIsHeld, BulkOnSuccess DEF Success
    <2>4. CASE Fails(c, "indeterminate") \/ GetFails(c)
      BY <2>1, <2>4, BulkOnFailure
    <2> QED
      BY <1>7, <2>2, <2>3, <2>4 DEF LookAgain, Bulk
  <1> QED
    BY <1>2, <1>3, <1>4, <1>5, <1>6, <1>7 DEF Step

LEMMA BulkStart ==
  ASSUME Frame, NEW c \in Caller, Start(c)
  PROVE  /\ BulkOK(c)'
         /\ \A d \in Caller \ {c} : HoldsOn(d)
  <1>1. Begun(c) /\ UNCHANGED archived /\ held \in [Caller -> SUBSET Session]
    BY StartBegins DEF Start, Frame, TypeOK
  <1>2. CASE UNCHANGED held /\ call'[c].command \notin Bulk
    BY <1>1, <1>2, NothingHoldsOn DEF BulkOK
  <1>3. CASE held' = [held EXCEPT ![c] = {s \in call'[c].ids :
                                           archived[s] = Desired(call'[c].command)}]
             /\ call'[c].pc = "look"
    <2>1. /\ held'[c] = {s \in call'[c].ids : archived[s] = Desired(call'[c].command)}
          /\ \A d \in Caller \ {c} : held'[d] = held[d]
      BY <1>1, <1>3
    <2> QED
      BY <1>1, <1>3, <2>1 DEF Begun, BulkOK, HoldsOn
  <1> QED
    BY <1>1, <1>2, <1>3 DEF Begun, Bulk

LEMMA ElsewhereHoldsOn ==
  ASSUME Frame, Elsewhere, NEW c \in Caller
  PROVE  HoldsOn(c)
  <1>1. TypeOK
    BY DEF Frame
  <1>2. CASE \E post \in late : LateEffect(post)
    <2>1. PICK post \in late : LateEffect(post)
      BY <1>2
    <2>2. post.command \in Command /\ post.ids \in SUBSET Session
      BY <1>1, <2>1 DEF TypeOK, Post
    <2> QED
      BY <1>1, <2>1, <2>2, EffectHoldsOn DEF LateEffect
  <1>3. CASE ForeignEffect
    BY <1>1, <1>3, EffectHoldsOn DEF ForeignEffect
  <1>4. CASE UNCHANGED <<archived, held>>
    BY <1>4, NothingHoldsOn
  <1> QED
    BY <1>2, <1>3, <1>4 DEF Elsewhere, Show, SessionMoves, sessionVars

LEMMA StepHoldsOn ==
  ASSUME Frame, NEW c \in Caller, Step(c), NEW d \in Caller
  PROVE  HoldsOn(d)
  <1>1. TypeOK
    BY DEF Frame
  <1>2. CASE At(c, "post") /\ Effect(Posted(c).by, Posted(c).command, Posted(c).ids)
    BY <1>1, <1>2, PostedOK, EffectHoldsOn
  <1>3. CASE UNCHANGED <<archived, held>>
    BY <1>3, NothingHoldsOn
  <1> QED
    BY <1>2, <1>3 DEF Step, Look, ReadPage, ReadBreaks, TakeEvidence, PostAnswered,
                      PostUncertain, PostRefused, LookAgain, Judge, NoEffect, sessionVars

LEMMA BulkNext ==
  ASSUME Frame, [Next]_vars, \A c \in Caller : BulkOK(c)
  PROVE  (\A c \in Caller : BulkOK(c))'
  <1> SUFFICES ASSUME NEW c \in Caller PROVE BulkOK(c)'
    OBVIOUS
  <1>1. CASE Step(c)
    BY <1>1, BulkStep
  <1>2. CASE Start(c)
    BY <1>2, BulkStart
  <1>3. CASE ~ Step(c) /\ ~ Start(c)
    <2>1. call'[c] = call[c]
      BY <1>3, OthersStay
    <2>2. HoldsOn(c)
      <3>1. CASE UNCHANGED vars
        BY <3>1, NothingHoldsOn DEF vars, sessionVars
      <3> QED
        BY <1>3, <3>1, NextSplits, StepHoldsOn, ElsewhereHoldsOn, BulkStart
    <2> QED
      BY <2>1, <2>2, BulkKeeps
  <1> QED
    BY <1>1, <1>2, <1>3

BulkInv == Frame /\ \A c \in Caller : BulkOK(c)

(* A bulk command reported completed found or made each of its sessions as  *)
(* desired while it ran.                                                    *)
THEOREM CompletedBulkWasDesired == Spec => []CompletedWasDesired
  <1>1. Init => BulkInv
    BY FrameInit DEF Init, BulkInv, BulkOK, NoCall, Bulk
  <1>2. BulkInv /\ [Next]_vars => BulkInv'
    BY FrameNext, BulkNext DEF BulkInv
  <1>3. BulkInv => CompletedWasDesired
    BY DEF BulkInv, BulkOK, CompletedWasDesired, Reports, At
  <1> QED
    BY <1>1, <1>2, <1>3, PTL DEF Spec

-----------------------------------------------------------------------------
(* Delivery.  The POST of call n of c is spent once it has been sent.       *)
Spent(c, n) ==
    \/ n < calls[c]
    \/ n = calls[c] /\ call[c].command = "message" /\ call[c].pc \in {"after", "done"}

DeliveryOK ==
    /\ \A a \in Resource : activity[a].by # Foreign => activity[a].kind = "message"
    /\ \A a \in Resource, c \in Caller, n \in 1 .. MaxCalls :
          activity[a].by = <<c, n>> => Spent(c, n)
    /\ \A post \in late : post.command = "message" =>
          /\ post.ids = {}
          /\ \A a \in Resource : activity[a].by # post.by
          /\ \A c \in Caller, n \in 1 .. MaxCalls : post.by = <<c, n>> => Spent(c, n)
    /\ \A a, b \in Resource : activity[a].by = activity[b].by /\ activity[a].by # Foreign
                              => a = b

StaySpent == \A c \in Caller, n \in 1 .. MaxCalls : Spent(c, n) => Spent(c, n)'

LEMMA ForeignIsNoCaller ==
  ASSUME NEW c \in Caller, NEW n \in 1 .. MaxCalls
  PROVE  <<c, n>> # Foreign
  BY CallAssumption DEF Foreign

(* Once sent, a message only looks for evidence and ends.                   *)
LEMMA StepStaysSpent ==
  ASSUME Frame, NEW c \in Caller, Step(c)
  PROVE  StaySpent
  <1>1. Moves(c) /\ UNCHANGED calls /\ TypeOK
    BY StepTurns DEF Turns, Frame
  <1>2. CASE call[c].command = "message" /\ call[c].pc \in {"after", "done"}
    <2>1. ReadPage(c) => call'[c].pc \in {"after", "done"}
      BY <1>2 DEF ReadPage
    <2>2. ReadBreaks(c) => call'[c].pc \in {"after", "done"}
      BY <1>1, <1>2, FailsMoves DEF ReadBreaks, Bulk
    <2>3. Judge(c) => call'[c].pc \in {"after", "done"}
      BY JudgeTurns
    <2>4. call'[c].pc \in {"after", "done"}
      BY <1>2, <2>1, <2>2, <2>3 DEF Step, Look, TakeEvidence, PostAnswered, PostUncertain,
                                    PostRefused, LookAgain, At
    <2> QED
      BY <1>1, <1>2, <2>4 DEF StaySpent, Spent, Moves
  <1>3. CASE ~ (call[c].command = "message" /\ call[c].pc \in {"after", "done"})
    BY <1>1, <1>3 DEF StaySpent, Spent, Moves
  <1> QED
    BY <1>2, <1>3

LEMMA StartStaysSpent ==
  ASSUME Frame, NEW c \in Caller, Start(c)
  PROVE  StaySpent
  <1>1. Begun(c) /\ calls' = [calls EXCEPT ![c] = @ + 1] /\ calls \in [Caller -> 0 .. MaxCalls]
    BY StartBegins DEF Start, Frame, TypeOK
  <1>2. calls[c] \in Nat /\ calls'[c] = calls[c] + 1
        /\ \A d \in Caller \ {c} : calls'[d] = calls[d] /\ call'[d] = call[d]
    BY <1>1, CallAssumption DEF Begun
  <1>3. ASSUME NEW d \in Caller, NEW n \in 1 .. MaxCalls, Spent(d, n)
        PROVE  Spent(d, n)'
    <2>1. CASE d = c
      BY <1>2, <1>3, <2>1, CallAssumption DEF Spent
    <2>2. CASE d # c
      BY <1>2, <1>3, <2>2 DEF Spent
    <2> QED
      BY <2>1, <2>2
  <1> QED
    BY <1>3 DEF StaySpent

(* What an effect writes: one activity at most, a message by its sender.    *)
LEMMA EffectWrites ==
  ASSUME TypeOK, NEW by \in Author, NEW command \in Command, NEW ids \in SUBSET Session,
         Effect(by, command, ids)
  PROVE  \/ UNCHANGED activity
         \/ \E a \in Resource :
              /\ activity[a].kind = "none"
              /\ \A b \in Resource \ {a} : activity'[b] = activity[b]
              /\ \/ activity'[a].by = Foreign
                 \/ command = "message" /\ activity'[a] = [kind |-> "message", by |-> by]
  <1>1. CASE command = "message" /\ MessageEffect(by)
    BY <1>1, WriteOK DEF MessageEffect, Written
  <1>2. CASE command = "approve" /\ ApproveEffect
    <2>1. PICK a \in Resource \ Written :
              /\ activity'[a] = [kind |-> "approval", by |-> Foreign]
              /\ \A b \in Resource \ {a} : activity'[b] = activity[b]
      BY <1>2, WriteOK DEF ApproveEffect, Author
    <2> QED
      BY <2>1 DEF Written
  <1>3. CASE command \in Bulk /\ \E s \in ids : ArchiveEffect(s, Desired(command))
    BY <1>3 DEF ArchiveEffect
  <1> QED
    BY <1>1, <1>2, <1>3 DEF Effect

(* Nothing new is written.                                                  *)
LEMMA DeliveryStays ==
  ASSUME DeliveryOK, StaySpent, UNCHANGED activity, late' \subseteq late
  PROVE  DeliveryOK'
  BY DEF DeliveryOK, StaySpent

(* A POST takes effect that had none before.                                *)
LEMMA DeliveryByEffect ==
  ASSUME TypeOK, DeliveryOK, StaySpent, late' \subseteq late,
         NEW by \in Author, NEW command \in Command, NEW ids \in SUBSET Session,
         Effect(by, command, ids),
         command = "message" /\ by # Foreign =>
           /\ \A a \in Resource : activity[a].by # by
           /\ \A post \in late' : post.command = "message" => post.by # by
           /\ \A c \in Caller, n \in 1 .. MaxCalls : by = <<c, n>> => Spent(c, n)'
  PROVE  DeliveryOK'
  <1>1. CASE UNCHANGED activity
    BY <1>1, DeliveryStays
  <1>2. ASSUME NEW a \in Resource,
               activity[a].kind = "none",
               \A b \in Resource \ {a} : activity'[b] = activity[b],
               activity'[a].by = Foreign
        PROVE  DeliveryOK'
    <2>1. \A b \in Resource : activity'[b].by = activity[b].by
      BY <1>2 DEF DeliveryOK
    <2>2. \A b \in Resource : activity'[b].by # Foreign => activity'[b].kind = activity[b].kind
      BY <1>2
    <2> QED
      BY <2>1, <2>2 DEF DeliveryOK, StaySpent
  <1>3. ASSUME NEW a \in Resource,
               activity[a].kind = "none",
               \A b \in Resource \ {a} : activity'[b] = activity[b],
               command = "message",
               activity'[a] = [kind |-> "message", by |-> by],
               by # Foreign
        PROVE  DeliveryOK'
    <2>1. activity'[a].by = by /\ activity'[a].kind = "message"
      BY <1>3
    <2>2. \A b \in Resource : activity'[b].by # Foreign => activity'[b].kind = "message"
      BY <1>3, <2>1 DEF DeliveryOK
    <2>3. \A b \in Resource, c \in Caller, n \in 1 .. MaxCalls :
             activity'[b].by = <<c, n>> => Spent(c, n)'
      <3>1. \A c \in Caller, n \in 1 .. MaxCalls : by = <<c, n>> => Spent(c, n)'
        BY <1>3
      <3>2. \A b \in Resource \ {a}, c \in Caller, n \in 1 .. MaxCalls :
               activity[b].by = <<c, n>> => Spent(c, n)'
        BY DEF DeliveryOK, StaySpent
      <3> QED
        BY <1>3, <2>1, <3>1, <3>2
    <2>4. \A post \in late' : post.command = "message" =>
             /\ post.ids = {}
             /\ \A b \in Resource : activity'[b].by # post.by
             /\ \A c \in Caller, n \in 1 .. MaxCalls : post.by = <<c, n>> => Spent(c, n)'
      BY <1>3, <2>1 DEF DeliveryOK, StaySpent
    <2>5. \A b, d \in Resource : activity'[b].by = activity'[d].by /\ activity'[b].by # Foreign
                                 => b = d
      BY <1>3, <2>1 DEF DeliveryOK
    <2> QED
      BY <2>2, <2>3, <2>4, <2>5 DEF DeliveryOK
  <1> QED
    BY <1>1, <1>2, <1>3, EffectWrites

LEMMA DeliveryStep ==
  ASSUME Frame, DeliveryOK, NEW c \in Caller, Step(c)
  PROVE  DeliveryOK'
  <1>1. StaySpent /\ Moves(c) /\ UNCHANGED calls /\ TypeOK
    BY StepTurns, StepStaysSpent DEF Turns, Frame
  <1>2. At(c, "post") => /\ calls[c] \in 1 .. MaxCalls /\ calls[c] \in Nat
                         /\ ~ Spent(c, calls[c])
    BY CallAssumption DEF Frame, Shape, At, Spent
  <1>3. ASSUME At(c, "post") PROVE
           /\ \A a \in Resource : activity[a].by # <<c, calls[c]>>
           /\ \A post \in late : post.command = "message" => post.by # <<c, calls[c]>>
    BY <1>2, <1>3 DEF DeliveryOK
  <1>4. ASSUME At(c, "post"), call[c].command = "message", call'[c].pc \in {"after", "done"}
        PROVE  \A d \in Caller, n \in 1 .. MaxCalls : <<c, calls[c]>> = <<d, n>> => Spent(d, n)'
    BY <1>1, <1>4 DEF Spent, Moves
  <1>5. CASE PostAnswered(c)
    <2>1. At(c, "post") /\ UNCHANGED late
          /\ Effect(Posted(c).by, Posted(c).command, Posted(c).ids)
      BY <1>5 DEF PostAnswered
    <2>2. call[c].command = "message" => call'[c].pc = "done"
      BY <1>1, <1>5, SucceedsMoves DEF PostAnswered, Bulk, Success
    <2>3. /\ Posted(c).by = <<c, calls[c]>> /\ Posted(c).by \in Author
          /\ Posted(c).command = call[c].command /\ call[c].command \in Command
          /\ Posted(c).ids \in SUBSET Session
      BY <2>1, PostedOK
    <2> QED
      BY <1>1, <1>3, <1>4, <2>1, <2>2, <2>3, DeliveryByEffect
  <1>6. CASE PostUncertain(c)
    <2>1. At(c, "post") /\ (call[c].command = "message" => Goto(c, "after"))
      BY <1>6 DEF PostUncertain, LookAfter
    <2>2. call[c].command = "message" => call'[c].pc = "after"
      BY <1>1, <2>1, GotoMoves
    <2>3. /\ Posted(c).by = <<c, calls[c]>> /\ Posted(c).by \in Author
          /\ Posted(c).command = call[c].command /\ call[c].command \in Command
          /\ Posted(c).ids \in SUBSET Session
          /\ call[c].command = "message" => Posted(c).ids = {}
      BY <2>1, PostedOK DEF Bulk
    <2>4. CASE Effect(Posted(c).by, Posted(c).command, Posted(c).ids) /\ UNCHANGED late
      BY <1>1, <1>3, <1>4, <2>1, <2>2, <2>3, <2>4, DeliveryByEffect
    <2>5. CASE NoEffect /\ late' \subseteq late
      BY <1>1, <2>5, DeliveryStays DEF NoEffect
    <2>6. CASE NoEffect /\ late' = late \cup {Posted(c)}
      <3>1. UNCHANGED activity
        BY <2>6 DEF NoEffect
      <3>2. call[c].command = "message" =>
              /\ \A a \in Resource : activity[a].by # Posted(c).by
              /\ \A d \in Caller, n \in 1 .. MaxCalls : Posted(c).by = <<d, n>> => Spent(d, n)'
        BY <1>3, <1>4, <2>1, <2>2, <2>3
      <3> QED
        BY <1>1, <2>3, <2>6, <3>1, <3>2 DEF DeliveryOK, StaySpent
    <2> QED
      BY <1>6, <2>4, <2>5, <2>6 DEF PostUncertain
  <1>7. CASE UNCHANGED <<activity, late>>
    BY <1>1, <1>7, DeliveryStays
  <1> QED
    BY <1>5, <1>6, <1>7 DEF Step, Look, ReadPage, ReadBreaks, TakeEvidence, PostRefused,
                            LookAgain, Judge

LEMMA DeliveryLate ==
  ASSUME Frame, DeliveryOK, NEW post \in late, LateEffect(post)
  PROVE  DeliveryOK'
  <1>1. TypeOK /\ post \in Post /\ late \subseteq Post
    BY DEF Frame, TypeOK
  <1>2. StaySpent
    BY DEF StaySpent, Spent, LateEffect
  <1>3. /\ post.by \in Author /\ post.command \in Command /\ post.ids \in SUBSET Session
        /\ post.by # Foreign
    BY <1>1, CallAssumption DEF Post, Author, Foreign
  <1>4. late' = late \ {post} /\ Effect(post.by, post.command, post.ids)
    BY DEF LateEffect
  <1>5. ASSUME post.command = "message", NEW other \in late', other.command = "message"
        PROVE  other.by # post.by
    <2>1. other.ids = post.ids
      BY <1>4, <1>5 DEF DeliveryOK
    <2>2. other \in Post /\ other # post
      BY <1>1, <1>4, <1>5
    <2> QED
      BY <1>1, <1>5, <2>1, <2>2 DEF Post
  <1>6. post.command = "message" =>
          /\ \A a \in Resource : activity[a].by # post.by
          /\ \A c \in Caller, n \in 1 .. MaxCalls : post.by = <<c, n>> => Spent(c, n)'
    BY <1>2 DEF DeliveryOK, StaySpent
  <1> QED
    BY <1>1, <1>2, <1>3, <1>4, <1>5, <1>6, DeliveryByEffect

LEMMA DeliveryNext ==
  ASSUME Frame, DeliveryOK, [Next]_vars
  PROVE  DeliveryOK'
  <1>1. TypeOK
    BY DEF Frame
  <1>2. ASSUME NEW c \in Caller, Start(c) PROVE DeliveryOK'
    BY <1>2, StartStaysSpent, DeliveryStays DEF Start
  <1>3. CASE Elsewhere
    <2>1. UNCHANGED <<call, calls>>
      BY <1>3, ElsewhereWorld
    <2>2. StaySpent
      BY <2>1 DEF StaySpent, Spent
    <2>3. CASE ForeignEffect
      <3>1. PICK command \in Command : Effect(Foreign, command, Session)
        BY <2>3 DEF ForeignEffect
      <3>2. late' \subseteq late /\ Foreign \in Author
        BY <2>3 DEF ForeignEffect, Author
      <3> QED
        BY <1>1, <2>2, <3>1, <3>2, DeliveryByEffect
    <2>4. CASE UNCHANGED <<activity, late>>
      BY <2>2, <2>4, DeliveryStays
    <2> QED
      BY <1>3, <2>3, <2>4, DeliveryLate DEF Elsewhere, Show, SessionMoves
  <1>4. CASE UNCHANGED vars
    <2>1. StaySpent /\ UNCHANGED <<activity, late>>
      BY <1>4 DEF vars, StaySpent, Spent
    <2> QED
      BY <2>1, DeliveryStays
  <1> QED
    BY <1>2, <1>3, <1>4, NextSplits, DeliveryStep

Delivery == Frame /\ DeliveryOK

(* A call delivers its prompt at most once, whenever its POST takes effect. *)
THEOREM DeliversOnce == Spec => []DeliveredOnce
  <1>1. Init => Delivery
    BY FrameInit DEF Init, Delivery, DeliveryOK, Unwritten, Foreign
  <1>2. Delivery /\ [Next]_vars => Delivery'
    BY FrameNext, DeliveryNext DEF Delivery
  <1>3. Delivery => DeliveredOnce
    BY DEF Delivery, DeliveryOK, DeliveredOnce
  <1> QED
    BY <1>1, <1>2, <1>3, PTL DEF Spec

-----------------------------------------------------------------------------
(* Refinement: what RegularRead sees of a read.                             *)
ViewOf(v) ==
    [state |-> CASE v.pc = "page" -> "reading"
                 [] v.pc = "whole" -> "done"
                 [] OTHER -> "idle",
     start |-> IF v.pc \in {"page", "whole"} THEN v.start ELSE {},
     answer |-> IF v.pc = "whole" THEN {a \in Resource : v.yielded[a] > 0} ELSE {}]

LEMMA ViewIsOfReads == View = [r \in Reader |-> ViewOf(read[r])]
  BY DEF View, ViewOf, Yielded

LEMMA ViewMoves ==
  ASSUME NEW c \in Reader, \A r \in Reader \ {c} : read'[r] = read[r]
  PROVE  View' = [View EXCEPT ![c] = ViewOf(read'[c])]
  <1>1. View' = [r \in Reader |-> ViewOf(read'[r])]
    BY DEF View, ViewOf, Yielded
  <1> QED
    BY <1>1, ViewIsOfReads

LEMMA RegularInit == Init => Regular!Init
  <1>1. ViewOf(NoRead) = Regular!Idle
    BY DEF ViewOf, NoRead, Regular!Idle
  <1> QED
    BY <1>1, ViewIsOfReads DEF Init, ListingInit, Regular!Init

(* The view of a read that is answered a page more: nothing, its end with   *)
(* an answer, or its end without one.                                       *)
LEMMA PageRefines ==
  ASSUME Frame, NEW c \in Caller, ReadPage(c)
  PROVE  UNCHANGED View \/ Regular!Answer(c) \/ Regular!End(c)
  <1>1. /\ ListingTypeOK /\ c \in Reader /\ ReadOK(c)
        /\ UNCHANGED listed
        /\ PageServed(c) \/ PageFails(c)
    BY CallersRead DEF Frame, TypeOK, ReadPage, ReadStep
  <1>2. /\ read' \in [Reader -> Read]
        /\ \A r \in Reader \ {c} : read'[r] = read[r]
        /\ read'[c].start = read[c].start
        /\ read'[c].pc # "off"
        /\ ReadOK(c)'
    BY <1>1, ServedOK, FailedOK
  <1>3. View' = [View EXCEPT ![c] = ViewOf(read'[c])]
    BY <1>1, <1>2, ViewMoves
  <1>4. View = [View EXCEPT ![c] = ViewOf(read[c])] /\ View[c] = ViewOf(read[c])
    BY <1>1, ViewIsOfReads
  <1>5. read[c].pc = "page"
    BY <1>1 DEF PageServed, PageFails
  <1>6. CASE read'[c].pc = "page"
    <2>1. ViewOf(read'[c]) = ViewOf(read[c])
      BY <1>2, <1>5, <1>6 DEF ViewOf
    <2> QED
      BY <1>3, <1>4, <2>1
  <1>7. CASE read'[c].pc = "broken"
    <2>1. ViewOf(read'[c]) = Regular!Idle
      BY <1>7 DEF ViewOf, Regular!Idle
    <2> QED
      BY <1>3, <2>1 DEF Regular!End
  <1>8. CASE read'[c].pc = "whole"
    <2> DEFINE answer == {a \in Resource : read'[c].yielded[a] > 0}
    <2>1. read[c].start \subseteq answer /\ answer \subseteq listed
      BY <1>1, <1>2, <1>8 DEF ReadOK, ListingTypeOK
    <2>2. ViewOf(read[c]) = [state |-> "reading", start |-> read[c].start, answer |-> {}]
      BY <1>5 DEF ViewOf
    <2>3. ViewOf(read'[c]) = [state |-> "done", start |-> read[c].start, answer |-> answer]
      BY <1>2, <1>8 DEF ViewOf
    <2> HIDE DEF answer
    <2>4. View[c].state = "reading" /\ View[c].start = read[c].start
      BY <1>4, <2>2
    <2> QED
      BY <1>3, <2>1, <2>3, <2>4 DEF Regular!Answer
  <1>9. read'[c].pc \in {"page", "whole", "broken"}
    BY <1>1, <1>2 DEF Read
  <1> QED
    BY <1>6, <1>7, <1>8, <1>9

LEMMA BeginRefines ==
  ASSUME Frame, NEW c \in Caller, BeginRead(c)
  PROVE  Regular!Begin(c)
  <1>1. ListingTypeOK /\ c \in Reader
    BY CallersRead DEF Frame, TypeOK
  <1>2. ViewOf(read'[c]) = [state |-> "reading", start |-> listed, answer |-> {}]
    BY <1>1, BeginReadOK DEF ViewOf
  <1> QED
    BY <1>1, <1>2, BeginReadOK, ViewMoves DEF Regular!Begin

LEMMA ForgetRefines ==
  ASSUME Frame, NEW c \in Caller, Forget(c)
  PROVE  Regular!End(c)
  <1>1. ListingTypeOK /\ c \in Reader
    BY CallersRead DEF Frame, TypeOK
  <1>2. read'[c] = NoRead /\ \A r \in Reader \ {c} : read'[r] = read[r]
    BY <1>1, ForgetOK
  <1>3. ViewOf(read'[c]) = Regular!Idle
    BY <1>2 DEF ViewOf, NoRead, Regular!Idle
  <1> QED
    BY <1>1, <1>2, <1>3, ViewMoves DEF Regular!End

LEMMA ViewStays == UNCHANGED read => UNCHANGED View
  BY DEF View, Yielded

LEMMA RegularStep ==
  ASSUME Frame, [Next]_vars
  PROVE  [Regular!Next]_<<listed, View>>
  <1>0. ASSUME Evolves,
               \/ UNCHANGED View
               \/ \E c \in Caller : Regular!Begin(c) \/ Regular!Answer(c) \/ Regular!End(c)
        PROVE  Regular!Next
    BY <1>0, CallersRead DEF Regular!Next, Regular!Grow, Evolves
  <1>1. ASSUME NEW c \in Caller, Step(c) PROVE Regular!Next
    <2>1. Evolves
      BY <1>1, StepTurns DEF World
    <2>2. UNCHANGED View \/ Regular!Begin(c) \/ Regular!Answer(c) \/ Regular!End(c)
      BY <1>1, StepReads, ViewStays, BeginRefines, ForgetRefines, PageRefines
    <2> QED
      BY <1>0, <2>1, <2>2
  <1>2. ASSUME NEW c \in Caller, Start(c) PROVE Regular!Next
    <2>1. Evolves
      BY <1>2, NothingEvolves DEF Start, Frame
    <2>2. UNCHANGED View \/ Regular!Begin(c)
      BY <1>2, StartBegins, ViewStays, BeginRefines DEF Frame, Begun
    <2> QED
      BY <1>0, <2>1, <2>2
  <1>3. ASSUME Elsewhere PROVE Regular!Next
    BY <1>0, <1>3, ElsewhereWorld, ViewStays
  <1>4. ASSUME UNCHANGED vars PROVE UNCHANGED <<listed, View>>
    BY <1>4, ViewStays DEF vars
  <1>5. CASE UNCHANGED vars
    BY <1>4, <1>5
  <1> QED
    BY <1>1, <1>2, <1>3, <1>5, NextSplits

(* The reads of any number of callers, with any page size, tokens, retries  *)
(* and failures, are regular reads of a growing log.                        *)
THEOREM ReadsAreRegular == Spec => ImplementsRegularRead
  <1>1. Frame /\ [Next]_vars => [Regular!Next]_<<listed, View>>
    BY RegularStep
  <1> QED
    BY <1>1, RegularInit, FrameHolds, PTL DEF Spec, ImplementsRegularRead, Regular!Spec

-----------------------------------------------------------------------------
(* Calls run down.  What one answered or failed request does to a read.     *)
LEMMA PageTurns ==
  ASSUME ListingTypeOK, NEW r \in Reader, ReadStep(r)
  PROVE  /\ read[r].pc = "page"
         /\ \A q \in Reader \ {r} : read'[q] = read[q]
         /\ \/ read'[r].pc # "page" /\ read'[r].used = read[r].used
            \/ /\ read'[r].pc = "page"
               /\ \E token \in Nat \ read[r].used :
                    /\ Cardinality(read[r].used) + 1 # MaxPages
                    /\ read'[r].used = read[r].used \cup {token}
            \/ /\ read'[r].pc = "page"
               /\ read'[r].used = read[r].used
               /\ read'[r].tries = read[r].tries + 1
  <1> DEFINE old == read[r]
             y == Yield(old.yielded, Page(old.token))
             v == [old EXCEPT !.yielded = y]
  <1>1. old \in Read /\ old.pc = "page" /\ read \in [Reader -> Read]
    BY DEF ListingTypeOK, ReadStep, PageServed, PageFails
  <1>2. old.used \subseteq Nat /\ old.token \in Nat
    BY <1>1 DEF Read
  <1> HIDE DEF y
  <1>3. v.used = old.used /\ v.pc = "page"
    BY <1>1 DEF Read
  <1>4. CASE PageFails(r)
    BY <1>1, <1>4 DEF PageFails, Read
  <1>5. CASE PageServed(r)
    <2>1. CASE read' = [read EXCEPT ![r] = [v EXCEPT !.pc = "whole"]]
      BY <1>1, <2>1 DEF Read
    <2>2. CASE \E token \in {old.token + PageSize} \cup v.used :
                  read' = [read EXCEPT ![r] = FollowToken(v, token)]
      <3>1. PICK token \in {old.token + PageSize} \cup v.used :
                  read' = [read EXCEPT ![r] = FollowToken(v, token)]
        BY <2>2
      <3>2. token \in Nat
        BY <1>2, <1>3, <3>1, PageAssumption
      <3>3. CASE token \in v.used \/ Cardinality(v.used) + 1 = MaxPages
        <4>1. read' = [read EXCEPT ![r] = [v EXCEPT !.pc = "broken"]]
          BY <3>1, <3>3 DEF FollowToken
        <4> QED
          BY <1>1, <4>1 DEF Read
      <3>4. CASE token \notin v.used /\ Cardinality(v.used) + 1 # MaxPages
        <4> DEFINE w == [v EXCEPT !.token = token, !.used = @ \cup {token}, !.tries = 0]
        <4>1. read' = [read EXCEPT ![r] = w]
          BY <3>1, <3>4 DEF FollowToken
        <4>2. w.used = old.used \cup {token} /\ w.pc = "page"
          BY <1>1, <1>3 DEF Read
        <4> HIDE DEF w, v
        <4> QED
          BY <1>1, <1>3, <3>2, <3>4, <4>1, <4>2
      <3> QED
        BY <3>3, <3>4
    <2> QED
      BY <1>5, <2>1, <2>2 DEF PageServed, y
  <1> QED
    BY <1>4, <1>5 DEF ReadStep

(* A read follows fewer tokens than the page limit, and no token twice.     *)
PagesBounded ==
    \A r \in Reader : /\ IsFiniteSet(read[r].used)
                      /\ Cardinality(read[r].used) < MaxPages

LEMMA NoPages ==
  ASSUME NEW v, v.used = {}
  PROVE  IsFiniteSet(v.used) /\ Cardinality(v.used) < MaxPages
  BY FS_EmptySet, PageAssumption

LEMMA PagesNext == Frame /\ PagesBounded /\ [Next]_vars => PagesBounded'
  <1> SUFFICES ASSUME Frame, PagesBounded, [Next]_vars PROVE PagesBounded'
    OBVIOUS
  <1>0. ListingTypeOK /\ (\A r \in Reader : r \in Caller)
    BY CallerAssumption DEF Frame, TypeOK
  <1>1. CASE UNCHANGED read
    BY <1>1 DEF PagesBounded
  <1>2. ASSUME NEW c \in Caller, BeginRead(c) \/ Forget(c) PROVE PagesBounded'
    <2>1. c \in Reader /\ \A r \in Reader \ {c} : read'[r] = read[r]
      BY <1>2, BeginTurns, ForgetTurns, CallersRead
    <2>2. read'[c].used = {}
      <3>1. NoRead.used = {} /\ [NoRead EXCEPT !.pc = "page", !.start = listed].used = {}
        BY DEF NoRead
      <3>2. \E v : v.used = {} /\ read' = [read EXCEPT ![c] = v]
        BY <1>2, <3>1 DEF BeginRead, Forget
      <3> QED
        BY <1>0, <2>1, <3>2 DEF ListingTypeOK
    <2>3. IsFiniteSet(read'[c].used) /\ Cardinality(read'[c].used) < MaxPages
      BY <2>2, NoPages
    <2> QED
      BY <2>1, <2>3 DEF PagesBounded
  <1>3. ASSUME NEW c \in Caller, ReadPage(c) PROVE PagesBounded'
    <2>1. c \in Reader /\ ReadStep(c)
      BY <1>3, CallersRead DEF ReadPage
    <2>2. IsFiniteSet(read[c].used) /\ Cardinality(read[c].used) < MaxPages
          /\ Cardinality(read[c].used) \in Nat
      BY <2>1, FS_CardinalityType DEF PagesBounded
    <2>3. ASSUME NEW token \in Nat \ read[c].used,
                 Cardinality(read[c].used) + 1 # MaxPages
          PROVE  /\ IsFiniteSet(read[c].used \cup {token})
                 /\ Cardinality(read[c].used \cup {token}) < MaxPages
      <3>1. /\ IsFiniteSet(read[c].used \cup {token})
            /\ Cardinality(read[c].used \cup {token}) = Cardinality(read[c].used) + 1
        BY <2>2, FS_AddElement
      <3> QED
        BY <2>2, <2>3, <3>1, PageAssumption
    <2>4. IsFiniteSet(read'[c].used) /\ Cardinality(read'[c].used) < MaxPages
      BY <1>0, <2>1, <2>2, <2>3, PageTurns
    <2> QED
      BY <1>0, <2>1, <2>4, PageTurns DEF PagesBounded
  <1>4. ASSUME NEW c \in Caller, Step(c) PROVE PagesBounded'
    BY <1>1, <1>2, <1>3, <1>4, StepReads
  <1>5. ASSUME NEW c \in Caller, Start(c) PROVE PagesBounded'
    BY <1>1, <1>2, <1>5, StartBegins DEF Frame, Begun
  <1> QED
    BY <1>1, <1>4, <1>5, NextSplits, ElsewhereWorld DEF vars

(* However Jules hands out tokens, a read follows fewer than MaxPages.      *)
THEOREM ReadsAreBounded == Spec => []PagesBounded
  <1>1. Init => PagesBounded
    BY NoPages DEF Init, ListingInit, NoRead, PagesBounded
  <1>2. Frame /\ PagesBounded /\ [Next]_vars => Frame' /\ PagesBounded'
    BY FrameNext, PagesNext
  <1> QED
    BY <1>1, <1>2, FrameInit, PTL DEF Spec

-----------------------------------------------------------------------------
(* How far a call is from its end: the items of a bulk command, the steps   *)
(* of an item, and within a reading its pages and their attempts.           *)
Stage(label) == CASE label = "look"   -> 5
                  [] label = "before" -> 4
                  [] label = "post"   -> 3
                  [] label = "again"  -> 2
                  [] label = "after"  -> 1
                  [] OTHER            -> 0

Nearer(v, u) ==
    \/ v.pc = "done"
    \/ v.todo \subseteq u.todo /\ v.todo # u.todo
    \/ v.todo = u.todo /\ Stage(v.pc) < Stage(u.pc)

(* Well founded with PagesBounded and the bound that the type puts on tries.*)
ReadNearer(v, u) ==
    /\ u.pc = "page"
    /\ \/ v.pc # "page"
       \/ u.used \subseteq v.used /\ u.used # v.used
       \/ u.used = v.used /\ v.tries = u.tries + 1

(* Whatever Jules and the other callers do meanwhile, a step of a call ends *)
(* it or brings it nearer to its end: no look, page, retry or item is taken *)
(* back.                                                                    *)
CallsRunDown ==
    [][\A c \in Caller : call[c].pc \in {"idle", "done"}
         \/ UNCHANGED <<call[c], read[c]>>
         \/ Nearer(call'[c], call[c])
         \/ (call'[c] = call[c] /\ ReadNearer(read'[c], read[c]))]_vars

LEMMA StageLower ==
  ASSUME NEW c \in Caller, Moves(c), Stage(call'[c].pc) < Stage(call[c].pc)
  PROVE  Nearer(call'[c], call[c])
  BY DEF Moves, Nearer

LEMMA NextItemNearer ==
  ASSUME Frame, NEW c \in Caller, NEW bad \in BOOLEAN, NextItem(c, bad),
         call[c].command \in Bulk, call[c].pc \notin {"idle", "done"}
  PROVE  Nearer(call'[c], call[c])
  <1>1. TypeOK /\ Item(c) \in call[c].todo
    BY BulkItem DEF Frame
  <1> QED
    BY <1>1, NextItemMoves DEF Nearer

LEMMA OutcomeNearer ==
  ASSUME Frame, NEW c \in Caller, call[c].pc \notin {"idle", "done"},
         \/ \E outcome \in {"indeterminate", "error"} : Fails(c, outcome)
         \/ \E outcome \in Success : Succeeds(c, outcome)
         \/ GetFails(c)
         \/ \E outcome \in {"completed", "existing", "reconciled", "indeterminate", "error"} :
              End(c, outcome)
  PROVE  Nearer(call'[c], call[c])
  <1>0. TypeOK
    BY DEF Frame
  <1>1. ASSUME NEW bad \in BOOLEAN, NextItem(c, bad), call[c].command \in Bulk
        PROVE  Nearer(call'[c], call[c])
    BY <1>1, NextItemNearer
  <1>2. ASSUME call'[c].pc = "done" PROVE Nearer(call'[c], call[c])
    BY <1>2 DEF Nearer
  <1>3. CASE \E outcome \in {"indeterminate", "error"} : Fails(c, outcome)
    BY <1>0, <1>1, <1>2, <1>3, FailsMoves
  <1>4. CASE \E outcome \in Success : Succeeds(c, outcome)
    BY <1>0, <1>1, <1>2, <1>4, SucceedsMoves
  <1>5. CASE GetFails(c)
    BY <1>0, <1>1, <1>2, <1>5, GetFailsMoves
  <1>6. CASE \E outcome \in {"completed", "existing", "reconciled", "indeterminate",
                             "error"} : End(c, outcome)
    BY <1>0, <1>2, <1>6, EndMoves
  <1> QED
    BY <1>3, <1>4, <1>5, <1>6

LEMMA StepNearer ==
  ASSUME Frame, NEW c \in Caller, Step(c)
  PROVE  \/ Nearer(call'[c], call[c])
         \/ (call'[c] = call[c] /\ ReadNearer(read'[c], read[c]))
  <1>0. TypeOK /\ ListingTypeOK /\ c \in Reader /\ Moves(c)
    BY CallersRead, StepTurns DEF Frame, TypeOK, Turns
  <1>1. ASSUME NEW label \in {"before", "post", "again", "after"}, Goto(c, label),
               Stage(label) < Stage(call[c].pc)
        PROVE  Nearer(call'[c], call[c])
    BY <1>0, <1>1, GotoMoves, StageLower
  <1>2. CASE Look(c)
    <2>1. call[c].pc = "look"
      BY <1>2 DEF Look, At
    <2>2. Stage("before") < Stage("look") /\ Stage("post") < Stage("look")
      BY DEF Stage
    <2>3. \/ Goto(c, "before") \/ Goto(c, "post") \/ End(c, "existing")
          \/ Succeeds(c, "existing") \/ GetFails(c)
      BY <1>2 DEF Look
    <2> QED
      BY <1>1, <2>1, <2>2, <2>3, OutcomeNearer DEF Success
  <1>3. CASE ReadPage(c)
    <2>1. call'[c] = call[c] /\ ReadStep(c)
      BY <1>3 DEF ReadPage
    <2> QED
      BY <1>0, <2>1, PageTurns DEF ReadNearer
  <1>4. CASE ReadBreaks(c)
    BY <1>4, OutcomeNearer DEF ReadBreaks
  <1>5. CASE TakeEvidence(c)
    <2>1. call[c].pc = "before" /\ call'[c].pc = "post"
      BY <1>0, <1>5, TakeEvidenceMoves DEF TakeEvidence, At
    <2>2. Stage("post") < Stage("before")
      BY DEF Stage
    <2> QED
      BY <1>0, <2>1, <2>2, StageLower
  <1>6. CASE PostAnswered(c)
    BY <1>6, OutcomeNearer DEF PostAnswered, At, Success
  <1>7. CASE PostUncertain(c)
    <2>1. call[c].pc = "post" /\ (Goto(c, "after") \/ Goto(c, "again"))
      BY <1>7 DEF PostUncertain, LookAfter, At
    <2>2. Stage("after") < Stage("post") /\ Stage("again") < Stage("post")
      BY DEF Stage
    <2> QED
      BY <1>1, <2>1, <2>2
  <1>8. CASE PostRefused(c)
    BY <1>8, OutcomeNearer DEF PostRefused, At
  <1>9. CASE LookAgain(c)
    <2>1. call[c].pc = "again"
      BY <1>9 DEF LookAgain, At
    <2>2. CASE \E seen \in StateSeen :
            call' = [call EXCEPT ![c].pc = "after", ![c].moved = seen \notin Undecided]
      <3>1. Stage("after") < Stage("again")
        BY DEF Stage
      <3>2. call'[c].pc = "after"
        BY <1>0, <2>2, LookAgainMoves
      <3> QED
        BY <1>0, <2>1, <3>1, <3>2, StageLower
    <2>3. CASE Succeeds(c, "reconciled") \/ Fails(c, "indeterminate") \/ GetFails(c)
      BY <2>1, <2>3, OutcomeNearer DEF Success
    <2> QED
      BY <1>9, <2>2, <2>3 DEF LookAgain
  <1>10. CASE Judge(c)
    BY <1>10, JudgeTurns DEF Nearer
  <1> QED
    BY <1>2, <1>3, <1>4, <1>5, <1>6, <1>7, <1>8, <1>9, <1>10 DEF Step

THEOREM EveryCallRunsDown == Spec => CallsRunDown
  <1>1. ASSUME Frame, [Next]_vars, NEW c \in Caller, call[c].pc \notin {"idle", "done"}
        PROVE  \/ UNCHANGED <<call[c], read[c]>>
               \/ Nearer(call'[c], call[c])
               \/ (call'[c] = call[c] /\ ReadNearer(read'[c], read[c]))
    BY <1>1, StepNearer, OthersStay DEF Start
  <1>2. Frame /\ [Next]_vars
          => \A c \in Caller : call[c].pc \in {"idle", "done"}
               \/ UNCHANGED <<call[c], read[c]>>
               \/ Nearer(call'[c], call[c])
               \/ (call'[c] = call[c] /\ ReadNearer(read'[c], read[c]))
    BY <1>1
  <1> QED
    BY <1>2, FrameHolds, PTL DEF Spec, CallsRunDown

-----------------------------------------------------------------------------
(* If Jules listed an activity as soon as it is written, new evidence would *)
(* prove a new write.                                                       *)
NothingHidden ==
    /\ listed = Written
    /\ \A c \in Caller : call[c].hidden = {}

LEMMA WriteShows ==
  ASSUME TypeOK, ~Lag, listed = Written, NEW kind \in {"message", "approval"},
         NEW by, Write(kind, by)
  PROVE  listed' = Written'
  <1>1. PICK a \in Resource \ Written :
            /\ activity' = [activity EXCEPT ![a] = [kind |-> kind, by |-> by]]
            /\ listed' = listed \cup {a}
    BY DEF Write
  <1>2. activity'[a].kind = kind /\ \A b \in Resource \ {a} : activity'[b] = activity[b]
    BY <1>1 DEF TypeOK
  <1> QED
    BY <1>1, <1>2 DEF Written

LEMMA EffectShows ==
  ASSUME TypeOK, ~Lag, listed = Written, NEW by, NEW command, NEW ids,
         Effect(by, command, ids)
  PROVE  listed' = Written'
  <1>1. UNCHANGED <<listed, activity>> => listed' = Written'
    BY DEF Written
  <1> QED
    BY <1>1, WriteShows DEF Effect, MessageEffect, ApproveEffect, ArchiveEffect

LEMMA HiddenNext ==
  ASSUME ~Lag, Frame, NothingHidden, [Next]_vars
  PROVE  NothingHidden'
  <1>0. TypeOK /\ listed = Written /\ (UNCHANGED <<listed, activity>> => listed' = Written')
    BY DEF Frame, NothingHidden, Written
  <1>1. ASSUME NEW c \in Caller, Step(c) PROVE NothingHidden'
    <2>1. \A d \in Caller : call'[d].hidden = {}
      BY <1>1, StepTurns DEF Turns, Moves, NothingHidden
    <2>2. \/ UNCHANGED <<listed, activity>>
          \/ Effect(Posted(c).by, Posted(c).command, Posted(c).ids)
      BY <1>1 DEF Step, Look, ReadPage, ReadBreaks, TakeEvidence, PostAnswered,
                  PostUncertain, PostRefused, LookAgain, Judge, NoEffect
    <2>3. listed' = Written'
      BY <1>0, <2>2, EffectShows
    <2> QED
      BY <2>1, <2>3 DEF NothingHidden
  <1>2. ASSUME NEW c \in Caller, Start(c) PROVE NothingHidden'
    <2>1. \A d \in Caller : call'[d].hidden = {}
      BY <1>0, <1>2, StartBegins DEF Begun, NothingHidden
    <2> QED
      BY <1>0, <1>2, <2>1 DEF Start, NothingHidden
  <1>3. ASSUME Elsewhere PROVE NothingHidden'
    <2>1. UNCHANGED call
      BY <1>3, ElsewhereWorld
    <2>2. ASSUME NEW post \in late, LateEffect(post) PROVE listed' = Written'
      BY <1>0, <2>2, EffectShows DEF LateEffect
    <2>3. ASSUME ForeignEffect PROVE listed' = Written'
      BY <1>0, <2>3, EffectShows DEF ForeignEffect
    <2>4. ASSUME NEW a \in Resource, Show(a) PROVE listed' = Written'
      BY <1>0, <2>4 DEF Show
    <2>5. ASSUME SessionMoves PROVE listed' = Written'
      BY <1>0, <2>5 DEF SessionMoves
    <2>6. listed' = Written'
      BY <1>3, <2>2, <2>3, <2>4, <2>5 DEF Elsewhere
    <2> QED
      BY <2>1, <2>6 DEF NothingHidden
  <1>4. ASSUME UNCHANGED vars PROVE NothingHidden'
    BY <1>0, <1>4 DEF vars, NothingHidden
  <1> QED
    BY <1>1, <1>2, <1>3, <1>4, NextSplits

(* A message reported reconciled was written after its call began, provided *)
(* Jules lists what is written at once; only a late listing lets history    *)
(* pass for a new write (see the run steering_history).                     *)
THEOREM OnlyLagLetsHistoryProve ==
  ASSUME ~Lag
  PROVE  Spec => []HistoryProvesNothing
  <1>1. Init => NothingHidden
    BY DEF Init, ListingInit, Unwritten, NoCall, Written, NothingHidden
  <1>2. Frame /\ NothingHidden /\ [Next]_vars => Frame' /\ NothingHidden'
    BY FrameNext, HiddenNext
  <1>3. NothingHidden /\ EvidenceIsNew => HistoryProvesNothing
    BY DEF NothingHidden, EvidenceIsNew, HistoryProvesNothing
  <1> QED
    BY <1>1, <1>2, <1>3, FrameInit, OnlyNewEvidence, PTL DEF Spec
=============================================================================
