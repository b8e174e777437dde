-------------------------------- MODULE Listing --------------------------------
(***************************************************************************)
(* Paged reads of one collection (JulesApiClient._iter_pages over          *)
(* _safe_read), which every decision about remote state rests on.  The     *)
(* client asks for page after page, drops names it has yielded before,     *)
(* tries a failed page again, and gives up on a token it was given before, *)
(* on a page it cannot read and after MaxPages pages.                      *)
(*                                                                         *)
(* Jules is external: it lists a resource for good, but at any place, so   *)
(* that a resource listed during a read moves others to a page already     *)
(* read or yet to come; a token is the offset of the next page.  It may    *)
(* hand out an old token again, or one more token after the last page.     *)
(***************************************************************************)
EXTENDS Naturals, FiniteSets

CONSTANTS
    Reader,       \* processes that read
    Resource,     \* resources; their numbers give their order in the listing
    PageSize,     \* page_size
    MaxPages,     \* max_pages
    ReadAttempts  \* attempts of _safe_read

ASSUME ResourceAssumption == Resource \subseteq Nat /\ IsFiniteSet(Resource)
ASSUME PageAssumption == /\ PageSize \in Nat \ {0}
                         /\ MaxPages \in Nat \ {0}
                         /\ ReadAttempts \in Nat \ {0}

VARIABLES
    listed,  \* the resources Jules lists
    read     \* read[r]: the read of reader r

(* token: pageToken, 0 for none; used: seen_tokens; yielded: how often each *)
(* resource was yielded; tries: failed attempts at this page; start: what   *)
(* was listed when the read began (history).                                *)
Read == [pc : {"off", "page", "whole", "broken"},
         token : Nat, used : SUBSET Nat, yielded : [Resource -> Nat],
         tries : 0 .. ReadAttempts - 1, start : SUBSET Resource]
NoRead == [pc |-> "off", token |-> 0, used |-> {}, yielded |-> [a \in Resource |-> 0],
           tries |-> 0, start |-> {}]

ListingTypeOK ==
    /\ listed \subseteq Resource
    /\ read \in [Reader -> Read]

ListingInit ==
    /\ listed = {}
    /\ read = [r \in Reader |-> NoRead]

BeginRead(r) ==
    read' = [read EXCEPT ![r] = [NoRead EXCEPT !.pc = "page", !.start = listed]]
Forget(r) == read' = [read EXCEPT ![r] = NoRead]

Place(a) == Cardinality({b \in listed : b < a})
Page(offset) == {a \in listed : Place(a) \in offset .. offset + PageSize - 1}

(* Fault: a name on two pages is yielded twice.                             *)
YieldEach(yielded, page) ==
    [a \in Resource |-> IF a \in page THEN yielded[a] + 1 ELSE yielded[a]]

Yield(yielded, page) ==
    [a \in Resource |-> IF a \in page /\ yielded[a] = 0 THEN 1 ELSE yielded[a]]

(* Fault: pages are followed without end.                                   *)
FollowForever(v, token) ==
    [v EXCEPT !.token = token, !.used = @ \cup {token}, !.tries = 0]

(* Fault: the page limit ends the read as if that were all.                 *)
FollowQuietly(v, token) ==
    IF token \in v.used \/ Cardinality(v.used) + 1 = MaxPages
    THEN [v EXCEPT !.pc = "whole"]
    ELSE [v EXCEPT !.token = token, !.used = @ \cup {token}, !.tries = 0]

(* The token is new and the page limit not reached, or the read breaks off. *)
FollowToken(v, token) ==
    IF token \in v.used \/ Cardinality(v.used) + 1 = MaxPages
    THEN [v EXCEPT !.pc = "broken"]
    ELSE [v EXCEPT !.token = token, !.used = @ \cup {token}, !.tries = 0]

(* A page is answered, with the token of the next page, or none, or a token *)
(* that makes no sense.                                                     *)
PageServed(r) ==
    LET offset == read[r].token
        v == [read[r] EXCEPT !.yielded = Yield(@, Page(offset))]
        next == offset + PageSize
    IN  /\ read[r].pc = "page"
        /\ \/ /\ next >= Cardinality(listed)
              /\ read' = [read EXCEPT ![r] = [v EXCEPT !.pc = "whole"]]
           \/ \E token \in {next} \cup v.used :
                read' = [read EXCEPT ![r] = FollowToken(v, token)]

(* Fault: one attempt too many.                                             *)
PageFailsOnceMore(r) ==
    /\ read[r].pc = "page"
    /\ \/ /\ read[r].tries < ReadAttempts
          /\ read' = [read EXCEPT ![r].tries = @ + 1]
       \/ read' = [read EXCEPT ![r].pc = "broken"]

(* A request fails: once more if the status allows it and attempts are left.*)
PageFails(r) ==
    /\ read[r].pc = "page"
    /\ \/ /\ read[r].tries + 1 < ReadAttempts
          /\ read' = [read EXCEPT ![r].tries = @ + 1]
       \/ read' = [read EXCEPT ![r].pc = "broken"]

ReadStep(r) == PageServed(r) \/ PageFails(r)

-----------------------------------------------------------------------------
(* A read that ends without an error has yielded everything that was listed *)
(* when it began, wherever resources listed meanwhile moved it, and nothing *)
(* that is not listed: what `before_ids` and every enumeration rely on      *)
(* (README: Sources, Sessions, and Activities fully paginate).              *)
CompleteRead ==
    \A r \in Reader : read[r].pc = "whole" =>
        \A a \in Resource : /\ a \in read[r].start => read[r].yielded[a] > 0
                            /\ read[r].yielded[a] > 0 => a \in listed

(* However often a resource shows up on pages of one read, it is yielded    *)
(* once: message_once counts what is yielded.                               *)
YieldedOnce == \A r \in Reader, a \in Resource : read[r].yielded[a] <= 1
=============================================================================
