-------------------------------- MODULE Paging --------------------------------
(***************************************************************************)
(* POST /listMessages over one box: how a request is bounded, which rows a *)
(* page holds and what it says of the next one, while messages arrive and  *)
(* are acknowledged.  Clients follow nextOffset from page to page.         *)
(*                                                                         *)
(* Messages are numbers, in the order of their ids, and a message has a    *)
(* size.  A JSON value is None when absent or null, or says whether it is  *)
(* a whole number, and which.  The bounds are the ones config.Load makes   *)
(* of the environment.                                                     *)
(***************************************************************************)
EXTENDS Config, Sequences, FiniteSets, Functions, Ranks

CONSTANTS
  N, Size,            \* how many messages there are, and the bytes each takes in a page
  Walkers,            \* the clients that list the box
  Requests,           \* what a walker may begin with: limit, offset and skip
  Environments,       \* the environments the server is started in
  Overhead,           \* listMessagesResponseByteOverhead
  SafeInteger,        \* safeIntegerLimit
  MaxTime, MaxLag,    \* bounds: the clock, and how late a timestamp may be seen
  None

Msgs == 1 .. N
Values == [whole: BOOLEAN, n: Int] \cup {None}

ASSUME PagingAssumption ==
  /\ N \in Nat /\ Size \in [Msgs -> Nat \ {0}]
  /\ \A e \in Environments :
       /\ DOMAIN e \subseteq STRING
       /\ \A k \in ListNumbers \cap DOMAIN e : e[k] = Malformed \/ e[k] \in Int
  /\ Overhead \in Nat /\ SafeInteger \in Nat /\ SafeInteger >= N /\ SafeInteger > 0
  /\ MaxTime \in Nat \ {0} /\ MaxLag \in Nat
  /\ Requests \subseteq [limit: Values, offset: Values, skip: Values]

Paginations == [limit: Nat \ {0}, offset: Nat]
Pages == [messages: Seq(Msgs), nextOffset: Nat, hasMore: BOOLEAN]

ASSUME NoneIsNothing == None \notin Int \cup [whole: BOOLEAN, n: Int] \cup Paginations \cup Pages

VARIABLES
  bounds,   \* ListMessagesConfig, set once; -1 is no cap
  box,      \* box[m]: createdAt of the stored message m, or None
  sent,     \* the messages that were ever sent
  clock,
  walk      \* walk[c]: a client, where it is and, to observe it, what it has seen

vars == <<bounds, box, sent, clock, walk>>

-----------------------------------------------------------------------------
(* Every backend sorts by createdAt, then by messageId.                    *)
Before(a, b) == box[a] < box[b] \/ (box[a] = box[b] /\ a < b)

Stored == {m \in Msgs : box[m] # None}
Rank(m) == Cardinality({x \in Stored : Before(x, m)})

(* ListMessages of the store: the whole box, in order.                     *)
StoredInOrder == [k \in 1 .. Cardinality(Stored) |-> CHOOSE m \in Stored : Rank(m) = k - 1]

(* A request may ask for one message only.                                 *)
Matching(all, only) == Entries(all, {i \in DOMAIN all : only = None \/ all[i] = only})

(* PageMessages: fetchLimit rows from the offset-th on, as far as there are. *)
PageMessages(all, offset, fetchLimit, only) ==
  LET matching == Matching(all, only)
      places == {i \in DOMAIN matching : i > offset /\ i <= offset + fetchLimit}
  IN [i \in 1 .. Cardinality(places) |-> matching[offset + i]]

(* Mutant: the end of the page is not moved by its beginning.              *)
FallbackEndFixed(offset, fetchLimit) == fetchLimit

FallbackEnd(offset, fetchLimit) == offset + fetchLimit

(* fallbackPageMessages slices the whole box, for a store without a pager. *)
FallbackPageMessages(all, offset, fetchLimit, only) ==
  LET matching == Matching(all, only)
      end == FallbackEnd(offset, fetchLimit)
  IN IF offset >= Len(matching) THEN <<>>
     ELSE SubSeq(matching, offset + 1, IF end > Len(matching) THEN Len(matching) ELSE end)

-----------------------------------------------------------------------------
(* boundedInteger, and parseListPagination: a limit and an offset, or None *)
(* when the request is refused.                                            *)
Bounded(v, min, max) ==
  /\ v.whole /\ v.n <= SafeInteger /\ v.n >= - SafeInteger
  /\ v.n >= min /\ (max # -1 => v.n <= max)

Whole(n) == [whole |-> TRUE, n |-> n]

(* A default without a cap is the largest safe integer.                    *)
ConfiguredDefault == IF bounds.DefaultLimit = -1 THEN SafeInteger ELSE bounds.DefaultLimit

ParseListPagination(req) ==
  LET limit == IF req.limit = None THEN Whole(ConfiguredDefault) ELSE req.limit
      offset == IF req.offset # None THEN req.offset ELSE IF req.skip # None THEN req.skip ELSE Whole(0)
  IN IF \/ req.offset # None /\ req.skip # None /\ req.offset # req.skip
        \/ ~ Bounded(limit, 1, bounds.MaxLimit)
        \/ ~ Bounded(offset, 0, bounds.MaxOffset)
     THEN None ELSE [limit |-> limit.n, offset |-> offset.n]

(* encodedBytes of a page with the first k rows.                           *)
EncodedBytes(rows) ==
  LET bytes[k \in 0 .. Len(rows)] == IF k = 0 THEN Overhead ELSE bytes[k - 1] + Size[rows[k]]
  IN bytes

(* readMessagePage: rows up to the limit, while they fit the budget.       *)
Fits(rows, limit) ==
  {k \in 0 .. Len(rows) :
     /\ k <= limit
     /\ k > 0 /\ bounds.MaxResponseBytes # -1 => EncodedBytes(rows)[k] <= bounds.MaxResponseBytes}

Fitting(rows, limit) == CHOOSE k \in Fits(rows, limit) : \A j \in Fits(rows, limit) : j <= k

(* Mutant: a first row that does not fit ends the page like any other.     *)
TooLargeNever(out, rows) == FALSE

(* A first row that does not fit is ERR_MESSAGE_RESPONSE_TOO_LARGE.        *)
TooLarge(out, rows) == out = 0 /\ rows # <<>>

(* Mutant: the next page begins a full limit further on.                   *)
NextOffsetFull(pag, out) == pag.offset + pag.limit

NextOffset(pag, out) == pag.offset + out

ReadMessagePage(pag) ==
  LET rows == PageMessages(StoredInOrder, pag.offset, pag.limit + 1, None)
      out == Fitting(rows, pag.limit)
  IN IF TooLarge(out, rows) THEN None
     ELSE [messages |-> SubSeq(rows, 1, out), nextOffset |-> NextOffset(pag, out), hasMore |-> out < Len(rows)]

-----------------------------------------------------------------------------
IdleWalk ==
  [at |-> "idle", asked |-> None, limit |-> 0, from |-> 0, next |-> 0,
   due |-> {}, seen |-> {}, shifted |-> FALSE]

(* main sets the bounds of the configuration it has loaded.                *)
Init ==
  /\ \E e \in Environments : bounds = ListBounds(e) /\ ~ BoundsRefused(bounds)
  /\ box = [m \in Msgs |-> None]
  /\ sent = {}
  /\ clock = 1
  /\ walk = [c \in Walkers |-> IdleWalk]

Tick ==
  /\ clock < MaxTime
  /\ clock' = clock + 1
  /\ UNCHANGED <<bounds, box, sent, walk>>

(* A message is stored under the time its replica read, which may be a     *)
(* while ago; messages of one millisecond are in the order of their ids.   *)
InsertMessage(m) ==
  /\ m \notin sent
  /\ sent' = sent \cup {m}
  /\ \E at \in (clock - MaxLag) .. clock : box' = [box EXCEPT ![m] = at]
  /\ UNCHANGED <<bounds, clock, walk>>

(* POST /acknowledgeMessage, of one or several messages.  A walk is        *)
(* shifted by one that ranks before the place it goes on from.             *)
AcknowledgeMessage(S) ==
  /\ S # {} /\ S \subseteq Stored
  /\ box' = [m \in Msgs |-> IF m \in S THEN None ELSE box[m]]
  /\ walk' = [c \in Walkers |->
       [walk[c] EXCEPT !.shifted = @ \/ \E m \in S : Rank(m) < walk[c].next,
                       !.due = @ \ S]]
  /\ UNCHANGED <<bounds, sent, clock>>

-----------------------------------------------------------------------------
(* A page is shown to a walker: the walk goes on, ends, or is refused.     *)
Show(c, w, pag) ==
  LET page == ReadMessagePage(pag) IN
  /\ walk' = [walk EXCEPT ![c] =
       IF page = None THEN [w EXCEPT !.at = "refused"]
       ELSE [w EXCEPT !.at = IF page.hasMore THEN "more" ELSE "done",
                      !.limit = pag.limit, !.from = pag.offset, !.next = page.nextOffset,
                      !.seen = @ \cup Range(page.messages)]]
  /\ UNCHANGED <<bounds, box, sent, clock>>

(* The first page of a walk.                                               *)
ListMessages(c) ==
  /\ walk[c].at = "idle"
  /\ \E req \in Requests :
       LET pag == ParseListPagination(req) IN
       \/ /\ pag = None
          /\ walk' = [walk EXCEPT ![c].at = "refused", ![c].asked = req]
          /\ UNCHANGED <<bounds, box, sent, clock>>
       \/ /\ pag # None
          /\ Show(c, [IdleWalk EXCEPT !.asked = req, !.due = {m \in Stored : Rank(m) >= pag.offset}], pag)

(* The page at nextOffset, which may lie beyond the largest offset.        *)
ListMore(c) ==
  LET w == walk[c]
      pag == ParseListPagination([limit |-> Whole(w.limit), offset |-> Whole(w.next), skip |-> None])
  IN /\ w.at = "more"
     /\ \/ /\ pag = None
           /\ walk' = [walk EXCEPT ![c].at = "refused"]
           /\ UNCHANGED <<bounds, box, sent, clock>>
        \/ /\ pag # None
           /\ Show(c, w, pag)

WalkEnds(c) ==
  /\ walk[c].at \in {"done", "refused"}
  /\ walk' = [walk EXCEPT ![c] = IdleWalk]
  /\ UNCHANGED <<bounds, box, sent, clock>>

Next ==
  \/ Tick
  \/ \E m \in Msgs : InsertMessage(m)
  \/ \E S \in SUBSET Msgs : AcknowledgeMessage(S)
  \/ \E c \in Walkers : ListMessages(c) \/ ListMore(c) \/ WalkEnds(c)

Spec == Init /\ [][Next]_vars

-----------------------------------------------------------------------------
(* A walk to the last page shows every message that was in its range when  *)
(* it began and is still there: whatever arrives meanwhile, under whatever *)
(* timestamp, and wherever the budget cuts the pages; only messages that   *)
(* are acknowledged behind it can make it pass one over.                   *)
WalkShowsAll ==
  \A c \in Walkers : walk[c].at = "done" /\ ~ walk[c].shifted => walk[c].due \subseteq walk[c].seen

(* A page that promises more has shown something: its nextOffset is larger *)
(* than the offset it was read at, so no walk is sent back to where it     *)
(* was, also not by a message that is larger than a page may be.           *)
WalkMovesOn == \A c \in Walkers : walk[c].at = "more" => walk[c].next > walk[c].from

(* A client that names no limit and no offset, and one that goes on where  *)
(* it was told to, is refused in four cases only: its page begins past the *)
(* largest offset, or with a message no page can hold; or the default,     *)
(* which config.Load lets through, is "no cap" where the limit has one, or *)
(* is beyond the safe integers.                                            *)
PlainlyAsked == [limit |-> None, offset |-> None, skip |-> None]

RefusedAtBoundsOnly ==
  [][\A c \in Walkers :
       LET first == walk[c].at = "idle"
           from == walk[c].next
       IN walk'[c].at = "refused" /\ (IF first THEN walk'[c].asked = PlainlyAsked ELSE walk[c].at = "more") =>
            \/ bounds.MaxOffset # -1 /\ from > bounds.MaxOffset
            \/ /\ bounds.MaxResponseBytes # -1
               /\ \E m \in Stored : Rank(m) = from /\ Overhead + Size[m] > bounds.MaxResponseBytes
            \/ first /\ bounds.DefaultLimit = -1 /\ bounds.MaxLimit # -1
            \/ first /\ bounds.DefaultLimit > SafeInteger]_vars

(* A store without a pager is paged the same way, also for limits and      *)
(* offsets past the end and for one message asked for by id.               *)
PagersAgree ==
  LET all == StoredInOrder
      numbers == 0 .. (Len(all) + 1)
  IN \A offset \in numbers, fetchLimit \in numbers, only \in Msgs \cup {None} :
       FallbackPageMessages(all, offset, fetchLimit, only) = PageMessages(all, offset, fetchLimit, only)
=============================================================================
