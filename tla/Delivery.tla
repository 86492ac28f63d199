------------------------------- MODULE Delivery -------------------------------
(***************************************************************************)
(* Message delivery: POST /sendMessage, GET /permissions/quote,            *)
(* POST /permissions/set and POST /acknowledgeMessage over one message     *)
(* box, one database or wallet call per step.  Boxes share nothing but the *)
(* ids of messages, so one is enough.                                      *)
(*                                                                         *)
(* A fee is abstracted to what sendMessage tells apart: -1 is "blocked",   *)
(* a positive one "pay", any other "free".  A payment is the list of its   *)
(* outputs, of which the outputIndex the client gave and the recipient     *)
(* named by customInstructions matter.  Nothing checks the indexes: a list *)
(* may name one output of the transaction twice.                           *)
(***************************************************************************)
EXTENDS Naturals, Sequences, FiniteSets, Functions, Ranks

CONSTANTS
  Sends,       \* the requests that may be running
  Senders, Recipients,
  Ids,         \* message ids
  Inputs,      \* Inputs[q]: what request q may ask, see InputsAssumption
  DeliveryFees, \* may a request find that the server charges for the box, or not
  DefaultFee,  \* smartDefaultFee of the box
  MaxSets,     \* bound on the permissions that are set
  BoxWide,     \* the sender of a box-wide permission
  None

Fees == {"blocked", "free", "pay"}

ASSUME DeliveryAssumption ==
  /\ DeliveryFees \subseteq BOOLEAN /\ DefaultFee \in Fees \ {"blocked"} /\ MaxSets \in Nat
  /\ BoxWide \notin Senders /\ None \notin Recipients /\ None \notin Fees

(* kind is "send" or "quote"; to and ids have the same length, which may   *)
(* be 0 for a send: recipients and messageId are then empty arrays.        *)
(* payment is None if it is missing or lists nothing.                      *)
ASSUME InputsAssumption ==
  \A q \in Sends : \A in \in Inputs[q] :
    /\ in.kind \in {"send", "quote"} /\ in.from \in Senders
    /\ in.to \in Seq(Recipients) /\ in.ids \in Seq(Ids)
    /\ Len(in.to) = Len(in.ids) /\ (in.kind = "quote" => Len(in.to) > 0)
    /\ in.payment # None =>
         /\ in.payment \in Seq([index : Nat, for : Recipients \cup {None}])
         /\ Len(in.payment) > 0

VARIABLES
  perms,    \* perms[r][s]: the fee r set for sender s, or box-wide; None without a row
  inbox,    \* inbox[m]: the recipient of the stored message m, or None
  send,     \* send[q]: a running request
  sets,     \* how many permissions were set
  (* observers, never read by the server *)
  chosen,   \* chosen[r][s]: what r itself last chose
  standing  \* standing[q]: the rows that have blocked q's sender since it began

vars == <<perms, inbox, send, sets, chosen, standing>>

Rows == [Recipients -> [Senders \cup {BoxWide} -> Fees \cup {None}]]
NoRows == [r \in Recipients |-> [s \in Senders \cup {BoxWide} |-> None]]

Idle ==
  [at |-> "idle", in |-> None, deliveryFee |-> FALSE, fees |-> <<>>, outputs |-> <<>>, i |-> 1]


(* The rows that keep a sender out: its own, or else the box-wide one.     *)
Blocking(table, s) ==
  {<<r, s>> : r \in {x \in Recipients : table[x][s] = "blocked"}}
    \cup {<<r, BoxWide>> : r \in {x \in Recipients :
                                    table[x][s] = None /\ table[x][BoxWide] = "blocked"}}

(* Ghost state: a block stands as long as its row does.                    *)
Observe ==
  standing' = [q \in Sends |->
    IF send'[q].at = "idle" THEN {}
    ELSE IF send[q].at = "idle" THEN Blocking(perms', send'[q].in.from)
    ELSE standing[q] \cap Blocking(perms', send'[q].in.from)]

-----------------------------------------------------------------------------
Init ==
  /\ perms = NoRows /\ chosen = NoRows
  /\ inbox = [m \in Ids |-> None]
  /\ send = [q \in Sends |-> Idle]
  /\ sets = 0
  /\ standing = [q \in Sends |-> {}]

(* The store: a permission is read, and upserted; messages are deleted if  *)
(* they are the caller's; a message is inserted under an id that is free.  *)
GetPermission(r, s) == perms[r][s]
Upserted(r, s, fee) == [perms EXCEPT ![r][s] = fee]
Deleted(r, S) == [m \in Ids |-> IF m \in S /\ inbox[m] = r THEN None ELSE inbox[m]]
Inserted(m, r) == [inbox EXCEPT ![m] = r]

(* POST /permissions/set.                                                  *)
SetPermission(r) ==
  /\ sets < MaxSets
  /\ sets' = sets + 1
  /\ \E s \in Senders \cup {BoxWide}, f \in Fees :
       /\ perms' = Upserted(r, s, f)
       /\ chosen' = [chosen EXCEPT ![r][s] = f]
  /\ UNCHANGED <<inbox, send>>

(* POST /acknowledgeMessage.                                               *)
AcknowledgeMessage(r) ==
  /\ \E S \in SUBSET Ids \ {{}} : inbox' = Deleted(r, S)
  /\ UNCHANGED <<perms, send, sets, chosen>>

-----------------------------------------------------------------------------
Goes(q, p) ==
  /\ send' = [send EXCEPT ![q] = p]
  /\ UNCHANGED <<sets, chosen>>

(* A request that passed validation, and GetServerDeliveryFee.  Nothing in *)
(* the server writes that fee; an operator may change it between requests. *)
(* Without recipients there are no fees to settle.                         *)
Started(in, fee) ==
  [Idle EXCEPT !.at = IF in.to = <<>> THEN "decide" ELSE "sender", !.in = in, !.deliveryFee = fee]

Start(q) ==
  /\ send[q].at = "idle"
  /\ \E in \in Inputs[q], fee \in DeliveryFees : Goes(q, Started(in, fee))
  /\ UNCHANGED <<perms, inbox>>

(* recipientFee, for the recipient at position i: fee is its result.       *)
Recipient(p) == p.in.to[p.i]

Fee(p, fee) ==
  LET next == IF p.i < Len(p.in.to) THEN "sender" ELSE "decide"
  IN [p EXCEPT !.at = next, !.fees = Append(@, fee), !.i = IF next = "sender" THEN @ + 1 ELSE 1]

FeeFromSender(q) ==
  LET p == send[q]
      row == GetPermission(Recipient(p), p.in.from)
  IN /\ p.at = "sender"
     /\ Goes(q, IF row # None THEN Fee(p, row) ELSE [p EXCEPT !.at = "box"])
     /\ UNCHANGED <<perms, inbox>>

FeeFromBox(q) ==
  LET p == send[q]
      row == GetPermission(Recipient(p), BoxWide)
  IN /\ p.at = "box"
     /\ Goes(q, IF row # None THEN Fee(p, row) ELSE [p EXCEPT !.at = "default"])
     /\ UNCHANGED <<perms, inbox>>

(* Mutant: the default is written over whatever is there.                  *)
IfAbsentOverwrites(row, fee) == fee

(* SetPermissionIfAbsent: an existing row is never touched.                *)
IfAbsent(row, fee) == IF row = None THEN fee ELSE row

FeeDefault(q) ==
  LET p == send[q] IN
  /\ p.at = "default"
  /\ perms' = Upserted(Recipient(p), BoxWide, IfAbsent(GetPermission(Recipient(p), BoxWide), DefaultFee))
  /\ Goes(q, [p EXCEPT !.at = "reread"])
  /\ UNCHANGED inbox

(* Mutant: the default is returned, without reading the row again.         *)
FeeRereadDefault(q) ==
  /\ send[q].at = "reread"
  /\ Goes(q, Fee(send[q], DefaultFee))
  /\ UNCHANGED <<perms, inbox>>

FeeReread(q) ==
  LET p == send[q]
      row == GetPermission(Recipient(p), BoxWide)
  IN /\ p.at = "reread"
     /\ Goes(q, Fee(p, IF row # None THEN row ELSE DefaultFee))
     /\ UNCHANGED <<perms, inbox>>

-----------------------------------------------------------------------------
(* Mutant: outputs that are spoken for are handed out by position too.     *)
BuildPerRecipientOutputsReused(payment, deliveryFee, payable) ==
  LET side == {j \in DOMAIN payment : deliveryFee => j > 1}
      tagged == {j \in side : payment[j].for # None}
      named == Range(payable) \cap {payment[j].for : j \in tagged}
      unnamed == Entries(payable, {k \in DOMAIN payable : payable[k] \notin named})
      rest == side \ tagged
      places(r) == {k \in DOMAIN unnamed : unnamed[k] = r}
  IN IF Cardinality(rest) < Len(unnamed) THEN None
     ELSE [r \in Range(payable) |->
            IF r \in named THEN {j \in tagged : payment[j].for = r}
            ELSE {Nth(rest, Nth(places(r), Cardinality(places(r))))}]

(* buildPerRecipientOutputs: an output that names its recipient is that    *)
(* one's, and its index is used; the other recipients who are owed a fee   *)
(* get the outputs whose index is not used, in order, and None says that   *)
(* there are too few.  A recipient listed twice has the outputs of its     *)
(* last place.  Outputs are identified by their place in the list.         *)
BuildPerRecipientOutputs(payment, deliveryFee, payable) ==
  LET side == {j \in DOMAIN payment : deliveryFee => j > 1}
      tagged == {j \in side : payment[j].for # None}
      usedIndexes == {payment[j].index : j \in tagged}
      named == Range(payable) \cap {payment[j].for : j \in tagged}
      unnamed == Entries(payable, {k \in DOMAIN payable : payable[k] \notin named})
      remaining == {j \in side : payment[j].index \notin usedIndexes}
      places(r) == {k \in DOMAIN unnamed : unnamed[k] = r}
      last(r) == Nth(places(r), Cardinality(places(r)))
  IN IF Cardinality(remaining) < Len(unnamed) THEN None
     ELSE [r \in Range(payable) |->
            IF r \in named THEN {j \in tagged : payment[j].for = r} ELSE {Nth(remaining, last(r))}]

(* The recipients that are owed a fee, in order.                           *)
Payable(p) == Entries(p.in.to, {i \in DOMAIN p.in.to : p.fees[i] = "pay"})

(* Mutant: one recipient that lets the sender in is enough.                *)
AnyBlockedAll(p) == \A i \in DOMAIN p.fees : p.fees[i] = "blocked"

AnyBlocked(p) == \E i \in DOMAIN p.fees : p.fees[i] = "blocked"

(* GET /permissions/quote is answered with the fees.                       *)
Quote(q) ==
  /\ send[q].at = "decide" /\ send[q].in.kind = "quote"
  /\ Goes(q, Idle)
  /\ UNCHANGED <<perms, inbox>>

(* The inserts begin; without recipients the request is answered at once.  *)
Inserting(p) == IF p.in.to = <<>> THEN Idle ELSE [p EXCEPT !.at = "insert"]

(* A send is refused, goes straight to the inserts, or shows a payment     *)
(* first.                                                                  *)
Decide(q) ==
  LET p == send[q]
      charged == p.deliveryFee \/ Payable(p) # <<>>
  IN /\ p.at = "decide" /\ p.in.kind = "send"
     /\ \/ /\ AnyBlocked(p) \/ (charged /\ p.in.payment = None)
           /\ Goes(q, Idle)
        \/ /\ ~ AnyBlocked(p) /\ ~ charged
           /\ Goes(q, Inserting(p))
        \/ /\ ~ AnyBlocked(p) /\ charged /\ p.in.payment # None
           /\ Goes(q, [p EXCEPT !.at = IF p.deliveryFee THEN "internalize" ELSE "map"])
     /\ UNCHANGED <<perms, inbox>>

(* The wallet takes the server's output, the first one, or does not.       *)
InternalizeAction(q) ==
  /\ send[q].at = "internalize"
  /\ \/ Goes(q, [send[q] EXCEPT !.at = "map"])
     \/ Goes(q, Idle)
  /\ UNCHANGED <<perms, inbox>>

(* Outputs for every recipient that is owed a fee, or ERR_INSUFFICIENT_OUTPUTS. *)
MapOutputs(q) ==
  LET p == send[q]
      outputs == BuildPerRecipientOutputs(p.in.payment, p.deliveryFee, Payable(p))
  IN /\ p.at = "map"
     /\ \/ /\ outputs # None
           /\ Goes(q, Inserting([p EXCEPT !.outputs = outputs]))
        \/ /\ outputs = None
           /\ Goes(q, Idle)
     /\ UNCHANGED <<perms, inbox>>

(* Mutant: one message too many.                                           *)
LastInsertOff(p) == p.i > Len(p.in.to)

LastInsert(p) == p.i = Len(p.in.to)

(* One message per recipient, stored with the outputs mapped to it; the    *)
(* first id that is taken ends the request.                                *)
InsertMessage(q) ==
  LET p == send[q]
      m == p.in.ids[p.i]
  IN /\ p.at = "insert"
     /\ \/ /\ inbox[m] = None
           /\ inbox' = Inserted(m, Recipient(p))
           /\ Goes(q, IF LastInsert(p) THEN Idle ELSE [p EXCEPT !.i = @ + 1])
        \/ /\ inbox[m] # None
           /\ Goes(q, Idle)
           /\ UNCHANGED inbox
     /\ UNCHANGED perms

(* A call fails, after which a write may have happened; until the inserts  *)
(* the client's going away is enough.                                      *)
Fails(q) ==
  LET p == send[q] IN
  /\ p.at \notin {"idle", "decide", "map"}
  /\ \/ UNCHANGED inbox
     \/ /\ p.at = "insert" /\ inbox[p.in.ids[p.i]] = None
        /\ inbox' = Inserted(p.in.ids[p.i], Recipient(p))
  /\ Goes(q, Idle)
  /\ UNCHANGED perms

Step ==
  \/ \E r \in Recipients : SetPermission(r) \/ AcknowledgeMessage(r)
  \/ \E q \in Sends :
       \/ Start(q)
       \/ FeeFromSender(q) \/ FeeFromBox(q) \/ FeeDefault(q) \/ FeeReread(q)
       \/ Quote(q) \/ Decide(q) \/ InternalizeAction(q) \/ MapOutputs(q) \/ InsertMessage(q)
       \/ Fails(q)

Next == Step /\ Observe

Spec == Init /\ [][Next]_vars

-----------------------------------------------------------------------------
(* Every variable has its type, a request that settles fees or inserts is  *)
(* at one of its recipients, and it has settled the fees of those it has   *)
(* passed.                                                                 *)
TypeOK ==
  /\ perms \in Rows /\ chosen \in Rows
  /\ inbox \in [Ids -> Recipients \cup {None}]
  /\ \A q \in Sends :
       LET p == send[q] IN
       p.at # "idle" =>
         /\ p.at \in {"sender", "box", "default", "reread", "decide", "internalize", "map", "insert"}
         /\ p.in \in Inputs[q]
         /\ IF p.at \in {"decide", "internalize", "map"} THEN p.i = 1 ELSE p.i \in DOMAIN p.in.to
         /\ p.fees \in Seq(Fees)
         /\ Len(p.fees) = IF p.at \in {"decide", "internalize", "map", "insert"} THEN Len(p.in.to) ELSE p.i - 1
  /\ sets \in 0 .. MaxSets

(* What a recipient chose stays until it chooses again: a sender whose     *)
(* request found no permission writes the default back, at any later time, *)
(* without undoing a permission set in between.                            *)
ChoiceKept ==
  \A r \in Recipients, s \in Senders \cup {BoxWide} :
    chosen[r][s] # None => perms[r][s] = chosen[r][s]

(* No message is on its way to a recipient who has kept the sender out by  *)
(* one and the same permission ever since the request began, whatever else *)
(* changed meanwhile.                                                      *)
StandingBlockHonoured ==
  \A q \in Sends :
    send[q].at = "insert" =>
      \A row \in standing[q] : row[1] \notin Range(send[q].in.to)

(* Every fee a request settles on is, at that moment, on file: a default   *)
(* is charged only while the box-wide row says so, and never against a     *)
(* block that landed before the default was written back.                  *)
FeeIsOnFile ==
  [][\A q \in Sends :
       LET p == send[q]
           r == Recipient(p)
       IN send'[q].at # "idle" /\ Len(send'[q].fees) > Len(p.fees)
            => send'[q].fees[Len(send'[q].fees)] \in {perms[r][p.in.from], perms[r][BoxWide]}]_vars

(* A recipient that is owed a fee is handed an output, no entry of the     *)
(* payment goes to two recipients, one that names its recipient goes to    *)
(* nobody else, and the server's own entry, the first, goes to none.  Two  *)
(* recipients hold the same output of the transaction only if the payment  *)
(* lists it twice, and never one by name and the other by position; an     *)
(* entry that repeats the index of the server's is handed out.             *)
OutputsHandedOnce ==
  \A q \in Sends :
    LET p == send[q] IN
    p.at = "insert" =>
      \A i \in DOMAIN p.in.to :
        LET r == p.in.to[i] IN
        p.fees[i] = "pay" =>
          /\ p.outputs[r] # {}
          /\ \A j \in p.outputs[r] :
               /\ p.deliveryFee => j > 1
               /\ p.in.payment[j].for \in {None, r}
               /\ \A s \in DOMAIN p.outputs \ {r} : \A k \in p.outputs[s] :
                    p.in.payment[j].index = p.in.payment[k].index
                      => j # k /\ (p.in.payment[j].for = None <=> p.in.payment[k].for = None)

(* Once the server has taken its fee the messages are stored, failures of  *)
(* the database aside: a request with recipients goes on to the inserts.   *)
FeeTakenMessageStored ==
  [][\A q \in Sends :
       send[q].at = "map" /\ send[q].deliveryFee /\ send[q].in.to # <<>>
         => send'[q].at \in {"map", "insert"}]_vars
=============================================================================
