---------------------------- MODULE DeliveryProofs ----------------------------
(***************************************************************************)
(* Proofs about Delivery, for every set of senders, recipients, messages   *)
(* and running requests, whatever the requests ask.                        *)
(***************************************************************************)
EXTENDS Delivery, RanksProofs

-----------------------------------------------------------------------------
(* A request in the middle of its work has its six fields, and has settled *)
(* the fees of the recipients before the one it is at.                     *)
Working == {"sender", "box", "default", "reread", "decide", "internalize", "map", "insert"}
Settled == {"decide", "internalize", "map", "insert"}

IsRequest(p) ==
  p \in [at : {p.at}, in : {p.in}, deliveryFee : {p.deliveryFee}, fees : {p.fees},
         outputs : {p.outputs}, i : {p.i}]

RequestTyped(q, p) ==
  /\ p.at \in Working
  /\ p.in \in Inputs[q]
  /\ IF p.at \in {"decide", "internalize", "map"} THEN p.i = 1 ELSE p.i \in DOMAIN p.in.to
  /\ p.fees \in Seq(Fees)
  /\ Len(p.fees) = IF p.at \in Settled THEN Len(p.in.to) ELSE p.i - 1

(* What a request has seen of a block that stood all the time, rows being  *)
(* the blocks: a recipient it has passed is down as blocked; the one it is *)
(* at, if the sender's own row was read, is blocked box-wide, and if both  *)
(* were read, not at all.  A request that went past the fees has no        *)
(* blocked one, and one that reads the default again finds a row.          *)
BlocksSeen(p, rows) ==
  \A row \in rows :
    /\ \A j \in DOMAIN p.fees : p.in.to[j] = row[1] => p.fees[j] = "blocked"
    /\ p.at = "box" /\ Recipient(p) = row[1] => row[2] = BoxWide
    /\ p.at \in {"default", "reread"} => Recipient(p) # row[1]

Passed(p) ==
  /\ p.at \in {"internalize", "map", "insert"} => ~ AnyBlocked(p)
  /\ p.at \in {"internalize", "map"} => p.in.payment # None

Defaulted(p, table) == p.at = "reread" => table[Recipient(p)][BoxWide] # None

(* What OutputsHandedOnce says of two outputs, and of one request.         *)
Apart(payment, j, k) ==
  payment[j].index = payment[k].index
    => j # k /\ (payment[j].for = None <=> payment[k].for = None)

Handed(p) ==
  \A i \in DOMAIN p.in.to :
    LET r == p.in.to[i] IN
    p.fees[i] = "pay" =>
      /\ p.outputs[r] # {}
      /\ \A j \in p.outputs[r] :
           /\ p.deliveryFee => j > 1
           /\ p.in.payment[j].for \in {None, r}
           /\ \A s \in DOMAIN p.outputs \ {r} : \A k \in p.outputs[s] : Apart(p.in.payment, j, k)

RequestOK(q, p, table, rows) ==
  /\ IsRequest(p)
  /\ p.at = "idle" => p.fees = <<>>
  /\ p.at # "idle" =>
       /\ RequestTyped(q, p)
       /\ rows \subseteq Blocking(table, p.in.from)
       /\ BlocksSeen(p, rows) /\ Passed(p) /\ Defaulted(p, table)
       /\ p.at = "insert" => Handed(p)

StoreTyped ==
  /\ perms \in Rows /\ chosen \in Rows
  /\ inbox \in [Ids -> Recipients \cup {None}]
  /\ sets \in 0 .. MaxSets

Inv ==
  /\ StoreTyped /\ ChoiceKept
  /\ DOMAIN send = Sends
  /\ \A q \in Sends : RequestOK(q, send[q], perms, standing[q])

-----------------------------------------------------------------------------
PaymentOutput == [index : Nat, for : Recipients \cup {None}]

(* What a request asks, and what its moves do to its fields.               *)
LEMMA Asked ==
  ASSUME NEW q \in Sends, NEW in \in Inputs[q]
  PROVE  /\ in.from \in Senders /\ in.from # BoxWide
         /\ in.to \in Seq(Recipients) /\ Len(in.to) \in Nat /\ DOMAIN in.to = 1 .. Len(in.to)
         /\ \A i \in DOMAIN in.to : in.to[i] \in Recipients /\ in.ids[i] \in Ids
         /\ in.payment # None => in.payment \in Seq(PaymentOutput)
<1>1. /\ in.from \in Senders /\ in.to \in Seq(Recipients) /\ in.ids \in Seq(Ids)
      /\ Len(in.to) = Len(in.ids)
      /\ in.payment # None => in.payment \in Seq(PaymentOutput)
  BY InputsAssumption DEF PaymentOutput
<1>2. in.from # BoxWide
  BY <1>1, DeliveryAssumption
<1> QED BY <1>1, <1>2

LEMMA FirstPlace ==
  ASSUME NEW q \in Sends, NEW in \in Inputs[q], in.to # <<>>
  PROVE  1 \in DOMAIN in.to
<1>1. in.to \in Seq(Recipients) /\ DOMAIN in.to = 1 .. Len(in.to)
  BY Asked
<1> QED BY <1>1

LEMMA MovedTo ==
  ASSUME NEW p, IsRequest(p), NEW a, NEW n, n = [p EXCEPT !.at = a]
  PROVE  /\ IsRequest(n)
         /\ n.at = a /\ n.in = p.in /\ n.deliveryFee = p.deliveryFee
         /\ n.fees = p.fees /\ n.outputs = p.outputs /\ n.i = p.i
BY DEF IsRequest

LEMMA SettledAs ==
  ASSUME NEW p, IsRequest(p), NEW f, NEW n, n = Fee(p, f)
  PROVE  /\ IsRequest(n)
         /\ n.at = IF p.i < Len(p.in.to) THEN "sender" ELSE "decide"
         /\ n.in = p.in /\ n.deliveryFee = p.deliveryFee
         /\ n.fees = Append(p.fees, f) /\ n.outputs = p.outputs
         /\ n.i = IF n.at = "sender" THEN p.i + 1 ELSE 1
BY DEF IsRequest, Fee

LEMMA MovedOn ==
  ASSUME NEW p, IsRequest(p), NEW n, n = [p EXCEPT !.i = @ + 1]
  PROVE  /\ IsRequest(n)
         /\ n.at = p.at /\ n.in = p.in /\ n.deliveryFee = p.deliveryFee
         /\ n.fees = p.fees /\ n.outputs = p.outputs /\ n.i = p.i + 1
BY DEF IsRequest

LEMMA IdleRequest == IsRequest(Idle) /\ Idle.at = "idle" /\ Idle.fees = <<>>
BY DEF IsRequest, Idle

-----------------------------------------------------------------------------
(* A row of Blocking is the sender's own or, without one, the box-wide one. *)
LEMMA BlockingRow ==
  ASSUME NEW table, NEW s, s # BoxWide, NEW row \in Blocking(table, s)
  PROVE  \/ row[2] = s /\ table[row[1]][s] = "blocked"
         \/ row[2] = BoxWide /\ table[row[1]][s] = None /\ table[row[1]][BoxWide] = "blocked"
<1>1. CASE \E r \in Recipients : table[r][s] = "blocked" /\ row = <<r, s>>
  <2>1. PICK r \in Recipients : table[r][s] = "blocked" /\ row = <<r, s>>
    BY <1>1
  <2>2. <<r, s>>[1] = r /\ <<r, s>>[2] = s
    OBVIOUS
  <2> QED BY <2>1, <2>2
<1>2. CASE \E r \in Recipients :
             table[r][s] = None /\ table[r][BoxWide] = "blocked" /\ row = <<r, BoxWide>>
  <2>1. PICK r \in Recipients :
          table[r][s] = None /\ table[r][BoxWide] = "blocked" /\ row = <<r, BoxWide>>
    BY <1>2
  <2>2. <<r, BoxWide>>[1] = r /\ <<r, BoxWide>>[2] = BoxWide
    OBVIOUS
  <2> QED BY <2>1, <2>2
<1> QED BY <1>1, <1>2, Zenon DEF Blocking

(* A request that stays where it is, while rows are written.               *)
LEMMA RequestWaits ==
  ASSUME NEW q \in Sends, NEW p, NEW table, NEW rows, RequestOK(q, p, table, rows), p.at # "idle",
         NEW table2, NEW rows2, rows2 \subseteq rows \cap Blocking(table2, p.in.from),
         \A r \in Recipients : table[r][BoxWide] # None => table2[r][BoxWide] # None
  PROVE  RequestOK(q, p, table2, rows2)
<1>1. p.at = "reread" => Recipient(p) \in Recipients
  BY Asked DEF RequestOK, RequestTyped, Recipient
<1>2. Defaulted(p, table2)
  BY <1>1 DEF RequestOK, Defaulted
<1>3. BlocksSeen(p, rows2)
  BY DEF RequestOK, BlocksSeen
<1> QED BY <1>2, <1>3 DEF RequestOK

(* The fee of a recipient is settled, as blocked if it stood in the way.   *)
LEMMA FeeSettled ==
  ASSUME NEW q \in Sends, NEW p, NEW table, NEW rows, RequestOK(q, p, table, rows),
         p.at \in {"sender", "box", "reread"}, NEW f \in Fees,
         \A row \in rows : Recipient(p) = row[1] => f = "blocked",
         NEW rows2, rows2 \subseteq rows \cap Blocking(table, p.in.from)
  PROVE  RequestOK(q, Fee(p, f), table, rows2)
<1> DEFINE n == Fee(p, f)
<1>1. /\ IsRequest(n) /\ n.in = p.in /\ n.fees = Append(p.fees, f)
      /\ n.at = IF p.i < Len(p.in.to) THEN "sender" ELSE "decide"
      /\ n.i = IF n.at = "sender" THEN p.i + 1 ELSE 1
  BY SettledAs DEF RequestOK
<1> HIDE DEF n
<1>2. /\ p.in \in Inputs[q] /\ p.fees \in Seq(Fees) /\ p.i \in DOMAIN p.in.to
      /\ Len(p.fees) = p.i - 1
  BY DEF RequestOK, RequestTyped, Settled
<1>3. Len(p.in.to) \in Nat /\ DOMAIN p.in.to = 1 .. Len(p.in.to)
  BY <1>2, Asked
<1>4. p.i \in 1 .. Len(p.in.to)
  BY <1>2, <1>3
<1>5. /\ n.fees \in Seq(Fees) /\ Len(n.fees) = p.i /\ n.fees[p.i] = f
      /\ \A j \in DOMAIN n.fees : j # p.i => j \in DOMAIN p.fees /\ n.fees[j] = p.fees[j]
  BY <1>1, <1>2, <1>4
<1>6. RequestTyped(q, n)
  <2>1. CASE p.i < Len(p.in.to)
    <3>1. n.at = "sender" /\ n.i = p.i + 1
      BY <1>1, <2>1
    <3>2. n.i \in DOMAIN n.in.to /\ Len(n.fees) = n.i - 1
      BY <1>1, <1>3, <1>4, <1>5, <2>1, <3>1
    <3> QED BY <1>1, <1>2, <1>5, <3>1, <3>2 DEF RequestTyped, Working, Settled
  <2>2. CASE p.i = Len(p.in.to)
    BY <1>1, <1>2, <1>3, <1>4, <1>5, <2>2 DEF RequestTyped, Working, Settled
  <2> QED BY <1>3, <1>4, <2>1, <2>2
<1>7. BlocksSeen(n, rows2)
  <2>1. n.at \notin {"box", "default", "reread"}
    BY <1>1
  <2>2. ASSUME NEW row \in rows2, NEW j \in DOMAIN n.fees, n.in.to[j] = row[1]
        PROVE  n.fees[j] = "blocked"
    <3>1. CASE j = p.i
      BY <1>1, <1>5, <2>2, <3>1 DEF Recipient
    <3>2. CASE j # p.i
      BY <1>1, <1>5, <2>2, <3>2 DEF RequestOK, BlocksSeen
    <3> QED BY <3>1, <3>2
  <2> QED BY <2>1, <2>2 DEF BlocksSeen
<1>8. n.at \notin {"internalize", "map", "insert", "reread", "idle"}
  BY <1>1
<1>9. rows2 \subseteq Blocking(table, n.in.from)
  BY <1>1
<1> QED BY <1>1, <1>6, <1>7, <1>8, <1>9 DEF RequestOK, Passed, Defaulted, n

(* buildPerRecipientOutputs: whoever is owed a fee gets outputs of its own. *)
LEMMA OutputsApart ==
  ASSUME NEW payment \in Seq(PaymentOutput), NEW deliveryFee, NEW payable \in Seq(Recipients),
         NEW outputs, outputs = BuildPerRecipientOutputs(payment, deliveryFee, payable), outputs # None
  PROVE  /\ DOMAIN outputs = Range(payable)
         /\ \A r \in Range(payable) :
              /\ outputs[r] # {}
              /\ \A j \in outputs[r] :
                   /\ deliveryFee => j > 1
                   /\ payment[j].for \in {None, r}
                   /\ \A s \in Range(payable) \ {r} : \A k \in outputs[s] : Apart(payment, j, k)
<1> DEFINE side == {j \in DOMAIN payment : deliveryFee => j > 1}
           tagged == {j \in side : payment[j].for # None}
           usedIndexes == {payment[j].index : j \in tagged}
           named == Range(payable) \cap {payment[j].for : j \in tagged}
           waiting == {k \in DOMAIN payable : payable[k] \notin named}
           unnamed == Entries(payable, waiting)
           rest == {j \in side : payment[j].index \notin usedIndexes}
           places(r) == {k \in DOMAIN unnamed : unnamed[k] = r}
           last(r) == Nth(places(r), Cardinality(places(r)))
<1>1. /\ ~ (Cardinality(rest) < Len(unnamed))
      /\ outputs = [r \in Range(payable) |->
                      IF r \in named THEN {j \in tagged : payment[j].for = r} ELSE {Nth(rest, last(r))}]
  BY Zenon DEF BuildPerRecipientOutputs
<1>2. rest \in SUBSET Nat /\ IsFiniteSet(rest) /\ Cardinality(rest) \in Nat
  <2>1. rest \in SUBSET DOMAIN payment
    OBVIOUS
  <2> HIDE DEF rest
  <2> QED BY <2>1, EntriesProperty
<1>3. /\ unnamed \in Seq(Recipients) /\ Len(unnamed) \in Nat /\ DOMAIN unnamed = 1 .. Len(unnamed)
      /\ \A k \in waiting : \E m \in DOMAIN unnamed : unnamed[m] = payable[k]
  <2>1. waiting \in SUBSET DOMAIN payable
    OBVIOUS
  <2> HIDE DEF waiting
  <2> QED BY <2>1, EntriesProperty
<1>4. \A j \in tagged : j \in side /\ payment[j].for # None /\ payment[j].index \in usedIndexes
  OBVIOUS
<1>5. \A j \in rest : j \in side /\ payment[j].for = None /\ payment[j].index \notin usedIndexes
  OBVIOUS
<1>6. \A j \in side : deliveryFee => j > 1
  OBVIOUS
<1>7. \A r \in named : \E j \in tagged : payment[j].for = r
  OBVIOUS
<1>8. \A r \in Range(payable) \ named : \E k \in waiting : payable[k] = r
  BY DEF Range
<1> HIDE DEF side, tagged, usedIndexes, named, waiting, unnamed, rest
<1>9. ASSUME NEW r \in Range(payable) \ named
      PROVE  last(r) \in DOMAIN unnamed /\ unnamed[last(r)] = r
  <2>1. places(r) \in SUBSET DOMAIN unnamed
    OBVIOUS
  <2>2. PICK m \in DOMAIN unnamed : unnamed[m] = r
    BY <1>3, <1>8
  <2>3. m \in places(r)
    BY <2>2
  <2>4. \A k \in places(r) : k \in DOMAIN unnamed /\ unnamed[k] = r
    OBVIOUS
  <2> HIDE DEF places
  <2>5. places(r) \in SUBSET Nat /\ IsFiniteSet(places(r)) /\ Cardinality(places(r)) \in Nat
    BY <1>3, <2>1, EntriesProperty
  <2>6. Cardinality(places(r)) # 0
    BY <2>3, <2>5, FS_EmptySet
  <2>7. Nth(places(r), Cardinality(places(r))) \in places(r)
    BY <2>5, <2>6, NthProperty
  <2> QED BY <2>4, <2>7
<1> HIDE DEF last
<1>10. ASSUME NEW r \in Range(payable) \ named
       PROVE  Nth(rest, last(r)) \in rest /\ Cardinality(UpTo(rest, Nth(rest, last(r)))) = last(r)
  <2>1. last(r) \in 1 .. Cardinality(rest)
    BY <1>1, <1>2, <1>3, <1>9
  <2> QED BY <1>2, <2>1, NthProperty
<1>11. ASSUME NEW r \in Range(payable), NEW s \in Range(payable), r # s,
              NEW j \in outputs[r], NEW k \in outputs[s]
       PROVE  Apart(payment, j, k)
  <2>1. /\ r \in named => j \in tagged /\ payment[j].for = r
        /\ r \notin named => j = Nth(rest, last(r)) /\ j \in rest
        /\ s \in named => k \in tagged /\ payment[k].for = s
        /\ s \notin named => k = Nth(rest, last(s)) /\ k \in rest
    BY <1>1, <1>10, <1>11
  <2>2. CASE r \in named /\ s \in named
    BY <1>4, <1>11, <2>1, <2>2 DEF Apart
  <2>3. CASE r \in named /\ s \notin named
    BY <1>4, <1>5, <2>1, <2>3 DEF Apart
  <2>4. CASE r \notin named /\ s \in named
    BY <1>4, <1>5, <2>1, <2>4 DEF Apart
  <2>5. CASE r \notin named /\ s \notin named
    <3>1. last(r) # last(s)
      BY <1>9, <1>11, <2>5
    <3>2. j # k
      BY <1>10, <2>1, <2>5, <3>1
    <3> QED BY <1>5, <2>1, <2>5, <3>2 DEF Apart
  <2> QED BY <2>2, <2>3, <2>4, <2>5
<1>12. ASSUME NEW r \in Range(payable)
       PROVE  /\ outputs[r] # {}
              /\ \A j \in outputs[r] : (deliveryFee => j > 1) /\ payment[j].for \in {None, r}
  <2>1. CASE r \in named
    BY <1>1, <1>4, <1>6, <1>7, <2>1
  <2>2. CASE r \notin named
    BY <1>1, <1>5, <1>6, <1>10, <2>2
  <2> QED BY <2>1, <2>2
<1>13. DOMAIN outputs = Range(payable)
  BY <1>1
<1> QED BY <1>11, <1>12, <1>13

(* Whoever is owed a fee is among those outputs are mapped to.             *)
LEMMA PayableNames ==
  ASSUME NEW q \in Sends, NEW p, p.in \in Inputs[q]
  PROVE  /\ Payable(p) \in Seq(Recipients)
         /\ \A i \in DOMAIN p.in.to : p.fees[i] = "pay" => p.in.to[i] \in Range(Payable(p))
<1> DEFINE owed == {i \in DOMAIN p.in.to : p.fees[i] = "pay"}
<1>1. p.in.to \in Seq(Recipients)
  BY Asked
<1>2. owed \in SUBSET DOMAIN p.in.to
  OBVIOUS
<1>3. Payable(p) = Entries(p.in.to, owed)
  BY DEF Payable
<1>4. \A i \in DOMAIN p.in.to : p.fees[i] = "pay" => i \in owed
  OBVIOUS
<1> HIDE DEF owed
<1>5. /\ Payable(p) \in Seq(Recipients) /\ DOMAIN Payable(p) = 1 .. Cardinality(owed)
      /\ \A i \in owed : \E k \in 1 .. Cardinality(owed) : Payable(p)[k] = p.in.to[i]
  BY <1>1, <1>2, <1>3, EntriesProperty
<1> QED BY <1>4, <1>5 DEF Range

-----------------------------------------------------------------------------
(* What a step does to the requests and to the blocks observed.            *)
RowsKept ==
  /\ perms' \in Rows
  /\ \A r \in Recipients : perms[r][BoxWide] # None => perms'[r][BoxWide] # None

LEMMA Observed ==
  ASSUME Observe, NEW x \in Sends, send'[x].at # "idle"
  PROVE  /\ standing'[x] \subseteq Blocking(perms', send'[x].in.from)
         /\ send[x].at # "idle" => standing'[x] \subseteq standing[x]
BY DEF Observe

LEMMA OthersWait ==
  ASSUME Inv, Observe, RowsKept, NEW x \in Sends, send'[x] = send[x]
  PROVE  RequestOK(x, send'[x], perms', standing'[x])
<1>1. RequestOK(x, send[x], perms, standing[x])
  BY DEF Inv
<1>2. CASE send[x].at = "idle"
  BY <1>1, <1>2 DEF RequestOK
<1>3. CASE send[x].at # "idle"
  <2>1. standing'[x] \subseteq standing[x] \cap Blocking(perms', send[x].in.from)
    BY <1>3, Observed
  <2> QED BY <1>1, <1>3, <2>1, RequestWaits DEF RowsKept
<1> QED BY <1>2, <1>3

LEMMA OneMoves ==
  ASSUME Inv, Observe, RowsKept, NEW q \in Sends, NEW n, Goes(q, n),
         \/ n = Idle
         \/ \A rows : /\ rows \subseteq Blocking(perms', n.in.from)
                      /\ send[q].at # "idle" => rows \subseteq standing[q]
                      => RequestOK(q, n, perms', rows)
  PROVE  /\ DOMAIN send' = Sends
         /\ \A x \in Sends : RequestOK(x, send'[x], perms', standing'[x])
<1>1. DOMAIN send' = Sends /\ send'[q] = n /\ \A x \in Sends \ {q} : send'[x] = send[x]
  BY DEF Inv, Goes
<1>2. \A x \in Sends \ {q} : RequestOK(x, send'[x], perms', standing'[x])
  BY <1>1, OthersWait
<1>3. RequestOK(q, n, perms', standing'[q])
  <2>1. CASE n = Idle
    BY <2>1, IdleRequest DEF RequestOK
  <2>2. CASE n # Idle /\ n.at # "idle"
    BY <1>1, <2>2, IdleRequest, Observed
  <2>3. CASE n # Idle /\ n.at = "idle"
    <3>1. RequestOK(q, n, perms', {})
      BY <2>3
    <3> QED BY <2>3, <3>1 DEF RequestOK
  <2> QED BY <2>1, <2>2, <2>3
<1> QED BY <1>1, <1>2, <1>3

-----------------------------------------------------------------------------
(* The requests, step by step.                                             *)
RequestsOK ==
  /\ DOMAIN send = Sends
  /\ \A q \in Sends : RequestOK(q, send[q], perms, standing[q])

LEMMA RowsSame ==
  ASSUME Inv, UNCHANGED perms
  PROVE  RowsKept
BY DEF Inv, StoreTyped, RowsKept

(* A request that ends or fails.                                           *)
LEMMA EndsKeeps ==
  ASSUME Inv, Observe, UNCHANGED perms, NEW q \in Sends, Goes(q, Idle)
  PROVE  RequestsOK'
BY RowsSame, IdleRequest, OneMoves DEF RequestsOK

LEMMA StartKeeps ==
  ASSUME Inv, Observe, NEW q \in Sends, Start(q)
  PROVE  RequestsOK'
<1>1. PICK in \in Inputs[q], d \in DeliveryFees :
        Goes(q, Started(in, d))
  BY DEF Start
<1> DEFINE n == Started(in, d)
<1>2. /\ IsRequest(n) /\ n.in = in /\ n.fees = <<>> /\ n.i = 1
      /\ n.at = IF in.to = <<>> THEN "decide" ELSE "sender"
  BY DEF IsRequest, Idle, Started
<1>3. Goes(q, n)
  BY <1>1
<1> HIDE DEF n
<1>4. /\ Len(in.to) \in Nat /\ DOMAIN in.to = 1 .. Len(in.to)
      /\ in.to = <<>> <=> Len(in.to) = 0
  BY Asked
<1>5. RequestTyped(q, n)
  BY <1>2, <1>4 DEF RequestTyped, Working, Settled
<1>6. ASSUME NEW rows, rows \subseteq Blocking(perms', n.in.from)
      PROVE  RequestOK(q, n, perms', rows)
  <2>1. BlocksSeen(n, rows)
    BY <1>2 DEF BlocksSeen
  <2> QED BY <1>2, <1>5, <1>6, <2>1 DEF RequestOK, Passed, Defaulted
<1> QED BY <1>3, <1>6, RowsSame, OneMoves DEF RequestsOK, Start

(* The sender's own row: a block seen here is settled, one that is not     *)
(* seen is box-wide.                                                       *)
LEMMA FeeFromSenderKeeps ==
  ASSUME Inv, Observe, NEW q \in Sends, FeeFromSender(q)
  PROVE  RequestsOK'
<1> DEFINE p == send[q]
           row == GetPermission(Recipient(p), p.in.from)
<1>1. /\ RequestOK(q, p, perms, standing[q]) /\ p.at = "sender" /\ perms' = perms
      /\ perms \in Rows
      /\ Goes(q, IF row # None THEN Fee(p, row) ELSE [p EXCEPT !.at = "box"])
  BY DEF Inv, StoreTyped, FeeFromSender
<1>2. p.in \in Inputs[q] /\ p.i \in DOMAIN p.in.to /\ IsRequest(p)
  BY <1>1 DEF RequestOK, RequestTyped
<1>3. p.in.from \in Senders /\ p.in.from # BoxWide /\ Recipient(p) \in Recipients
  BY <1>2, Asked DEF Recipient
<1>4. row = perms[Recipient(p)][p.in.from] /\ row \in Fees \cup {None}
  BY <1>1, <1>3 DEF GetPermission, Rows
<1>5. \A b \in standing[q] :
        \/ b[2] = p.in.from /\ perms[b[1]][p.in.from] = "blocked"
        \/ b[2] = BoxWide /\ perms[b[1]][p.in.from] = None
  BY <1>1, <1>3, BlockingRow DEF RequestOK
<1> HIDE DEF p, row
<1>6. CASE row # None
  <2>1. Goes(q, Fee(p, row))
    BY <1>1, <1>6
  <2>2. \A b \in standing[q] : Recipient(p) = b[1] => row = "blocked"
    BY <1>4, <1>5, <1>6
  <2>3. (Fee(p, row)).in = p.in
    BY <1>2, SettledAs
  <2>4. \A rows : /\ rows \subseteq Blocking(perms', Fee(p, row).in.from)
                  /\ send[q].at # "idle" => rows \subseteq standing[q]
                  => RequestOK(q, Fee(p, row), perms', rows)
    BY <1>1, <1>4, <1>6, <2>2, <2>3, FeeSettled DEF p
  <2> QED BY <1>1, <2>1, <2>4, RowsSame, OneMoves DEF RequestsOK
<1>7. CASE row = None
  <2> DEFINE n == [p EXCEPT !.at = "box"]
  <2>1. Goes(q, n)
    BY <1>1, <1>7
  <2>2. IsRequest(n) /\ n.at = "box" /\ n.in = p.in /\ n.fees = p.fees /\ n.i = p.i
    BY <1>2, MovedTo
  <2> HIDE DEF n
  <2>3. \A b \in standing[q] : Recipient(p) = b[1] => b[2] = BoxWide
    BY <1>4, <1>5, <1>7, DeliveryAssumption DEF Fees
  <2>4. RequestTyped(q, n)
    BY <1>1, <2>2 DEF RequestOK, RequestTyped, Working, Settled
  <2>5. ASSUME NEW rows, rows \subseteq Blocking(perms', n.in.from), rows \subseteq standing[q]
        PROVE  RequestOK(q, n, perms', rows)
    <3>1. BlocksSeen(n, rows)
      BY <1>1, <2>2, <2>3, <2>5 DEF RequestOK, BlocksSeen, Recipient
    <3> QED BY <2>2, <2>4, <2>5, <3>1 DEF RequestOK, Passed, Defaulted
  <2>6. send[q].at # "idle"
    BY <1>1 DEF p
  <2> QED BY <1>1, <2>1, <2>5, <2>6, RowsSame, OneMoves DEF RequestsOK
<1> QED BY <1>6, <1>7

(* The box-wide row: what blocks the sender here is seen.                  *)
LEMMA FeeFromBoxKeeps ==
  ASSUME Inv, Observe, NEW q \in Sends, FeeFromBox(q)
  PROVE  RequestsOK'
<1> DEFINE p == send[q]
           row == GetPermission(Recipient(p), BoxWide)
<1>1. /\ RequestOK(q, p, perms, standing[q]) /\ p.at = "box" /\ perms' = perms
      /\ perms \in Rows
      /\ Goes(q, IF row # None THEN Fee(p, row) ELSE [p EXCEPT !.at = "default"])
  BY DEF Inv, StoreTyped, FeeFromBox
<1>2. p.in \in Inputs[q] /\ p.i \in DOMAIN p.in.to /\ IsRequest(p)
  BY <1>1 DEF RequestOK, RequestTyped
<1>3. p.in.from \in Senders /\ p.in.from # BoxWide /\ Recipient(p) \in Recipients
  BY <1>2, Asked DEF Recipient
<1>4. row = perms[Recipient(p)][BoxWide] /\ row \in Fees \cup {None}
  BY <1>1, <1>3 DEF GetPermission, Rows
<1>5. \A b \in standing[q] : Recipient(p) = b[1] => row = "blocked"
  <2>1. \A b \in standing[q] :
          b[2] = p.in.from \/ (b[2] = BoxWide /\ perms[b[1]][BoxWide] = "blocked")
    BY <1>1, <1>3, BlockingRow DEF RequestOK
  <2>2. \A b \in standing[q] : Recipient(p) = b[1] => b[2] = BoxWide
    BY <1>1 DEF RequestOK, BlocksSeen
  <2> QED BY <1>3, <1>4, <2>1, <2>2
<1> HIDE DEF p, row
<1>6. CASE row # None
  <2>1. Goes(q, Fee(p, row))
    BY <1>1, <1>6
  <2>2. (Fee(p, row)).in = p.in
    BY <1>2, SettledAs
  <2>3. \A rows : /\ rows \subseteq Blocking(perms', Fee(p, row).in.from)
                  /\ send[q].at # "idle" => rows \subseteq standing[q]
                  => RequestOK(q, Fee(p, row), perms', rows)
    BY <1>1, <1>4, <1>5, <1>6, <2>2, FeeSettled DEF p
  <2> QED BY <1>1, <2>1, <2>3, RowsSame, OneMoves DEF RequestsOK
<1>7. CASE row = None
  <2> DEFINE n == [p EXCEPT !.at = "default"]
  <2>1. Goes(q, n)
    BY <1>1, <1>7
  <2>2. IsRequest(n) /\ n.at = "default" /\ n.in = p.in /\ n.fees = p.fees /\ n.i = p.i
    BY <1>2, MovedTo
  <2> HIDE DEF n
  <2>3. \A b \in standing[q] : Recipient(p) # b[1]
    BY <1>5, <1>7, DeliveryAssumption DEF Fees
  <2>4. RequestTyped(q, n)
    BY <1>1, <2>2 DEF RequestOK, RequestTyped, Working, Settled
  <2>5. ASSUME NEW rows, rows \subseteq Blocking(perms', n.in.from), rows \subseteq standing[q]
        PROVE  RequestOK(q, n, perms', rows)
    <3>1. BlocksSeen(n, rows)
      BY <1>1, <2>2, <2>3, <2>5 DEF RequestOK, BlocksSeen, Recipient
    <3> QED BY <2>2, <2>4, <2>5, <3>1 DEF RequestOK, Passed, Defaulted
  <2>6. send[q].at # "idle"
    BY <1>1 DEF p
  <2> QED BY <1>1, <2>1, <2>5, <2>6, RowsSame, OneMoves DEF RequestsOK
<1> QED BY <1>6, <1>7

(* The default is written back where the row is absent.                    *)
LEMMA FeeDefaultKeeps ==
  ASSUME Inv, Observe, NEW q \in Sends, FeeDefault(q)
  PROVE  RequestsOK' /\ RowsKept /\ ChoiceKept'
<1> DEFINE p == send[q]
           fee == IfAbsent(GetPermission(Recipient(p), BoxWide), DefaultFee)
           n == [p EXCEPT !.at = "reread"]
<1>1. /\ RequestOK(q, p, perms, standing[q]) /\ p.at = "default" /\ perms \in Rows /\ chosen \in Rows
      /\ perms' = Upserted(Recipient(p), BoxWide, fee) /\ Goes(q, n)
  BY DEF Inv, StoreTyped, FeeDefault
<1>2. p.in \in Inputs[q] /\ p.i \in DOMAIN p.in.to /\ IsRequest(p)
  BY <1>1 DEF RequestOK, RequestTyped
<1>3. Recipient(p) \in Recipients
  BY <1>2, Asked DEF Recipient
<1>4. IsRequest(n) /\ n.at = "reread" /\ n.in = p.in /\ n.fees = p.fees /\ n.i = p.i
  BY <1>2, MovedTo
<1>5. /\ fee \in Fees
      /\ perms[Recipient(p)][BoxWide] # None => fee = perms[Recipient(p)][BoxWide]
  BY <1>1, <1>3, DeliveryAssumption DEF IfAbsent, GetPermission, Rows
<1>6. /\ perms' \in Rows /\ perms'[Recipient(p)][BoxWide] = fee
      /\ \A r \in Recipients, s \in Senders \cup {BoxWide} :
           perms[r][s] # None => perms'[r][s] = perms[r][s]
  BY <1>1, <1>3, <1>5 DEF Upserted, Rows
<1>7. RowsKept
  BY <1>6 DEF RowsKept
<1>8. ChoiceKept'
  <2>1. chosen' = chosen
    BY <1>1 DEF Goes
  <2>2. \A r \in Recipients, s \in Senders \cup {BoxWide} :
          chosen[r][s] # None => perms[r][s] = chosen[r][s]
    BY DEF Inv, ChoiceKept
  <2> QED BY <1>6, <2>1, <2>2 DEF ChoiceKept
<1> HIDE DEF p, n, fee
<1>9. fee # None
  BY <1>5, DeliveryAssumption
<1>10. RequestTyped(q, n)
  BY <1>1, <1>4 DEF RequestOK, RequestTyped, Working, Settled
<1>11. Defaulted(n, perms')
  BY <1>4, <1>6, <1>9 DEF Defaulted, Recipient
<1>12. ASSUME NEW rows, rows \subseteq Blocking(perms', n.in.from), rows \subseteq standing[q]
       PROVE  RequestOK(q, n, perms', rows)
  <2>1. BlocksSeen(n, rows)
    BY <1>1, <1>4, <1>12 DEF RequestOK, BlocksSeen, Recipient
  <2> QED BY <1>4, <1>10, <1>11, <1>12, <2>1 DEF RequestOK, Passed
<1>13. send[q].at # "idle"
  BY <1>1 DEF p
<1> QED BY <1>1, <1>7, <1>8, <1>12, <1>13, OneMoves DEF RequestsOK

(* The row that was written, or one that was there, is read.               *)
LEMMA FeeRereadKeeps ==
  ASSUME Inv, Observe, NEW q \in Sends, FeeReread(q)
  PROVE  RequestsOK'
<1> DEFINE p == send[q]
           row == GetPermission(Recipient(p), BoxWide)
           fee == IF row # None THEN row ELSE DefaultFee
<1>1. /\ RequestOK(q, p, perms, standing[q]) /\ p.at = "reread" /\ perms' = perms
      /\ perms \in Rows /\ Goes(q, Fee(p, fee))
  BY DEF Inv, StoreTyped, FeeReread
<1>2. p.in \in Inputs[q] /\ p.i \in DOMAIN p.in.to /\ IsRequest(p)
  BY <1>1 DEF RequestOK, RequestTyped
<1>3. Recipient(p) \in Recipients
  BY <1>2, Asked DEF Recipient
<1>4. fee \in Fees
  BY <1>1, <1>3, DeliveryAssumption DEF GetPermission, Rows
<1>5. \A b \in standing[q] : Recipient(p) # b[1]
  BY <1>1 DEF RequestOK, BlocksSeen
<1> HIDE DEF p, fee
<1>6. Fee(p, fee).in = p.in
  BY <1>2, SettledAs
<1>7. \A rows : /\ rows \subseteq Blocking(perms', Fee(p, fee).in.from)
                /\ send[q].at # "idle" => rows \subseteq standing[q]
                => RequestOK(q, Fee(p, fee), perms', rows)
  BY <1>1, <1>4, <1>5, <1>6, FeeSettled DEF p
<1> QED BY <1>1, <1>7, RowsSame, OneMoves DEF RequestsOK

(* A send goes past the fees without a blocked recipient; straight to the  *)
(* inserts if nobody is owed a fee.                                        *)
LEMMA DecideKeeps ==
  ASSUME Inv, Observe, NEW q \in Sends, Decide(q)
  PROVE  RequestsOK'
<1> DEFINE p == send[q]
           charged == p.deliveryFee \/ Payable(p) # <<>>
<1>1. RequestOK(q, p, perms, standing[q]) /\ p.at = "decide" /\ perms' = perms
  BY DEF Inv, Decide
<1>2. p.in \in Inputs[q] /\ IsRequest(p) /\ RequestTyped(q, p)
  BY <1>1 DEF RequestOK, RequestTyped
<1>3. ASSUME NEW a, Goes(q, [p EXCEPT !.at = a]), a \in {"internalize", "map", "insert"}, ~ AnyBlocked(p),
             a # "insert" => p.in.payment # None, a = "insert" => ~ charged /\ p.in.to # <<>>
      PROVE  RequestsOK'
  <2> DEFINE n == [p EXCEPT !.at = a]
  <2>1. Goes(q, n)
    BY <1>3
  <2>2. IsRequest(n) /\ n.at = a /\ n.in = p.in /\ n.fees = p.fees /\ n.i = p.i
    BY <1>2, MovedTo
  <2> HIDE DEF n
  <2>3. RequestTyped(q, n)
    BY <1>1, <1>2, <1>3, <2>2, FirstPlace DEF RequestTyped, Working, Settled
  <2>4. Passed(n)
    BY <1>3, <2>2 DEF Passed, AnyBlocked
  <2>5. a = "insert" => Handed(n)
    <3>1. SUFFICES ASSUME Payable(p) = <<>>
                   PROVE  \A i \in DOMAIN p.in.to : p.fees[i] # "pay"
      BY <1>3, <2>2, Zenon DEF Handed
    <3>2. \A x : x \notin Range(Payable(p))
      BY <3>1 DEF Range
    <3> QED BY <1>2, <3>2, PayableNames
  <2>6. ASSUME NEW rows, rows \subseteq Blocking(perms', n.in.from), rows \subseteq standing[q]
        PROVE  RequestOK(q, n, perms', rows)
    <3>1. BlocksSeen(n, rows)
      BY <1>1, <1>3, <2>2, <2>6 DEF RequestOK, BlocksSeen
    <3> QED BY <1>3, <2>2, <2>3, <2>4, <2>5, <2>6, <3>1 DEF RequestOK, Defaulted
  <2>7. send[q].at # "idle"
    BY <1>1
  <2> QED BY <1>1, <2>1, <2>6, <2>7, RowsSame, OneMoves DEF RequestsOK
<1>4. \/ Goes(q, Idle)
      \/ /\ ~ AnyBlocked(p) /\ ~ charged /\ p.in.to # <<>>
         /\ Goes(q, [p EXCEPT !.at = "insert"])
      \/ /\ ~ AnyBlocked(p) /\ p.in.payment # None
         /\ Goes(q, [p EXCEPT !.at = IF p.deliveryFee THEN "internalize" ELSE "map"])
  BY DEF Decide, Inserting
<1>5. (IF p.deliveryFee THEN "internalize" ELSE "map") \in {"internalize", "map"}
  OBVIOUS
<1> HIDE DEF p, charged
<1>6. CASE Goes(q, Idle)
  BY <1>1, <1>6, EndsKeeps
<1>7. CASE /\ ~ AnyBlocked(p) /\ ~ charged /\ p.in.to # <<>>
           /\ Goes(q, [p EXCEPT !.at = "insert"])
  BY <1>3, <1>7
<1>8. CASE /\ ~ AnyBlocked(p) /\ p.in.payment # None
           /\ Goes(q, [p EXCEPT !.at = IF p.deliveryFee THEN "internalize" ELSE "map"])
  BY <1>3, <1>5, <1>8
<1> QED BY <1>4, <1>6, <1>7, <1>8

(* The wallet took the server's output.                                    *)
LEMMA InternalizeKeeps ==
  ASSUME Inv, Observe, NEW q \in Sends, InternalizeAction(q)
  PROVE  RequestsOK'
<1> DEFINE p == send[q]
           n == [p EXCEPT !.at = "map"]
<1>1. /\ RequestOK(q, p, perms, standing[q]) /\ p.at = "internalize" /\ perms' = perms
      /\ Goes(q, n) \/ Goes(q, Idle)
  BY DEF Inv, InternalizeAction
<1>2. IsRequest(n) /\ n.at = "map" /\ n.in = p.in /\ n.fees = p.fees /\ n.i = p.i
  BY <1>1, MovedTo DEF RequestOK
<1>3. CASE Goes(q, Idle)
  BY <1>1, <1>3, EndsKeeps
<1>4. CASE Goes(q, n)
  <2> HIDE DEF n
  <2>1. RequestTyped(q, n) /\ Passed(n)
    BY <1>1, <1>2 DEF RequestOK, RequestTyped, Passed, AnyBlocked, Working, Settled
  <2>2. ASSUME NEW rows, rows \subseteq Blocking(perms', n.in.from), rows \subseteq standing[q]
        PROVE  RequestOK(q, n, perms', rows)
    <3>1. BlocksSeen(n, rows)
      BY <1>1, <1>2, <2>2 DEF RequestOK, BlocksSeen
    <3> QED BY <1>2, <2>1, <2>2, <3>1 DEF RequestOK, Defaulted
  <2> QED BY <1>1, <1>4, <2>2, RowsSame, OneMoves DEF RequestsOK
<1> QED BY <1>1, <1>3, <1>4

(* The outputs are mapped to the recipients.                               *)
LEMMA MapOutputsKeeps ==
  ASSUME Inv, Observe, NEW q \in Sends, MapOutputs(q)
  PROVE  RequestsOK'
<1> DEFINE p == send[q]
           outputs == BuildPerRecipientOutputs(p.in.payment, p.deliveryFee, Payable(p))
           m == [p EXCEPT !.outputs = outputs]
           n == [m EXCEPT !.at = "insert"]
<1>1. /\ RequestOK(q, p, perms, standing[q]) /\ p.at = "map" /\ perms' = perms
      /\ (outputs # None /\ m.in.to # <<>> /\ Goes(q, n)) \/ Goes(q, Idle)
  BY Zenon DEF Inv, MapOutputs, Inserting
<1>2. p.in \in Inputs[q] /\ IsRequest(p) /\ p.in.payment # None
  BY <1>1 DEF RequestOK, RequestTyped, Passed
<1> HIDE DEF outputs
<1>3. /\ IsRequest(n) /\ n.at = "insert" /\ n.in = p.in /\ n.fees = p.fees /\ n.i = p.i
      /\ n.outputs = outputs /\ n.deliveryFee = p.deliveryFee /\ m.in = p.in
  BY <1>2 DEF IsRequest
<1>4. CASE Goes(q, Idle)
  BY <1>1, <1>4, EndsKeeps
<1>5. CASE outputs # None /\ m.in.to # <<>> /\ Goes(q, n)
  <2> HIDE DEF m, n
  <2>1. RequestTyped(q, n) /\ Passed(n)
    BY <1>1, <1>2, <1>3, <1>5, FirstPlace DEF RequestOK, RequestTyped, Passed, AnyBlocked, Working, Settled
  <2>2. Handed(n)
    <3>1. p.in.payment \in Seq(PaymentOutput) /\ Payable(p) \in Seq(Recipients)
      BY <1>2, Asked, PayableNames
    <3> HIDE DEF p
    <3>2. /\ DOMAIN outputs = Range(Payable(p))
          /\ \A r \in Range(Payable(p)) :
               /\ outputs[r] # {}
               /\ \A j \in outputs[r] :
                    /\ p.deliveryFee => j > 1
                    /\ p.in.payment[j].for \in {None, r}
                    /\ \A s \in Range(Payable(p)) \ {r} : \A k \in outputs[s] :
                         Apart(p.in.payment, j, k)
      BY <1>5, <3>1, OutputsApart DEF outputs
    <3>3. \A i \in DOMAIN p.in.to : p.fees[i] = "pay" => p.in.to[i] \in Range(Payable(p))
      BY <1>2, PayableNames
    <3> QED BY <1>3, <3>2, <3>3 DEF Handed
  <2>3. ASSUME NEW rows, rows \subseteq Blocking(perms', n.in.from), rows \subseteq standing[q]
        PROVE  RequestOK(q, n, perms', rows)
    <3>1. BlocksSeen(n, rows)
      BY <1>1, <1>3, <2>3 DEF RequestOK, BlocksSeen
    <3> QED BY <1>3, <2>1, <2>2, <2>3, <3>1 DEF RequestOK, Defaulted
  <2> QED BY <1>1, <1>5, <2>3, RowsSame, OneMoves DEF RequestsOK
<1> QED BY <1>1, <1>4, <1>5

(* A message is stored, and the next one is up.                            *)
LEMMA InsertMessageKeeps ==
  ASSUME Inv, Observe, NEW q \in Sends, InsertMessage(q)
  PROVE  RequestsOK' /\ inbox' \in [Ids -> Recipients \cup {None}]
<1> DEFINE p == send[q]
           n == [p EXCEPT !.i = @ + 1]
<1>1. /\ RequestOK(q, p, perms, standing[q]) /\ p.at = "insert" /\ perms' = perms
      /\ (~ LastInsert(p) /\ Goes(q, n)) \/ Goes(q, Idle)
  BY DEF Inv, InsertMessage
<1>2. p.in \in Inputs[q] /\ IsRequest(p) /\ p.i \in DOMAIN p.in.to
  BY <1>1 DEF RequestOK, RequestTyped
<1>3. /\ Len(p.in.to) \in Nat /\ DOMAIN p.in.to = 1 .. Len(p.in.to)
      /\ Recipient(p) \in Recipients /\ p.in.ids[p.i] \in Ids
  BY <1>2, Asked DEF Recipient
<1>4. inbox' \in [Ids -> Recipients \cup {None}]
  <2>1. inbox' = Inserted(p.in.ids[p.i], Recipient(p)) \/ inbox' = inbox
    BY DEF InsertMessage
  <2>2. inbox \in [Ids -> Recipients \cup {None}]
    BY DEF Inv, StoreTyped
  <2> HIDE DEF p
  <2> QED BY <1>3, <2>1, <2>2 DEF Inserted
<1>5. CASE Goes(q, Idle)
  BY <1>1, <1>4, <1>5, EndsKeeps
<1>6. CASE ~ LastInsert(p) /\ Goes(q, n)
  <2>1. /\ IsRequest(n) /\ n.at = "insert" /\ n.in = p.in /\ n.fees = p.fees /\ n.i = p.i + 1
        /\ n.outputs = p.outputs /\ n.deliveryFee = p.deliveryFee
    BY <1>1, <1>2, MovedOn
  <2> HIDE DEF n
  <2>2. n.i \in DOMAIN n.in.to
    BY <1>2, <1>3, <1>6, <2>1 DEF LastInsert
  <2>3. RequestTyped(q, n) /\ Passed(n) /\ Handed(n)
    BY <1>1, <2>1, <2>2 DEF RequestOK, RequestTyped, Passed, Handed, AnyBlocked, Settled
  <2>4. ASSUME NEW rows, rows \subseteq Blocking(perms', n.in.from), rows \subseteq standing[q]
        PROVE  RequestOK(q, n, perms', rows)
    <3>1. BlocksSeen(n, rows)
      BY <1>1, <2>1, <2>4 DEF RequestOK, BlocksSeen
    <3> QED BY <2>1, <2>3, <2>4, <3>1 DEF RequestOK, Defaulted
  <2> QED BY <1>1, <1>4, <1>6, <2>4, RowsSame, OneMoves DEF RequestsOK
<1> QED BY <1>1, <1>5, <1>6

-----------------------------------------------------------------------------
(* Nothing is sent while a permission is set or messages are deleted.      *)
LEMMA SetPermissionKeeps ==
  ASSUME Inv, NEW r \in Recipients, SetPermission(r), Observe
  PROVE  Inv'
<1>1. PICK s \in Senders \cup {BoxWide}, f \in Fees :
        perms' = Upserted(r, s, f) /\ chosen' = [chosen EXCEPT ![r][s] = f]
  BY DEF SetPermission
<1>2. /\ perms \in Rows /\ chosen \in Rows /\ sets \in 0 .. MaxSets
      /\ \A x \in Recipients, y \in Senders \cup {BoxWide} : chosen[x][y] # None => perms[x][y] = chosen[x][y]
  BY DEF Inv, StoreTyped, ChoiceKept
<1>3. /\ perms' \in Rows /\ chosen' \in Rows
      /\ perms'[r][s] = f /\ chosen'[r][s] = f
      /\ \A x \in Recipients, y \in Senders \cup {BoxWide} :
           <<x, y>> # <<r, s>> => perms'[x][y] = perms[x][y] /\ chosen'[x][y] = chosen[x][y]
  BY <1>1, <1>2 DEF Upserted, Rows
<1>4. ASSUME NEW x \in Recipients, NEW y \in Senders \cup {BoxWide}
      PROVE  /\ chosen'[x][y] # None => perms'[x][y] = chosen'[x][y]
             /\ perms[x][y] # None => perms'[x][y] # None
  <2>1. CASE x = r /\ y = s
    BY <1>3, <2>1, DeliveryAssumption
  <2>2. CASE ~ (x = r /\ y = s)
    BY <1>2, <1>3, <2>2
  <2> QED BY <2>1, <2>2
<1>5. RowsKept /\ ChoiceKept'
  BY <1>3, <1>4 DEF RowsKept, ChoiceKept
<1>6. sets' \in 0 .. MaxSets /\ inbox' = inbox /\ send' = send
  BY <1>2, DeliveryAssumption DEF SetPermission
<1>7. \A q \in Sends : RequestOK(q, send'[q], perms', standing'[q])
  BY <1>5, <1>6, OthersWait
<1> QED BY <1>3, <1>5, <1>6, <1>7 DEF Inv, StoreTyped

LEMMA AcknowledgeKeeps ==
  ASSUME Inv, NEW r \in Recipients, AcknowledgeMessage(r), Observe
  PROVE  Inv'
<1>1. inbox' \in [Ids -> Recipients \cup {None}]
  BY DEF Inv, StoreTyped, AcknowledgeMessage, Deleted
<1>2. UNCHANGED <<perms, send, sets, chosen>>
  BY DEF AcknowledgeMessage
<1>3. \A q \in Sends : RequestOK(q, send'[q], perms', standing'[q])
  BY <1>2, OthersWait, RowsSame
<1> QED BY <1>1, <1>2, <1>3 DEF Inv, StoreTyped, ChoiceKept

(* A step of a request.                                                    *)
RequestStep(q) ==
  \/ Start(q)
  \/ FeeFromSender(q) \/ FeeFromBox(q) \/ FeeDefault(q) \/ FeeReread(q)
  \/ Quote(q) \/ Decide(q) \/ InternalizeAction(q) \/ MapOutputs(q) \/ InsertMessage(q)
  \/ Fails(q)

LEMMA RequestStepKeeps ==
  ASSUME Inv, NEW q \in Sends, RequestStep(q), Observe
  PROVE  Inv'
<1>1. UNCHANGED <<sets, chosen>>
  BY DEF RequestStep, Start, FeeFromSender, FeeFromBox, FeeDefault, FeeReread, Quote, Decide,
         InternalizeAction, MapOutputs, InsertMessage, Fails, Goes
<1>2. ASSUME RequestsOK', RowsKept, ChoiceKept', inbox' \in [Ids -> Recipients \cup {None}]
      PROVE  Inv'
  BY <1>1, <1>2 DEF Inv, StoreTyped, RequestsOK, RowsKept
<1>3. ASSUME UNCHANGED perms
      PROVE  RowsKept /\ ChoiceKept'
  <2>1. RowsKept
    BY <1>3, RowsSame
  <2>2. ChoiceKept'
    BY <1>1, <1>3 DEF Inv, ChoiceKept
  <2> QED BY <2>1, <2>2
<1>4. UNCHANGED inbox => inbox' \in [Ids -> Recipients \cup {None}]
  BY DEF Inv, StoreTyped
<1>5. CASE Start(q)
  BY <1>2, <1>3, <1>4, <1>5, StartKeeps DEF Start
<1>6. CASE FeeFromSender(q)
  BY <1>2, <1>3, <1>4, <1>6, FeeFromSenderKeeps DEF FeeFromSender
<1>7. CASE FeeFromBox(q)
  BY <1>2, <1>3, <1>4, <1>7, FeeFromBoxKeeps DEF FeeFromBox
<1>8. CASE FeeDefault(q)
  BY <1>2, <1>4, <1>8, FeeDefaultKeeps DEF FeeDefault
<1>9. CASE FeeReread(q)
  BY <1>2, <1>3, <1>4, <1>9, FeeRereadKeeps DEF FeeReread
<1>10. CASE Quote(q)
  BY <1>2, <1>3, <1>4, <1>10, EndsKeeps DEF Quote
<1>11. CASE Decide(q)
  BY <1>2, <1>3, <1>4, <1>11, DecideKeeps DEF Decide
<1>12. CASE InternalizeAction(q)
  BY <1>2, <1>3, <1>4, <1>12, InternalizeKeeps DEF InternalizeAction
<1>13. CASE MapOutputs(q)
  BY <1>2, <1>3, <1>4, <1>13, MapOutputsKeeps DEF MapOutputs
<1>14. CASE InsertMessage(q)
  BY <1>2, <1>3, <1>14, InsertMessageKeeps DEF InsertMessage
<1>15. CASE Fails(q)
  <2> DEFINE p == send[q]
  <2>1. /\ p.at # "idle" /\ Goes(q, Idle) /\ perms' = perms
        /\ inbox' = inbox \/ (p.at = "insert" /\ inbox' = Inserted(p.in.ids[p.i], Recipient(p)))
    BY <1>15 DEF Fails
  <2>2. p.in \in Inputs[q] /\ (p.at = "insert" => p.i \in DOMAIN p.in.to)
    BY <2>1 DEF Inv, RequestOK, RequestTyped
  <2>3. p.at = "insert" => p.in.ids[p.i] \in Ids /\ Recipient(p) \in Recipients
    BY <2>2, Asked DEF Recipient
  <2>4. inbox \in [Ids -> Recipients \cup {None}]
    BY DEF Inv, StoreTyped
  <2>5. inbox' \in [Ids -> Recipients \cup {None}]
    <3> HIDE DEF p
    <3> QED BY <2>1, <2>3, <2>4 DEF Inserted
  <2> QED BY <1>2, <1>3, <2>1, <2>5, EndsKeeps
<1> QED BY <1>5, <1>6, <1>7, <1>8, <1>9, <1>10, <1>11, <1>12, <1>13, <1>14, <1>15 DEF RequestStep

-----------------------------------------------------------------------------
(* Inv is inductive.                                                       *)
LEMMA InvInit ==
  ASSUME Init
  PROVE  Inv
<1>1. StoreTyped /\ ChoiceKept
  BY DeliveryAssumption DEF Init, StoreTyped, ChoiceKept, Rows, NoRows
<1>2. DOMAIN send = Sends /\ \A q \in Sends : send[q] = Idle
  BY DEF Init
<1>3. \A q \in Sends : RequestOK(q, send[q], perms, standing[q])
  BY <1>2, IdleRequest DEF RequestOK
<1> QED BY <1>1, <1>2, <1>3 DEF Inv

LEMMA InvNext ==
  ASSUME Inv, [Next]_vars
  PROVE  Inv'
<1>1. CASE Next
  <2>1. \/ \E r \in Recipients : SetPermission(r) \/ AcknowledgeMessage(r)
        \/ \E q \in Sends : RequestStep(q)
    BY <1>1 DEF Next, Step, RequestStep
  <2>2. Observe
    BY <1>1 DEF Next
  <2> QED BY <2>1, <2>2, SetPermissionKeeps, AcknowledgeKeeps, RequestStepKeeps
<1>2. CASE UNCHANGED vars
  BY <1>2 DEF vars, Inv, StoreTyped, ChoiceKept
<1> QED BY <1>1, <1>2

LEMMA Inductive == Spec => []Inv
<1>1. Init => Inv
  BY InvInit
<1>2. Inv /\ [Next]_vars => Inv'
  BY InvNext
<1> QED BY <1>1, <1>2, PTL DEF Spec

(* Every variable has its type, and a request has settled the fees of      *)
(* exactly the recipients it has passed.                                   *)
THEOREM DeliveryTyped == Spec => []TypeOK
<1>1. Inv => TypeOK
  BY DEF Inv, TypeOK, StoreTyped, RequestOK, RequestTyped, Working, Settled
<1> QED BY <1>1, Inductive, PTL

(* What a recipient chose with /permissions/set stays until it chooses     *)
(* again, whatever requests write a default back meanwhile.                *)
THEOREM ChoicesKept == Spec => []ChoiceKept
<1>1. Inv => ChoiceKept
  BY DEF Inv
<1> QED BY <1>1, Inductive, PTL

(* sendMessage inserts nothing for a recipient that kept the sender out by *)
(* one and the same permission since the request began.                    *)
THEOREM StandingBlocksHonoured == Spec => []StandingBlockHonoured
<1>1. ASSUME Inv
      PROVE  StandingBlockHonoured
  <2> SUFFICES ASSUME NEW q \in Sends, send[q].at = "insert", NEW row \in standing[q],
                      row[1] \in Range(send[q].in.to)
               PROVE  FALSE
    BY DEF StandingBlockHonoured
  <2> DEFINE p == send[q]
  <2>1. RequestTyped(q, p) /\ BlocksSeen(p, standing[q]) /\ Passed(p)
    BY <1>1 DEF Inv, RequestOK
  <2>2. PICK j \in DOMAIN p.in.to : p.in.to[j] = row[1]
    BY DEF Range
  <2>3. j \in DOMAIN p.fees
    <3>1. p.in \in Inputs[q] /\ p.fees \in Seq(Fees) /\ Len(p.fees) = Len(p.in.to)
      BY <2>1 DEF RequestTyped, Settled
    <3>2. DOMAIN p.in.to = 1 .. Len(p.in.to)
      BY <3>1, Asked
    <3> QED BY <2>2, <3>1, <3>2
  <2>4. p.fees[j] = "blocked"
    BY <2>1, <2>2, <2>3 DEF BlocksSeen
  <2> QED BY <2>1, <2>3, <2>4 DEF Passed, AnyBlocked
<1> QED BY <1>1, Inductive, PTL

(* Whatever indexes a payment lists, buildPerRecipientOutputs hands none   *)
(* of its entries to two recipients, none that names another, and never    *)
(* the server's own; every recipient that is owed a fee is handed one, and *)
(* an output of the transaction reaches two recipients only if the payment *)
(* lists it twice, by name for both or for neither.                        *)
THEOREM OutputsAreHandedOnce == Spec => []OutputsHandedOnce
<1>1. Inv => OutputsHandedOnce
  BY DEF Inv, OutputsHandedOnce, RequestOK, Handed, Apart
<1> QED BY <1>1, Inductive, PTL

-----------------------------------------------------------------------------
(* The fee that a step settles is the one it read.                         *)
LEMMA FeeReadSettles ==
  ASSUME NEW q \in Sends, NEW p, IsRequest(p), RequestTyped(q, p), NEW f
  PROVE  Fee(p, f).fees[Len(Fee(p, f).fees)] = f
<1>1. Fee(p, f).fees = Append(p.fees, f)
  BY SettledAs
<1>2. p.fees \in Seq(Fees)
  BY DEF RequestTyped
<1> QED BY <1>1, <1>2

(* recipientFee returns a fee that is on file when it returns it, the      *)
(* default included.                                                       *)
THEOREM FeesAreOnFile == Spec => FeeIsOnFile
<1> DEFINE OnFile(q) ==
             send'[q].at # "idle" /\ Len(send'[q].fees) > Len(send[q].fees)
               => send'[q].fees[Len(send'[q].fees)]
                    \in {perms[Recipient(send[q])][send[q].in.from], perms[Recipient(send[q])][BoxWide]}
<1>1. ASSUME Inv, Next, NEW q \in Sends
      PROVE  OnFile(q)
  <2> DEFINE p == send[q]
  <2>1. RequestOK(q, p, perms, standing[q]) /\ DOMAIN send = Sends
    BY <1>1 DEF Inv
  <2>2. Len(p.fees) \in Nat /\ IsRequest(p) /\ (p.at # "idle" => RequestTyped(q, p))
    BY <2>1 DEF RequestOK, RequestTyped
  <2>3. ASSUME send'[q].at = "idle" \/ send'[q].fees \in {p.fees, <<>>}
        PROVE  OnFile(q)
    BY <2>2, <2>3
  <2>4. ASSUME NEW f \in {perms[Recipient(p)][p.in.from], perms[Recipient(p)][BoxWide]},
               p.at # "idle", send'[q] = Fee(p, f)
        PROVE  OnFile(q)
    BY <2>2, <2>4, FeeReadSettles
  <2>5. ASSUME NEW a
        PROVE  [p EXCEPT !.at = a].fees = p.fees
    BY <2>2, MovedTo
  <2>6. CASE send' = send
    BY <2>3, <2>6
  <2>7. ASSUME NEW x \in Sends, RequestStep(x)
        PROVE  OnFile(q)
    <3>1. CASE x # q
      <4>1. send'[q] = send[q]
        BY <2>1, <2>7, <3>1
           DEF RequestStep, Start, FeeFromSender, FeeFromBox, FeeDefault, FeeReread, Quote, Decide,
               InternalizeAction, MapOutputs, InsertMessage, Fails, Goes
      <4> QED BY <2>3, <4>1
    <3>2. CASE x = q
      <4>1. ASSUME NEW n, Goes(q, n)
            PROVE  send'[q] = n
        BY <2>1, <4>1 DEF Goes
      <4>2. CASE Start(q)
        <5>1. PICK in \in Inputs[q], d \in DeliveryFees : Goes(q, Started(in, d))
          BY <4>2 DEF Start
        <5>2. Started(in, d).fees = <<>>
          BY DEF Idle, Started
        <5> QED BY <2>3, <4>1, <5>1, <5>2
      <4>3. CASE FeeFromSender(q)
        <5>1. p.at = "sender"
          BY <4>3 DEF FeeFromSender
        <5>2. \/ Goes(q, Fee(p, perms[Recipient(p)][p.in.from]))
              \/ Goes(q, [p EXCEPT !.at = "box"])
          BY <4>3, Zenon DEF FeeFromSender, GetPermission
        <5> QED BY <2>3, <2>4, <2>5, <4>1, <5>1, <5>2
      <4>4. CASE FeeFromBox(q)
        <5>1. p.at = "box"
          BY <4>4 DEF FeeFromBox
        <5>2. \/ Goes(q, Fee(p, perms[Recipient(p)][BoxWide]))
              \/ Goes(q, [p EXCEPT !.at = "default"])
          BY <4>4, Zenon DEF FeeFromBox, GetPermission
        <5> QED BY <2>3, <2>4, <2>5, <4>1, <5>1, <5>2
      <4>5. CASE FeeReread(q)
        <5>1. p.at = "reread"
          BY <4>5 DEF FeeReread
        <5>2. perms[Recipient(p)][BoxWide] # None
          BY <2>1, <5>1 DEF RequestOK, Defaulted
        <5>3. Goes(q, Fee(p, perms[Recipient(p)][BoxWide]))
          BY <4>5, <5>2, Zenon DEF FeeReread, GetPermission
        <5> QED BY <2>4, <4>1, <5>1, <5>3
      <4>6. CASE FeeDefault(q) \/ InternalizeAction(q)
        <5>1. (\E a : Goes(q, [p EXCEPT !.at = a])) \/ Goes(q, Idle)
          BY <4>6 DEF FeeDefault, InternalizeAction
        <5> QED BY <2>3, <2>5, <4>1, <5>1, IdleRequest
      <4>7. CASE Decide(q)
        <5>1. (\E a : Goes(q, [p EXCEPT !.at = a])) \/ Goes(q, Idle)
          BY <4>7 DEF Decide, Inserting
        <5> QED BY <2>3, <2>5, <4>1, <5>1, IdleRequest
      <4>8. CASE MapOutputs(q)
        <5>1. (\E o : Goes(q, [[p EXCEPT !.outputs = o] EXCEPT !.at = "insert"])) \/ Goes(q, Idle)
          BY <4>8, Zenon DEF MapOutputs, Inserting
        <5>2. \A o : [[p EXCEPT !.outputs = o] EXCEPT !.at = "insert"].fees = p.fees
          BY <2>2 DEF IsRequest
        <5> QED BY <2>3, <4>1, <5>1, <5>2, IdleRequest
      <4>9. CASE InsertMessage(q)
        <5>1. Goes(q, [p EXCEPT !.i = @ + 1]) \/ Goes(q, Idle)
          BY <4>9 DEF InsertMessage
        <5>2. [p EXCEPT !.i = @ + 1].fees = p.fees
          BY <2>2, MovedOn
        <5> QED BY <2>3, <4>1, <5>1, <5>2, IdleRequest
      <4>10. CASE Quote(q) \/ Fails(q)
        BY <2>3, <4>1, <4>10, IdleRequest DEF Quote, Fails
      <4> QED BY <2>7, <3>2, <4>2, <4>3, <4>4, <4>5, <4>6, <4>7, <4>8, <4>9, <4>10 DEF RequestStep
    <3> QED BY <3>1, <3>2
  <2>8. send' = send \/ \E x \in Sends : RequestStep(x)
    BY <1>1 DEF Next, Step, SetPermission, AcknowledgeMessage, RequestStep
  <2> QED BY <2>6, <2>7, <2>8
<1>2. Inv /\ [Next]_vars => [\A q \in Sends : OnFile(q)]_vars
  BY <1>1
<1> QED BY <1>2, Inductive, PTL DEF Spec, FeeIsOnFile
=============================================================================
