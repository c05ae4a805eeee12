--------------------------- MODULE RawBodyProofs ---------------------------
(***************************************************************************)
(* Proofs about RawBody: for every limit, every content-length and any     *)
(* chunks, what is given to the parser is within the limit and as long as  *)
(* declared, and what was done with a request stays.                       *)
(***************************************************************************)
EXTENDS RawBody, TLAPS

(* While the listeners are attached nothing was decided, received is the   *)
(* length of what was collected, and the limit holds for it.               *)
Collecting ==
  attached => /\ outcome = "none"
              /\ received = (IF asString THEN body.units ELSE body.bytes)
              /\ Measure(body, received) <= Limit

(* Nothing is unpacked before something was received. *)
Sourced == body.encoded = 0 => body.units = 0 /\ body.bytes = 0

IInv == TypeOK /\ Collecting /\ Sourced /\ ParsedWithinLimit /\ ParsedAsDeclared

LEMMA InitIInv == Init => IInv
<1> SUFFICES ASSUME Init PROVE IInv
  OBVIOUS
<1>1. body \in Chunk /\ body.units = 0 /\ body.bytes = 0 /\ body.encoded = 0
  BY DEF Init, Chunk
<1>2. attached \in BOOLEAN /\ outcome \in Outcomes
  BY DEF Init, Outcomes, DeclaredTooLarge
<1>3. attached => outcome = "none"
  BY DEF Init
<1>4. outcome # "parsed"
  BY DEF Init
<1>5. TypeOK
  BY <1>1, <1>2, BodyAssumption DEF Init, TypeOK
<1>6. Collecting
  BY <1>1, <1>3, BodyAssumption DEF Init, Collecting, Measure
<1> QED BY <1>1, <1>4, <1>5, <1>6 DEF IInv, Sourced, ParsedWithinLimit, ParsedAsDeclared

(* A chunk is added to the collected lengths. *)
LEMMA PlusType ==
  ASSUME NEW b \in Chunk, NEW c \in Chunk
  PROVE  /\ Plus(b, c) \in Chunk
         /\ Plus(b, c).units = b.units + c.units
         /\ Plus(b, c).bytes = b.bytes + c.bytes
         /\ Plus(b, c).encoded = b.encoded + c.encoded
  BY DEF Plus, Chunk

LEMMA DataKeeps == IInv /\ Data => IInv'
<1> SUFFICES ASSUME IInv, Data PROVE IInv'
  OBVIOUS
<1> USE DEF IInv, TypeOK, Outcomes
<1>1. CASE ~attached /\ UNCHANGED <<body, received, attached, outcome>>
  BY <1>1, BodyAssumption
  DEF Data, given, Collecting, Sourced, ParsedWithinLimit, ParsedAsDeclared, WireLength
<1>2. CASE attached /\ \E c \in Chunks : Sources(c) /\ OnData(c)
  <2>1. PICK c \in Chunks : Sources(c) /\ OnData(c)
    BY <1>2
  <2>2. c \in Chunk /\ body \in Chunk
    BY BodyAssumption
  <2>3. /\ body' = Plus(body, c) /\ body' \in Chunk
        /\ body'.units = body.units + c.units
        /\ body'.bytes = body.bytes + c.bytes
        /\ body'.encoded = body.encoded + c.encoded
    BY <2>1, <2>2, PlusType DEF OnData
  <2>4. body.units \in Nat /\ body.bytes \in Nat /\ body.encoded \in Nat
    BY <2>2 DEF Chunk
  <2>5. c.units \in Nat /\ c.bytes \in Nat /\ c.encoded \in Nat
    BY <2>2 DEF Chunk
  <2>6. /\ UNCHANGED <<asString, counts, declared, stream>>
        /\ arrived' = arrived + 1 /\ arrived < MaxChunks
    BY DEF Data, given
  <2>7. received' = received + Length(c) /\ received' \in Nat
    BY <2>1, <2>5 DEF OnData, Length
  <2>8. \/ outcome' = "tooLarge" /\ attached' = FALSE
        \/ /\ Measure(body', received') <= Limit
           /\ UNCHANGED <<attached, outcome>>
    <3>1. received' \in Nat /\ Measure(body', received') \in Nat /\ Limit \in Nat
      BY <2>3, <2>4, <2>5, <2>7, BodyAssumption DEF Measure
    <3> QED BY <2>1, <2>3, <2>7, <3>1 DEF OnData, Refuse
  <2>9. TypeOK'
    <3>1. arrived' \in 0 .. MaxChunks
      BY <2>6, BodyAssumption
    <3> QED BY <2>3, <2>6, <2>7, <2>8, <3>1
  <2>10. Collecting'
    BY <1>2, <2>3, <2>4, <2>5, <2>6, <2>7, <2>8 DEF Collecting, Length, Measure
  <2>11. Sourced'
    BY <2>1, <2>3, <2>4, <2>5 DEF Sourced, Sources
  <2>12. ParsedWithinLimit' /\ ParsedAsDeclared'
    BY <1>2, <2>8 DEF Collecting, ParsedWithinLimit, ParsedAsDeclared
  <2> QED BY <2>9, <2>10, <2>11, <2>12
<1> QED BY <1>1, <1>2 DEF Data

LEMMA EndKeeps == IInv /\ End => IInv'
<1> SUFFICES ASSUME IInv, End PROVE IInv'
  OBVIOUS
<1> USE DEF IInv, TypeOK, Outcomes
<1>0. UNCHANGED <<asString, counts, declared, arrived, body>> /\ stream' = "ended"
  BY DEF End, given
<1>1. CASE ~attached /\ UNCHANGED <<received, attached, outcome>>
  BY <1>0, <1>1 DEF Collecting, Sourced, ParsedWithinLimit, ParsedAsDeclared, WireLength
<1>2. CASE attached /\ OnEnd
  <2>1. body.units \in Nat /\ body.bytes \in Nat /\ body.encoded \in Nat
    BY DEF Chunk
  <2>2. received' \in Nat /\ outcome' \in {"badLength", "parsed"} /\ attached' = FALSE
    BY <1>2, <2>1 DEF OnEnd, WholeLength
  <2>3. ParsedWithinLimit'
    BY <1>0, <1>2, <2>1, BodyAssumption DEF ParsedWithinLimit, Collecting, Measure
  <2>4. ParsedAsDeclared'
    BY <1>0, <1>2, <2>1
    DEF ParsedAsDeclared, WireLength, OnEnd, WholeLength, Collecting, Sourced, Measure
  <2> QED BY <1>0, <2>2, <2>3, <2>4 DEF Collecting, Sourced
<1> QED BY <1>1, <1>2 DEF End

LEMMA ErrorKeeps == IInv /\ Error => IInv'
<1> SUFFICES ASSUME IInv, Error PROVE IInv'
  OBVIOUS
<1> USE DEF IInv, TypeOK, Outcomes
<1>0. /\ UNCHANGED <<asString, counts, declared, arrived, body, received>>
      /\ stream' = "failed"
  BY DEF Error, given
<1>1. CASE ~attached /\ UNCHANGED <<attached, outcome>>
  BY <1>0, <1>1 DEF Collecting, Sourced, ParsedWithinLimit, ParsedAsDeclared, WireLength
<1>2. CASE attached /\ OnError
  BY <1>0, <1>2
  DEF OnError, Collecting, Sourced, ParsedWithinLimit, ParsedAsDeclared
<1> QED BY <1>1, <1>2 DEF Error

LEMMA StutterKeeps == IInv /\ UNCHANGED vars => IInv'
  BY DEF IInv, TypeOK, vars, given, Collecting, Sourced, ParsedWithinLimit,
         ParsedAsDeclared, WireLength, Measure

LEMMA NextKeeps == IInv /\ [Next]_vars => IInv'
  BY DataKeeps, EndKeeps, ErrorKeeps, StutterKeeps DEF Next

(* IInv is an inductive invariant of every instance of rawBody. *)
LEMMA Inductive == Spec => []IInv
  BY InitIInv, NextKeeps, PTL DEF Spec

(* The variables of rawBody keep their types.                              *)
THEOREM BodyTypeCorrect == Spec => []TypeOK
  BY Inductive, PTL DEF IInv

(* onData refuses a body as soon as it is above the limit: no parser gets  *)
(* one, whatever the chunks.                                               *)
THEOREM WithinLimit == Spec => []ParsedWithinLimit
  BY Inductive, PTL DEF IInv

(* onEnd refuses a body that is not as long as its content-length says,    *)
(* whichever of the lengths it is compared with.                           *)
THEOREM AsDeclared == Spec => []ParsedAsDeclared
  BY Inductive, PTL DEF IInv

(* After onEnd or a refusal the listeners are off: nothing the stream      *)
(* emits later changes what was done with the request.                     *)
THEOREM DecidedOnce == Spec => OneOutcome
<1>1. IInv /\ [Next]_vars => [outcome # "none" => outcome' = outcome]_vars
  BY DEF IInv, Collecting, Next, Data, End, Error, vars
<1> QED BY <1>1, Inductive, PTL DEF Spec, OneOutcome
=============================================================================
