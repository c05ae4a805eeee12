------------------------------ MODULE RawBody ------------------------------
(***************************************************************************)
(* rawBody of lib/contentTypeParser.js: it collects the body of a request  *)
(* for a parser that wants it as a string or as a buffer, and refuses one  *)
(* that is too long, broken or not as long as its content-length says.     *)
(* Lifecycle sees of it the actions HandleRefused, HandleRawBody,          *)
(* RawBodyDone and RawBodyBroken only.                                     *)
(***************************************************************************)
EXTENDS Integers

CONSTANTS
  Limit,           \* the body limit of the route or of the parser
  ContentLengths,  \* the content-length headers of requests, and NoLength
  Chunks,          \* what a chunk of the payload stream may be
  MaxChunks        \* bound on the chunks of a request

NoLength == -1

(* A chunk is as long as its UTF-16 units when the stream decodes it to a  *)
(* string, and as its bytes otherwise; encoded is what it took on the wire *)
(* before a preParsing hook transformed the stream.                        *)
Chunk == [units : Nat, bytes : Nat, encoded : Nat]

ASSUME BodyAssumption ==
  /\ Limit \in Nat
  /\ ContentLengths \subseteq Nat \cup {NoLength}
  /\ Chunks \subseteq Chunk
  /\ MaxChunks \in Nat

VARIABLES
  asString,   \* the parser wants a string, otherwise a buffer
  counts,     \* the payload stream keeps receivedEncodedLength, see Measure
  declared,   \* the content-length of this request
  stream,     \* the payload stream: open, ended or failed
  arrived,    \* how many chunks the stream has emitted
  attached,   \* the listeners of rawBody are attached
  body,       \* the length of what was collected: units, bytes, encoded
  received,   \* receivedLength
  outcome     \* what rawBody did with the request, none so far

given == <<asString, counts, declared>>
vars == <<given, stream, arrived, attached, body, received, outcome>>

Outcomes == {"none", "tooLarge", "broken", "badLength", "parsed"}

(* The variables keep the types rawBody gives them. *)
TypeOK ==
  /\ asString \in BOOLEAN
  /\ counts \in BOOLEAN
  /\ declared \in ContentLengths
  /\ stream \in {"open", "ended", "failed"}
  /\ arrived \in 0 .. MaxChunks
  /\ attached \in BOOLEAN
  /\ body \in Chunk
  /\ received \in Nat
  /\ outcome \in Outcomes

(* contentLength > limit is false for NaN *)
DeclaredTooLarge == declared # NoLength /\ declared > Limit

Init ==
  /\ asString \in BOOLEAN
  /\ counts \in BOOLEAN
  /\ declared \in ContentLengths
  /\ stream = "open"
  /\ arrived = 0
  /\ body = [units |-> 0, bytes |-> 0, encoded |-> 0]
  /\ received = 0
  /\ attached = ~DeclaredTooLarge
  /\ outcome = IF DeclaredTooLarge THEN "tooLarge" ELSE "none"

(* Mutant: receivedEncodedLength is not looked at. *)
MeasureDecoded(b, length) == length

(* payload.receivedEncodedLength || length *)
Measure(b, length) == IF counts /\ b.encoded > 0 THEN b.encoded ELSE length

Length(c) == IF asString THEN c.units ELSE c.bytes

Plus(b, c) ==
  [units |-> b.units + c.units, bytes |-> b.bytes + c.bytes,
   encoded |-> b.encoded + c.encoded]

(* Mutant: only the data listener is removed. *)
RefuseKeepsEnd ==
  /\ outcome' = "tooLarge"
  /\ UNCHANGED attached

(* The listeners are removed and reply.send gets the error. *)
Refuse ==
  /\ outcome' = "tooLarge"
  /\ attached' = FALSE

(* Mutant: the limit is compared before the chunk is counted. *)
OnDataCountsLate(c) ==
  /\ received' = received + Length(c)
  /\ body' = Plus(body, c)
  /\ IF Measure(body, received) > Limit
     THEN Refuse
     ELSE UNCHANGED <<attached, outcome>>

(* onData. A chunk that is refused is counted here, never parsed. *)
OnData(c) ==
  /\ received' = received + Length(c)
  /\ body' = Plus(body, c)
  /\ IF Measure(Plus(body, c), received + Length(c)) > Limit
     THEN Refuse
     ELSE UNCHANGED <<attached, outcome>>

(* Mutant: the length of the string is compared. *)
WholeLengthInUnits == received

(* Mutant: the header is taken for the length of the string. *)
WholeLengthDeclared == IF asString THEN declared ELSE received

(* The length onEnd compares: that of the string in bytes. *)
WholeLength == IF asString THEN body.bytes ELSE received

OnEnd ==
  /\ attached' = FALSE
  /\ received' = WholeLength
  /\ outcome' = IF declared # NoLength /\ Measure(body, WholeLength) # declared
                THEN "badLength" ELSE "parsed"

(* Mutant: the listeners go and nothing is sent. *)
OnErrorSilent == attached' = FALSE /\ UNCHANGED outcome

(* onEnd with an error of the stream, which is sent with status 400 *)
OnError == attached' = FALSE /\ outcome' = "broken"

(* payload.resume() was called. Removing the listeners does not pause the  *)
(* stream; what it emits then reaches nobody here.                         *)
Flowing == stream = "open" /\ ~DeclaredTooLarge

(* What comes out of the payload stream was received before: there is no   *)
(* byte of the body as long as no encoded byte has arrived.                *)
Sources(c) == body.encoded + c.encoded = 0 => c.units = 0 /\ c.bytes = 0

Data ==
  /\ Flowing /\ arrived < MaxChunks
  /\ arrived' = arrived + 1
  /\ \/ attached /\ \E c \in Chunks : Sources(c) /\ OnData(c)
     \/ ~attached /\ UNCHANGED <<body, received, attached, outcome>>
  /\ UNCHANGED <<given, stream>>

End ==
  /\ Flowing
  /\ stream' = "ended"
  /\ \/ attached /\ OnEnd
     \/ ~attached /\ UNCHANGED <<received, attached, outcome>>
  /\ UNCHANGED <<given, arrived, body>>

Error ==
  /\ Flowing
  /\ stream' = "failed"
  /\ \/ attached /\ OnError
     \/ ~attached /\ UNCHANGED <<attached, outcome>>
  /\ UNCHANGED <<given, arrived, body, received>>

Next == Data \/ End \/ Error

(* Node.js ends or breaks every stream that is resumed. *)
Spec == Init /\ [][Next]_vars /\ WF_vars(End \/ Error)

-----------------------------------------------------------------------------
(* What came over the wire: the bytes, unless a hook transformed them. *)
WireLength == IF counts THEN body.encoded ELSE body.bytes

(* No body above the limit is given to the parser, whatever chunks it came *)
(* in, by the measure taken while it arrives: the encoded bytes when they  *)
(* are counted, and else the length in units or bytes.                     *)
ParsedWithinLimit ==
  outcome = "parsed" =>
    IF counts THEN body.encoded <= Limit
    ELSE IF asString THEN body.units <= Limit ELSE body.bytes <= Limit

(* docs/Server.md: bodyLimit is "the maximum payload, in bytes, the server *)
(* is allowed to accept".                                                  *)
ParsedWithinBytes == outcome = "parsed" => WireLength <= Limit

(* What is parsed is as long, in bytes on the wire, as the request says in *)
(* its content-length, whatever it was cut into and however many units the *)
(* string has.                                                             *)
ParsedAsDeclared ==
  outcome = "parsed" /\ declared # NoLength => WireLength = declared

(* A request is answered, or given to its parser, once: no event of the    *)
(* stream that comes after that changes what was done with it.             *)
OneOutcome == [][outcome # "none" => outcome' = outcome]_vars

(* No request whose stream is over is left without an answer. *)
Answered == (stream # "open" \/ DeclaredTooLarge) ~> (outcome # "none")
=============================================================================
