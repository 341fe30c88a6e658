---------------------------- MODULE ConnectionProofs ----------------------------
(***************************************************************************)
(* Connection, for every set of requests and every value of the limits:    *)
(* first what the two parsers of HttpMessage return, whatever they are     *)
(* given; then types, wakeups and the bound of the send buffer; the body   *)
(* on its way to the script; and what is sent.                             *)
(***************************************************************************)
EXTENDS Connection, SequenceTheorems, FiniteSetTheorems, WellFoundedInduction, TLAPS

(***************************************************************************)
(* The two parsers.                                                        *)
(***************************************************************************)
(* A non-empty set of naturals has a least element.                        *)
LEMMA LeastElement ==
  ASSUME NEW T, T \subseteq Nat, T # {}
  PROVE  \E x \in T : \A y \in T : x <= y
  <1>1. PICK x \in T : \A y \in T : ~ (<<y, x>> \in OpToRel(<, Nat))
    BY NatLessThanWellFounded, WFMin
  <1>2. \A y \in T : y < x => <<y, x>> \in OpToRel(<, Nat)
    BY SMT DEF OpToRel
  <1>3. \A y \in T : ~ (y < x)
    BY <1>1, <1>2
  <1> QED BY <1>3

(* The two pieces a sequence is cut into at k.                             *)
LEMMA TakeDrop ==
  ASSUME NEW S, NEW s \in Seq(S), NEW k \in 0 .. Len(s)
  PROVE  /\ Take(s, k) \in Seq(S) /\ Len(Take(s, k)) = k
         /\ Drop(s, k) \in Seq(S) /\ Len(Drop(s, k)) = Len(s) - k
         /\ \A i \in 1 .. k : Take(s, k)[i] = s[i]
         /\ \A i \in 1 .. (Len(s) - k) : Drop(s, k)[i] = s[k + i]
  BY DEF Take, Drop

(* A piece out of the middle of a sequence.                                *)
LEMMA SliceType ==
  ASSUME NEW S, NEW s \in Seq(S), NEW m \in Nat, NEW n \in Nat, m + n <= Len(s)
  PROVE  /\ SubSeq(s, m + 1, m + n) \in Seq(S)
         /\ Len(SubSeq(s, m + 1, m + n)) = n
         /\ \A i \in 1 .. n : SubSeq(s, m + 1, m + n)[i] = s[m + i]
  <1>1. Len(s) \in Nat /\ m + 1 \in Int /\ m + n \in Int
    OBVIOUS
  <1>2. \A i \in (m + 1) .. (m + n) : s[i] \in S
    <2> TAKE i \in (m + 1) .. (m + n)
    <2>1. i \in 1 .. Len(s)
      BY <1>1
    <2> QED BY <2>1
  <1> DEFINE t == SubSeq(s, m + 1, m + n)
  <1>3. /\ t \in Seq(S) /\ Len(t) = IF m + 1 <= m + n THEN (m + n) - (m + 1) + 1 ELSE 0
        /\ \A i \in 1 .. (m + n) - (m + 1) + 1 : t[i] = s[(m + 1) + i - 1]
    BY <1>1, <1>2, SubSeqProperties
  <1>4. (m + n) - (m + 1) + 1 = n /\ (~(m + 1 <= m + n) => n = 0)
    OBVIOUS
  <1>5. \A i \in 1 .. n : (m + 1) + i - 1 = m + i
    OBVIOUS
  <1> HIDE DEF t
  <1>6. t \in Seq(S) /\ Len(t) = n /\ \A i \in 1 .. n : t[i] = s[m + i]
    BY <1>3, <1>4, <1>5
  <1> QED BY <1>6 DEF t

(* The smaller of two numbers.                                             *)
LEMMA LeastBounds ==
  ASSUME NEW a \in Nat, NEW b \in Nat
  PROVE  /\ Least(a, b) \in Nat /\ Least(a, b) <= a /\ Least(a, b) <= b
         /\ a > 0 /\ b > 0 => Least(a, b) > 0
  BY DEF Least

(* What fits into the room there is, and the rest.                         *)
LEMMA PiecesType ==
  ASSUME NEW S, NEW s \in Seq(S), NEW room \in Nat
  PROVE  LET w == Least(room, Len(s))
         IN  /\ w \in Nat /\ w <= room /\ w <= Len(s)
             /\ room > 0 /\ s # <<>> => w > 0
             /\ Take(s, w) \in Seq(S) /\ Len(Take(s, w)) = w
             /\ Drop(s, w) \in Seq(S) /\ Len(Drop(s, w)) = Len(s) - w
  <1> DEFINE w == Least(room, Len(s))
  <1>1. /\ w \in Nat /\ w <= room /\ w <= Len(s) /\ w \in 0 .. Len(s)
        /\ room > 0 /\ s # <<>> => w > 0
    BY EmptySeq DEF Least
  <1> HIDE DEF w
  <1>2. /\ Take(s, w) \in Seq(S) /\ Len(Take(s, w)) = w
        /\ Drop(s, w) \in Seq(S) /\ Len(Drop(s, w)) = Len(s) - w
    BY <1>1, TakeDrop
  <1>3. QED BY <1>1, <1>2 DEF w

(* FirstIn finds the first token of the given kinds.                       *)
LEMMA FirstInBounds ==
  ASSUME NEW s \in Seq(Token), NEW kinds
  PROVE  /\ FirstIn(s, kinds) \in 1 .. (Len(s) + 1)
         /\ FirstIn(s, kinds) <= Len(s) => s[FirstIn(s, kinds)].t \in kinds
         /\ \A j \in 1 .. (FirstIn(s, kinds) - 1) : s[j].t \notin kinds
  <1>1. CASE \E i \in DOMAIN s : s[i].t \in kinds
    <2> DEFINE T == {i \in DOMAIN s : s[i].t \in kinds}
               Q(i) == /\ s[i].t \in kinds
                       /\ \A j \in 1..(i-1) : s[j].t \notin kinds
    <2>1. T \subseteq Nat /\ T # {}
      BY <1>1
    <2>2. PICK x \in T : \A y \in T : x <= y
      <3> HIDE DEF T
      <3> QED BY <2>1, LeastElement
    <2>3. x \in DOMAIN s /\ Q(x)
      BY <2>2
    <2>4. FirstIn(s, kinds) = CHOOSE i \in DOMAIN s : Q(i)
      BY <1>1 DEF FirstIn
    <2>5. FirstIn(s, kinds) \in DOMAIN s /\ Q(FirstIn(s, kinds))
      <3> HIDE DEF Q
      <3> QED BY <2>3, <2>4
    <2> QED BY <2>5
  <1>2. CASE ~ \E i \in DOMAIN s : s[i].t \in kinds
    BY <1>2 DEF FirstIn
  <1> QED BY <1>1, <1>2

(* What HTTPRequest makes of some bytes: a verdict, at most that many more *)
(* body tokens, and the tokens it did not use.                             *)
ParseResult == [st : {"more", "done", "error"}, body : Seq(Token), left : Seq(Token)]

(* A Content-Length body takes no more tokens than there are.              *)
LEMMA ParseLengthBodyType ==
  ASSUME NEW r \in Request, NEW bytes \in Seq(Token), NEW s \in Seq(Token)
  PROVE  /\ ParseLengthBody(r, bytes, s) \in ParseResult
         /\ Len(ParseLengthBody(r, bytes, s).body) <= Len(bytes) + Len(s)
  <1> DEFINE k == IF r.len > Len(bytes) THEN Least(r.len - Len(bytes), Len(s)) ELSE 0
  <1>0. r.len \in Nat /\ r.max \in Nat
    BY DEF Request
  <1>1. k \in 0 .. Len(s)
    <2>1. CASE r.len > Len(bytes)
      <3>1. r.len - Len(bytes) \in Nat /\ Len(s) \in Nat
        BY <1>0, <2>1
      <3>2. Least(r.len - Len(bytes), Len(s)) \in 0 .. Len(s)
        BY <3>1 DEF Least
      <3> QED BY <2>1, <3>2, Zenon
    <2>2. CASE ~(r.len > Len(bytes))
      BY <2>2
    <2> QED BY <2>1, <2>2
  <1> HIDE DEF k
  <1>2. /\ Take(s, k) \in Seq(Token) /\ Len(Take(s, k)) = k
        /\ Drop(s, k) \in Seq(Token)
    BY <1>1, TakeDrop
  <1>3. bytes \o Take(s, k) \in Seq(Token) /\ Len(bytes \o Take(s, k)) = Len(bytes) + k
    BY <1>1, <1>2, ConcatProperties
  <1>4. ParseLengthBody(r, bytes, s) =
          IF r.max > 0 /\ r.len > r.max THEN Parsed("error", bytes, s)
          ELSE Parsed(IF Len(bytes) + k >= r.len THEN "done" ELSE "more",
                      bytes \o Take(s, k), Drop(s, k))
    BY DEF ParseLengthBody, k
  <1> QED BY <1>1, <1>2, <1>3, <1>4 DEF Parsed, ParseResult

(* A chunked body takes no more tokens than there are.                     *)
LEMMA ParseChunkedBodyType ==
  ASSUME NEW r \in Request, NEW bytes \in Seq(Token), NEW s \in Seq(Token)
  PROVE  /\ ParseChunkedBody(r, bytes, s) \in ParseResult
         /\ Len(ParseChunkedBody(r, bytes, s).body) <= Len(bytes) + Len(s)
  <1> DEFINE k == FirstStop(s) - 1
             all == bytes \o Take(s, k)
  <1>1. k \in 0 .. Len(s)
    BY FirstInBounds DEF FirstStop
  <1>2. /\ Take(s, k) \in Seq(Token) /\ Len(Take(s, k)) = k
        /\ Drop(s, k) \in Seq(Token)
    BY <1>1, TakeDrop
  <1>3. k # Len(s) => Drop(s, k + 1) \in Seq(Token)
    <2>1. k # Len(s) => k + 1 \in 0 .. Len(s)
      BY <1>1
    <2> QED BY <2>1, TakeDrop
  <1>4. all \in Seq(Token) /\ Len(all) = Len(bytes) + k
    BY <1>2
  <1> HIDE DEF k, all
  <1>5. ParseChunkedBody(r, bytes, s) =
          CASE r.max > 0 /\ Len(all) > r.max -> Parsed("error", all, Drop(s, k))
            [] OTHER ->
                 IF k = Len(s) THEN Parsed("more", all, <<>>)
                 ELSE IF s[k + 1].t = "end" THEN Parsed("done", all, Drop(s, k + 1))
                 ELSE Parsed("error", all, Drop(s, k + 1))
    BY DEF ParseChunkedBody, k, all
  <1> QED BY <1>1, <1>2, <1>3, <1>4, <1>5 DEF Parsed, ParseResult

(* Whatever the framing, a body is made of tokens that were read.          *)
LEMMA ParseBodyType ==
  ASSUME NEW r \in Request, NEW bytes \in Seq(Token), NEW s \in Seq(Token)
  PROVE  /\ ParseBody(r, bytes, s) \in ParseResult
         /\ Len(ParseBody(r, bytes, s).body) <= Len(bytes) + Len(s)
  <1>1. r.framing \in {"none", "length", "chunked"}
    BY DEF Request
  <1>2. CASE r.framing = "none"
    BY <1>2 DEF ParseBody, Parsed, ParseResult
  <1>3. CASE r.framing = "length"
    BY <1>3, ParseLengthBodyType DEF ParseBody
  <1>4. CASE r.framing = "chunked"
    BY <1>4, ParseChunkedBodyType DEF ParseBody
  <1> QED BY <1>1, <1>2, <1>3, <1>4

(* A request whose headers end in s: its body lies behind the blank line.  *)
LEMMA ParseRequestType ==
  ASSUME NEW r \in Request, NEW s \in Seq(Token), HasBlankLine(s)
  PROVE  /\ ParseRequest(r, s) \in ParseResult
         /\ Len(ParseRequest(r, s).body) <= Len(s) - FirstBlank(s)
         /\ FirstBlank(s) \in 1 .. Len(s)
  <1> DEFINE h == FirstBlank(s)
  <1>1. h \in 1 .. Len(s)
    <2>1. h \in 1 .. (Len(s) + 1) /\ \A j \in 1 .. (h - 1) : s[j].t \notin BlankLine
      BY FirstInBounds DEF FirstBlank
    <2> QED BY <2>1 DEF HasBlankLine
  <1> HIDE DEF h
  <1>2. Drop(s, h) \in Seq(Token) /\ Len(Drop(s, h)) = Len(s) - h
    <2>1. h \in 0 .. Len(s)
      BY <1>1
    <2> QED BY <2>1, TakeDrop
  <1>3. /\ ParseBody(r, <<>>, Drop(s, h)) \in ParseResult
        /\ Len(ParseBody(r, <<>>, Drop(s, h)).body) <= Len(s) - h
    <2>1. <<>> \in Seq(Token) /\ Len(<<>>) = 0
      OBVIOUS
    <2>2. /\ ParseBody(r, <<>>, Drop(s, h)) \in ParseResult
          /\ Len(ParseBody(r, <<>>, Drop(s, h)).body) <= Len(<<>>) + Len(Drop(s, h))
      BY <1>2, <2>1, ParseBodyType
    <2> QED BY <1>1, <1>2, <2>1, <2>2
  <1>4. ParseRequest(r, s) =
          CASE \/ s[h].t # "hdr"
               \/ \E j \in 1..(h-1) : s[j].t # "part" -> Parsed("error", <<>>, <<>>)
            [] OTHER ->
                 IF s[h].n # 1 THEN Parsed("done", <<>>, Drop(s, h))
                 ELSE IF r.kind = "invalid" THEN Parsed("error", <<>>, <<>>)
                 ELSE ParseBody(r, <<>>, Drop(s, h))
    BY DEF ParseRequest, h
  <1>5. /\ Parsed("error", <<>>, <<>>) \in ParseResult
        /\ Parsed("done", <<>>, Drop(s, h)) \in ParseResult
        /\ Len(Parsed("error", <<>>, <<>>).body) <= Len(s) - h
        /\ Len(Parsed("done", <<>>, Drop(s, h)).body) <= Len(s) - h
    BY <1>1, <1>2 DEF Parsed, ParseResult
  <1>6. ParseRequest(r, s) \in ParseResult /\ Len(ParseRequest(r, s).body) <= Len(s) - h
    BY <1>3, <1>4, <1>5, Zenon
  <1> QED BY <1>1, <1>6 DEF h

(* What the decoder of a CGI body makes of some bytes.                     *)
DecodeResult == [st : {"ok", "eof", "error"}, data : Seq(Token),
                 state : {"none", "size", "trailers", "done"}, held : Seq(Token)]

(* The decoder hands on no more than it was given and held.                *)
LEMMA DecodeType ==
  ASSUME NEW state \in {"none", "size", "trailers", "done"},
         NEW held \in Seq(Token), NEW s \in Seq(Token)
  PROVE  /\ decode_chunked_for_cgi(state, held, s) \in DecodeResult
         /\ Len(decode_chunked_for_cgi(state, held, s).data) <= Len(held) + Len(s)
  <1> DEFINE all == held \o s
             k == FirstStop(all) - 1
             b == FirstBlank(all)
  <1>0. all \in Seq(Token) /\ Len(all) = Len(held) + Len(s)
    OBVIOUS
  <1> HIDE DEF all
  <1>1. k \in 0 .. Len(all)
    BY <1>0, FirstInBounds DEF FirstStop
  <1>2. Take(all, k) \in Seq(Token) /\ Len(Take(all, k)) = k
    BY <1>0, <1>1, TakeDrop
  <1>3. k # Len(all) => Drop(all, k + 1) \in Seq(Token)
    <2>1. k # Len(all) => k + 1 \in 0 .. Len(all)
      BY <1>0, <1>1
    <2> QED BY <1>0, <2>1, TakeDrop
  <1>4. HasBlankLine(all) => Drop(all, b) \in Seq(Token)
    <2>1. HasBlankLine(all) => b \in 0 .. Len(all)
      <3>1. b \in 1 .. (Len(all) + 1) /\ \A j \in 1 .. (b - 1) : all[j].t \notin BlankLine
        BY <1>0, FirstInBounds DEF FirstBlank
      <3> QED BY <1>0, <3>1 DEF HasBlankLine
    <2> QED BY <1>0, <2>1, TakeDrop
  <1> HIDE DEF k, b
  <1>5. decode_chunked_for_cgi(state, held, s) =
          CASE state = "size" ->
                 IF k = Len(all) THEN Decoded("ok", all, "size", <<>>)
                 ELSE IF all[k + 1].t = "end"
                 THEN Decoded("eof", Take(all, k), "done", Drop(all, k + 1))
                 ELSE Decoded("error", <<>>, "size", Drop(all, k + 1))
            [] state = "trailers" ->
                 IF HasBlankLine(all)
                 THEN Decoded("eof", <<>>, "done", Drop(all, b))
                 ELSE Decoded("ok", <<>>, "trailers", <<>>)
            [] OTHER -> Decoded("eof", <<>>, "done", all)
    BY DEF decode_chunked_for_cgi, all, k, b
  <1> QED BY <1>0, <1>1, <1>2, <1>3, <1>4, <1>5 DEF Decoded, DecodeResult

-----------------------------------------------------------------------------

USE DEF peerVars, childVars, pollVars, requestVars, outputVars, stdinVars,
        clientVars

(***************************************************************************)
(* The pieces of data the actions move.                                    *)
(***************************************************************************)
LEMMA UnitTypes ==
  /\ ErrorPage \in Seq(Unit) /\ StaticPage \in Seq(Unit)
  /\ HttpHeader \in Unit /\ <<HttpHeader>> \in Seq(Unit) /\ Len(<<HttpHeader>>) = 1
  <1>1. HttpHeader \in Unit
    BY DEF HttpHeader, Unit
  <1>2. ErrorPage \in Seq(Unit)
    BY DEF ErrorPage, Unit
  <1>3. StaticPage \in [1 .. StaticLen -> Unit]
    BY LimitsAssumption DEF StaticPage, Unit
  <1> QED BY <1>1, <1>2, <1>3, LimitsAssumption

(* The units a read of the CGI's stdout returns.                           *)
LEMMA CgiUnitsType ==
  ASSUME NEW a \in Nat, NEW b \in Nat, a <= b
  PROVE  CgiUnits(a, b) \in Seq(Unit) /\ Len(CgiUnits(a, b)) = b - a
  <1>1. b - a \in Nat
    OBVIOUS
  <1>2. CgiUnits(a, b) \in [1 .. (b - a) -> Unit]
    BY DEF CgiUnits, Unit
  <1> QED BY <1>1, <1>2

(* The request and the counters of what was sent and read of it.           *)
LEMMA RequestTypes ==
  ASSUME TypeOK
  PROVE  /\ req \in Requests /\ req \in Request /\ req.stream \in Seq(Token)
         /\ req.len \in Nat /\ req.hdr \in Nat /\ req.lf \in Nat /\ req.out \in Nat
         /\ arrived \in Nat /\ taken \in Nat /\ taken <= arrived
         /\ arrived <= Len(req.stream)
         /\ childOut \in Nat /\ outRead \in Nat /\ outRead <= childOut
         /\ rcvd \in Nat /\ childRead \in Nat
  <1>1. req \in Requests /\ req \in Request
    BY RequestsAssumption DEF TypeOK, KernelTypes, ClientTypes
  <1>2. /\ req.stream \in Seq(Token)
        /\ req.len \in Nat /\ req.hdr \in Nat /\ req.lf \in Nat /\ req.out \in Nat
    BY <1>1 DEF Request
  <1>3. /\ arrived \in 0 .. Len(req.stream) /\ taken \in 0 .. arrived
        /\ childOut \in 0 .. req.out /\ outRead \in 0 .. childOut
        /\ sent \in Seq(Unit) /\ rcvd \in 0 .. Len(sent)
        /\ toChild \in Seq(Token) /\ childRead \in 0 .. Len(toChild)
    BY DEF TypeOK, KernelTypes
  <1> QED BY <1>1, <1>2, <1>3

(* Writing what there is room for stays within the capacities.             *)
LEMMA RoomTypes ==
  ASSUME TypeOK
  PROVE  /\ PipeRoom \in Nat /\ SockRoom \in Nat
         /\ sent \in Seq(Unit) /\ rcvd \in Nat /\ rcvd <= Len(sent)
         /\ \A n \in Nat : n <= SockRoom => Len(sent) + n - rcvd <= SockCap
         /\ toChild \in Seq(Token) /\ childRead \in Nat /\ childRead <= Len(toChild)
         /\ \A n \in Nat : n <= PipeRoom => Len(toChild) + n - childRead <= PipeCap
  <1>1. /\ sent \in Seq(Unit) /\ rcvd \in 0 .. Len(sent)
        /\ toChild \in Seq(Token) /\ childRead \in 0 .. Len(toChild)
        /\ Len(sent) - rcvd <= SockCap /\ Len(toChild) - childRead <= PipeCap
    BY DEF TypeOK, KernelTypes
  <1>2. SockRoom \in Nat /\ SockRoom = SockCap - (Len(sent) - rcvd)
    BY <1>1, LimitsAssumption DEF SockRoom
  <1>3. CASE child = "run" /\ "in" \in fds
    <2>1. PipeRoom \in Nat /\ PipeRoom = PipeCap - (Len(toChild) - childRead)
      BY <1>1, <1>3, LimitsAssumption DEF PipeRoom
    <2> QED BY <1>1, <1>2, <2>1, LimitsAssumption
  <1>4. CASE ~(child = "run" /\ "in" \in fds)
    <2>1. PipeRoom = 0
      BY <1>4 DEF PipeRoom
    <2> QED BY <1>1, <1>2, <2>1, LimitsAssumption
  <1> QED BY <1>3, <1>4

(* A read returns what has arrived, at most a buffer of it.                *)
LEMMA ChunkType ==
  ASSUME TypeOK
  PROVE  /\ Chunk \in Seq(Token) /\ Len(Chunk) <= ReadMax
         /\ Len(Chunk) <= arrived - taken
         /\ taken < arrived => Len(Chunk) > 0
  <1> DEFINE n == Least(ReadMax, arrived - taken)
  <1>1. n \in Nat /\ n <= ReadMax /\ n <= arrived - taken /\ (taken < arrived => n > 0)
    BY RequestTypes, LimitsAssumption DEF Least
  <1> HIDE DEF n
  <1>2. /\ SubSeq(req.stream, taken + 1, taken + n) \in Seq(Token)
        /\ Len(SubSeq(req.stream, taken + 1, taken + n)) = n
    <2>1. /\ req.stream \in Seq(Token) /\ taken \in Nat /\ n \in Nat
          /\ taken + n <= Len(req.stream)
      BY <1>1, RequestTypes
    <2>2. \A s \in Seq(Token) : \A m, k \in Nat : m + k <= Len(s) =>
            SubSeq(s, m + 1, m + k) \in Seq(Token) /\ Len(SubSeq(s, m + 1, m + k)) = k
      BY SliceType
    <2> QED BY <2>1, <2>2, Zenon
  <1> QED BY <1>1, <1>2 DEF Chunk, n

(* What the chunk decoder makes of a read, or the bytes themselves.        *)
LEMMA BodyDecodedType ==
  ASSUME TypeOK
  PROVE  BodyDecoded \in DecodeResult
  <1>1. CASE Chunked
    BY <1>1, ChunkType, DecodeType DEF BodyDecoded, TypeOK, ClientTypes
  <1>2. CASE ~Chunked
    BY <1>2, ChunkType DEF BodyDecoded, Decoded, DecodeResult, TypeOK, ClientTypes
  <1> QED BY <1>1, <1>2

(* What HTTPRequest makes of a read.                                       *)
LEMMA VerdictType ==
  ASSUME TypeOK, Started \/ HasBlankLine(RequestBytes)
  PROVE  RequestBytes \in Seq(Token) /\ Verdict \in ParseResult
  <1>1. RequestBytes \in Seq(Token)
    BY ChunkType, ConcatProperties DEF RequestBytes, TypeOK, ClientTypes
  <1>2. req \in Request /\ body \in Seq(Token)
    BY RequestTypes DEF TypeOK, KernelTypes, ClientTypes
  <1>3. CASE Started
    BY <1>1, <1>2, <1>3, ParseBodyType DEF Verdict
  <1>4. CASE ~Started
    BY <1>1, <1>2, <1>4, ParseRequestType DEF Verdict
  <1> QED BY <1>1, <1>3, <1>4

(* The decoder state dispatch_cgi starts the CGI with.                     *)
LEMMA HandOverType ==
  ASSUME TypeOK, Started \/ HasBlankLine(RequestBytes)
  PROVE  HandOver \in DecodeResult
  <1>1. Verdict.left \in Seq(Token)
    BY VerdictType DEF ParseResult
  <1>2. decode_chunked_for_cgi("trailers", <<>>, Verdict.left) \in DecodeResult
    <2>1. <<>> \in Seq(Token) /\ "trailers" \in {"none", "size", "trailers", "done"}
      OBVIOUS
    <2> QED BY <1>1, <2>1, DecodeType, Zenon
  <1>3. /\ Decoded("ok", <<>>, "none", <<>>) \in DecodeResult
        /\ Decoded("ok", <<>>, "trailers", <<>>) \in DecodeResult
        /\ Decoded("ok", <<>>, "size", <<>>) \in DecodeResult
    BY DEF Decoded, DecodeResult
  <1> QED BY <1>2, <1>3 DEF HandOver

(* The answer to a CGI that ended without CRLF CRLF.                       *)
LEMMA FinalResponseType ==
  ASSUME TypeOK
  PROVE  FinalResponse \in Seq(Unit)
  <1>1. CASE req.lf > 0 /\ Len(cgi_output) >= req.lf
    <2>1. cgi_output \in Seq(Unit)
      BY DEF TypeOK, KernelTypes, ClientTypes
    <2>2. req.lf \in 0 .. Len(cgi_output)
      BY <1>1, <2>1, RequestTypes
    <2>3. Drop(cgi_output, req.lf) \in Seq(Unit)
      BY <2>1, <2>2, TakeDrop
    <2>4. <<HttpHeader>> \o Drop(cgi_output, req.lf) \in Seq(Unit)
      BY <2>3, UnitTypes, ConcatProperties
    <2> QED BY <1>1, <2>4 DEF FinalResponse
  <1>2. CASE ~(req.lf > 0 /\ Len(cgi_output) >= req.lf)
    BY <1>2, UnitTypes DEF FinalResponse
  <1> QED BY <1>1, <1>2

-----------------------------------------------------------------------------
(***************************************************************************)
(* Type correctness.                                                       *)
(***************************************************************************)
LEMMA RemoveTypes ==
  ASSUME TypeOK, NEW w \in {"done", "peer", "timeout", "error"}, remove_client(w)
  PROVE  ClientTypes' /\ (at' \in {"poll", "scan"} => LoopTypes')
  <1>1. ClientTypes'
    BY DEF ClientTypes, remove_client
  <1>2. ASSUME at' \in {"poll", "scan"} PROVE LoopTypes'
    BY <1>2 DEF TypeOK, LoopTypes, remove_client
  <1> QED BY <1>1, <1>2

(* remove_client leaves what the kernel holds alone.                       *)
LEMMA RemoveKernelTypes ==
  ASSUME TypeOK, NEW w, remove_client(w), taken' = taken, sent' = sent
  PROVE  KernelTypes'
  BY DEF TypeOK, KernelTypes, remove_client, Reap

(* The counters of tokens and units read and written.                      *)
LEMMA KernelStep ==
  ASSUME TypeOK, [Next]_vars PROVE KernelTypes'
  <1> USE DEF TypeOK
  <1>1. ASSUME UNCHANGED <<req, peer, arrived, rcvd, child, childRead, childOut,
                           taken, sent, toChild, outRead>>
        PROVE KernelTypes'
    BY <1>1 DEF KernelTypes
  <1>2. ASSUME UNCHANGED <<req, peer, arrived, rcvd, child, childRead, childOut,
                           sent, toChild, outRead>>,
               taken < arrived, taken' = taken + Len(Chunk)
        PROVE KernelTypes'
    <2>1. taken' \in 0 .. arrived
      BY <1>2, ChunkType, RequestTypes
    <2> QED BY <1>2, <2>1 DEF KernelTypes
  <1>3. ASSUME ReadBackpressure \/ ReadEof \/ ReadAgain PROVE KernelTypes'
    BY <1>1, <1>3 DEF ReadBackpressure, ReadEof, ReadAgain
  <1>4. ASSUME ReadDropped \/ ReadBadChunk PROVE KernelTypes'
    BY <1>2, <1>4 DEF ReadDropped, ReadBadChunk, BodyArrives
  <1>5. ASSUME AwaitHeaders \/ RejectRequest \/ AwaitBody \/ AnswerRequest \/ DispatchFails
        PROVE KernelTypes'
    BY <1>2, <1>5 DEF AwaitHeaders, RejectRequest, AwaitBody, AnswerRequest,
         DispatchFails, RespondWith, Parsing, BytesArrive, OnlyWriting
  <1>6. ASSUME Poll \/ StreamIdle \/ StreamBlocked \/ CgiOutputAgain
               \/ StdinError \/ StdinOrphan \/ StdinClose \/ StdinKeep \/ EndScan
        PROVE KernelTypes'
    BY <1>1, <1>6 DEF Poll, StreamIdle, StreamBlocked, CgiOutputAgain, StdinError,
         StdinOrphan, StdinClose, StdinKeep, EndScan, StdinEvents
  <1>7. ASSUME ClientError \/ RequestEof \/ StreamDone \/ StreamFails
               \/ ResponseFails \/ TimeOut
        PROVE KernelTypes'
    BY <1>7, RemoveKernelTypes DEF ClientError, RequestEof, StreamDone, StreamFails,
                                   ResponseFails, TimeOut
  <1>8. ASSUME PeerFin \/ PeerRst \/ ChildClose \/ ChildDie \/ Tick PROVE KernelTypes'
    BY <1>8 DEF KernelTypes, PeerFin, PeerRst, ChildClose, ChildDie, Tick,
         serverVars
  <1>9. ASSUME PeerSend PROVE KernelTypes'
    <2>1. arrived' \in 0 .. Len(req.stream) /\ taken \in 0 .. arrived'
      BY <1>9, RequestTypes DEF PeerSend
    <2> QED BY <1>9, <2>1 DEF KernelTypes, PeerSend, serverVars
  <1>10. ASSUME PeerRecv PROVE KernelTypes'
    <2>1. rcvd' \in 0 .. Len(sent) /\ Len(sent) - rcvd' <= SockCap
      BY <1>10, RoomTypes, LimitsAssumption DEF PeerRecv, KernelTypes
    <2> QED BY <1>10, <2>1 DEF KernelTypes, PeerRecv, serverVars
  <1>11. ASSUME ChildRead PROVE KernelTypes'
    <2>1. childRead' \in 0 .. Len(toChild) /\ Len(toChild) - childRead' <= PipeCap
      BY <1>11, RoomTypes, LimitsAssumption DEF ChildRead, KernelTypes
    <2> QED BY <1>11, <2>1 DEF KernelTypes, ChildRead, serverVars
  <1>12. ASSUME ChildWrite PROVE KernelTypes'
    <2>1. /\ childOut' \in 0 .. req.out /\ outRead \in 0 .. childOut'
          /\ childOut' - outRead <= PipeCap
      <3>1. /\ childOut < req.out /\ childOut - outRead < PipeCap
            /\ childOut' = childOut + 1
        BY <1>12 DEF ChildWrite
      <3>2. /\ childOut \in Nat /\ outRead \in Nat /\ outRead <= childOut
            /\ req.out \in Nat /\ PipeCap \in Nat
        BY RequestTypes, LimitsAssumption
      <3> QED BY <3>1, <3>2
    <2> QED BY <1>12, <2>1 DEF KernelTypes, ChildWrite, serverVars
  <1>13. ASSUME ForwardBody PROVE KernelTypes'
    <2> DEFINE data == BodyDecoded.data
               w    == Least(PipeRoom, Len(data))
    <2>1. data \in Seq(Token)
      BY BodyDecodedType DEF DecodeResult
    <2>2. /\ w \in Nat /\ w <= PipeRoom
          /\ Take(data, w) \in Seq(Token) /\ Len(Take(data, w)) = w
      BY <2>1, RoomTypes, PiecesType
    <2>3. toChild' = toChild \o Take(data, w)
      BY <1>13 DEF ForwardBody, BodyEnds, CanClose
    <2> HIDE DEF data, w
    <2>4. toChild \in Seq(Token) /\ childRead \in 0 .. Len(toChild)
      BY DEF KernelTypes
    <2>5. /\ toChild' \in Seq(Token) /\ Len(toChild') = Len(toChild) + w
          /\ childRead \in 0 .. Len(toChild') /\ Len(toChild') - childRead <= PipeCap
      <3>1. toChild' \in Seq(Token) /\ Len(toChild') = Len(toChild) + w
        BY <2>2, <2>3, <2>4, ConcatProperties
      <3> QED BY <2>2, <3>1, RoomTypes
    <2>6. taken' \in 0 .. arrived
      <3>1. taken < arrived /\ taken' = taken + Len(Chunk)
        BY <1>13 DEF ForwardBody, BodyArrives, BodyEnds, CanClose
      <3>2. Len(Chunk) \in Nat /\ Len(Chunk) <= arrived - taken
        BY ChunkType
      <3>3. taken \in Nat /\ arrived \in Nat
        BY RequestTypes
      <3> QED BY <3>1, <3>2, <3>3
    <2> QED BY <1>13, <2>5, <2>6 DEF KernelTypes, ForwardBody, BodyEnds, CanClose
  <1>14. ASSUME dispatch_cgi PROVE KernelTypes'
    <2> DEFINE data == Verdict.body
               room == IF child' = "run" THEN PipeCap ELSE 0
               w    == Least(room, Len(data))
    <2>1. data \in Seq(Token)
      BY <1>14, VerdictType DEF ParseResult, dispatch_cgi, Parsing
    <2>2. /\ w \in Nat /\ w <= PipeCap
          /\ Take(data, w) \in Seq(Token) /\ Len(Take(data, w)) = w
      <3>1. room \in Nat /\ room <= PipeCap
        BY LimitsAssumption
      <3> HIDE DEF room
      <3>2. /\ w \in Nat /\ w <= room
            /\ Take(data, w) \in Seq(Token) /\ Len(Take(data, w)) = w
        BY <2>1, <3>1, PiecesType
      <3> QED BY <3>1, <3>2, LimitsAssumption
    <2>3. toChild' = Take(data, w)
      BY <1>14 DEF dispatch_cgi
    <2> HIDE DEF data, w
    <2>4. taken' \in 0 .. arrived
      <3>1. taken < arrived /\ taken' = taken + Len(Chunk)
        BY <1>14 DEF dispatch_cgi, Parsing, BytesArrive
      <3>2. Len(Chunk) \in Nat /\ Len(Chunk) <= arrived - taken
        BY ChunkType
      <3>3. taken \in Nat /\ arrived \in Nat
        BY RequestTypes
      <3> QED BY <3>1, <3>2, <3>3
    <2>5. /\ childRead' \in 0 .. Len(toChild') /\ childOut' \in 0 .. req.out
          /\ outRead' \in 0 .. childOut' /\ toChild' \in Seq(Token)
          /\ Len(toChild') - childRead' <= PipeCap /\ childOut' - outRead' <= PipeCap
          /\ child' \in {"run", "closed"}
      BY <1>14, <2>2, <2>3, RequestTypes, LimitsAssumption DEF dispatch_cgi
    <2> QED BY <1>14, <2>4, <2>5 DEF KernelTypes, dispatch_cgi
  <1>15. ASSUME NEW s \in Seq(Unit), sent' = sent \o Take(s, Least(SockRoom, Len(s)))
         PROVE  /\ sent' \in Seq(Unit) /\ rcvd \in 0 .. Len(sent')
                /\ Len(sent') - rcvd <= SockCap
    <2> DEFINE w == Least(SockRoom, Len(s))
    <2>1. w \in Nat /\ w <= SockRoom /\ Take(s, w) \in Seq(Unit) /\ Len(Take(s, w)) = w
      BY RoomTypes, PiecesType
    <2>2. sent' = sent \o Take(s, w)
      BY <1>15
    <2> HIDE DEF w
    <2>3. sent' \in Seq(Unit) /\ Len(sent') = Len(sent) + w
      BY <2>1, <2>2, RoomTypes, ConcatProperties
    <2> QED BY <2>1, <2>3, RoomTypes
  <1>16. ASSUME StreamSend PROVE KernelTypes'
    <2>1. sent' = sent \o Take(cgi_send_pending, Least(SockRoom, Len(cgi_send_pending)))
      BY <1>16 DEF StreamSend, CgiResumes
    <2>2. /\ sent' \in Seq(Unit) /\ rcvd \in 0 .. Len(sent')
          /\ Len(sent') - rcvd <= SockCap
      BY <1>15, <2>1 DEF ClientTypes
    <2> QED BY <1>16, <2>2 DEF KernelTypes, StreamSend, CgiResumes
  <1>17. ASSUME ResponseSend PROVE KernelTypes'
    <2>1. sent' = sent \o Take(response, Least(SockRoom, Len(response)))
      BY <1>17 DEF ResponseSend
    <2>2. /\ sent' \in Seq(Unit) /\ rcvd \in 0 .. Len(sent')
          /\ Len(sent') - rcvd <= SockCap
      BY <1>15, <2>1 DEF ClientTypes
    <2> QED BY <1>17, <2>2 DEF KernelTypes, ResponseSend, remove_client, Reap
  <1>18. ASSUME CgiOutput PROVE KernelTypes'
    <2>1. outRead' = outRead + Least(ReadMax, childOut - outRead)
      BY <1>18 DEF CgiOutput, HeaderEnds, StreamedOutput, SendBufferFull
    <2>2. outRead' \in 0 .. childOut /\ childOut - outRead' <= PipeCap
      BY <2>1, RequestTypes, LimitsAssumption DEF KernelTypes, Least
    <2> QED BY <1>18, <2>2 DEF KernelTypes, CgiOutput, HeaderEnds, StreamedOutput,
         SendBufferFull
  <1>19. ASSUME finalize_cgi PROVE KernelTypes'
    BY <1>19 DEF KernelTypes, finalize_cgi, Reap, FinalEvents
  <1>20. ASSUME StdinFlush PROVE KernelTypes'
    <2> DEFINE w == Least(PipeRoom, Len(cgi_stdin_pending))
    <2>1. /\ w \in Nat /\ w <= PipeRoom /\ Take(cgi_stdin_pending, w) \in Seq(Token)
          /\ Len(Take(cgi_stdin_pending, w)) = w
      BY RoomTypes, PiecesType DEF ClientTypes
    <2>2. toChild' = toChild \o Take(cgi_stdin_pending, w)
      BY <1>20 DEF StdinFlush, consume_cgi_stdin_pending
    <2> HIDE DEF w
    <2>3. toChild' \in Seq(Token) /\ Len(toChild') = Len(toChild) + w
      BY <2>1, <2>2, RoomTypes, ConcatProperties
    <2>4. childRead \in 0 .. Len(toChild') /\ Len(toChild') - childRead <= PipeCap
      BY <2>1, <2>3, RoomTypes
    <2> QED BY <1>20, <2>3, <2>4 DEF KernelTypes, StdinFlush,
         consume_cgi_stdin_pending
  <1>21. CASE UNCHANGED vars
    BY <1>1, <1>21 DEF vars
  <1> QED
    BY <1>3, <1>4, <1>5, <1>6, <1>7, <1>8, <1>9, <1>10, <1>11, <1>12, <1>13, <1>14,
       <1>16, <1>17, <1>18, <1>19, <1>20, <1>21
    DEF Next, Server, PeerStep, ChildStep, handle_client_read, handle_poll_output,
        handle_cgi_output, handle_cgi_stdin_writable

(* The poll loop's own variables.                                          *)
LEMMA LoopStep ==
  ASSUME TypeOK, [Next]_vars PROVE LoopTypes'
  <1> USE DEF TypeOK
  <1>1. /\ "client" \in Entries /\ "out" \in Entries /\ "in" \in Entries
        /\ "IN" \in Bits /\ "OUT" \in Bits /\ "HUP" \in Bits
        /\ "ERR" \in Bits /\ "NVAL" \in Bits
    BY DEF Entries, Bits
  <1>2. moved \in Nat
    BY DEF LoopTypes
  <1>3. ASSUME ClientError \/ RequestEof \/ StreamDone \/ StreamFails
               \/ ResponseFails \/ TimeOut
        PROVE LoopTypes'
    <2>1. at' \in {"poll", "scan"}
      BY <1>3 DEF ClientError, RequestEof, StreamDone, StreamFails, ResponseFails,
                  TimeOut, LoopTypes
    <2> QED BY <1>3, <2>1, RemoveTypes DEF ClientError, RequestEof, StreamDone,
                  StreamFails, ResponseFails, TimeOut
  <1>4. ASSUME Poll PROVE LoopTypes'
    <2>1. \A e \in Entries : Ready(e) \in SUBSET Bits
      BY <1>1 DEF Ready, ClientReady, OutReady, InReady, Bit, LoopTypes, Entries
    <2>2. revents' \in [Entries -> SUBSET Bits]
      BY <1>4, <2>1 DEF Poll
    <2> QED BY <1>4, <2>2 DEF Poll, LoopTypes
  <1>5. ASSUME ReadBackpressure PROVE LoopTypes'
    BY <1>1, <1>5 DEF ReadBackpressure, EndRead, Handled, LoopTypes
  <1>6. ASSUME ReadEof PROVE LoopTypes'
    BY <1>1, <1>6 DEF ReadEof, EndRead, Handled, LoopTypes
  <1>7. ASSUME ReadAgain PROVE LoopTypes'
    BY <1>1, <1>7 DEF ReadAgain, EndRead, Handled, LoopTypes
  <1>8. ASSUME ReadDropped PROVE LoopTypes'
    BY <1>1, <1>8 DEF ReadDropped, EndRead, Handled, LoopTypes
  <1>9. ASSUME ReadBadChunk PROVE LoopTypes'
    BY <1>1, <1>9 DEF ReadBadChunk, EndRead, Handled, LoopTypes
  <1>10. ASSUME AwaitHeaders PROVE LoopTypes'
    BY <1>1, <1>10 DEF AwaitHeaders, EndRead, Handled, LoopTypes
  <1>11. ASSUME RejectRequest PROVE LoopTypes'
    BY <1>1, <1>11 DEF RejectRequest, EndRead, Handled, LoopTypes, OnlyWriting
  <1>12. ASSUME AwaitBody PROVE LoopTypes'
    BY <1>1, <1>12 DEF AwaitBody, EndRead, Handled, LoopTypes
  <1>13. ASSUME AnswerRequest PROVE LoopTypes'
    BY <1>1, <1>13 DEF AnswerRequest, RespondWith, EndRead, Handled, LoopTypes
  <1>14. ASSUME DispatchFails PROVE LoopTypes'
    BY <1>1, <1>14 DEF DispatchFails, RespondWith, EndRead, Handled, LoopTypes
  <1>15. ASSUME dispatch_cgi PROVE LoopTypes'
    BY <1>1, <1>15 DEF dispatch_cgi, EndRead, Handled, LoopTypes
  <1>16. ASSUME StreamIdle PROVE LoopTypes'
    BY <1>1, <1>16 DEF StreamIdle, EndWrite, Handled, LoopTypes
  <1>17. ASSUME StreamBlocked PROVE LoopTypes'
    BY <1>1, <1>17 DEF StreamBlocked, EndWrite, Handled, LoopTypes
  <1>18. ASSUME CgiOutputAgain PROVE LoopTypes'
    BY <1>1, <1>18 DEF CgiOutputAgain, LoopTypes
  <1>19. ASSUME finalize_cgi PROVE LoopTypes'
    BY <1>1, <1>19 DEF finalize_cgi, LoopTypes, FinalEvents
  <1>20. ASSUME StdinError PROVE LoopTypes'
    BY <1>1, <1>20 DEF StdinError, DropStdin, LoopTypes
  <1>21. ASSUME StdinOrphan PROVE LoopTypes'
    BY <1>1, <1>21 DEF StdinOrphan, DropStdin, LoopTypes
  <1>22. ASSUME StdinClose PROVE LoopTypes'
    BY <1>1, <1>22 DEF StdinClose, DropStdin, LoopTypes
  <1>23. ASSUME StdinKeep PROVE LoopTypes'
    BY <1>1, <1>23 DEF StdinKeep, LoopTypes, StdinEvents
  <1>24. ASSUME EndScan PROVE LoopTypes'
    BY <1>1, <1>24 DEF EndScan, LoopTypes
  <1>25. ASSUME ForwardBody PROVE LoopTypes'
    <2>1. Len(Chunk) \in Nat
      BY ChunkType
    <2>2. moved' \in {0, moved + Len(Chunk)}
      BY <1>25 DEF ForwardBody, BodyEnds, CanClose
    <2>6. moved' \in Nat
      BY <1>2, <2>1, <2>2
    <2>3. fds' \subseteq Entries /\ reg' \subseteq Entries
      BY <1>1, <1>25 DEF ForwardBody, LoopTypes, BodyEnds, CanClose
    <2>4. events' \in [Entries -> SUBSET Bits]
      BY <1>1, <1>25 DEF ForwardBody, LoopTypes, BodyEnds, CanClose
    <2>5. revents' \in [Entries -> SUBSET Bits]
      BY <1>1, <1>25 DEF ForwardBody, LoopTypes, BodyEnds, CanClose
    <2> QED BY <1>25, <2>3, <2>4, <2>5, <2>6 DEF ForwardBody, LoopTypes, BodyEnds,
         CanClose
  <1>26. ASSUME StreamSend PROVE LoopTypes'
    <2>1. Least(SockRoom, Len(cgi_send_pending)) \in Nat
      BY RoomTypes, PiecesType DEF ClientTypes
    <2>2. moved' \in {0, moved + Least(SockRoom, Len(cgi_send_pending))}
      BY <1>26 DEF StreamSend, CgiResumes
    <2>4. moved' \in Nat
      BY <1>2, <2>1, <2>2
    <2>3. /\ events' \in [Entries -> SUBSET Bits]
          /\ revents' \in [Entries -> SUBSET Bits]
      BY <1>1, <1>26 DEF StreamSend, LoopTypes, CgiResumes
    <2> QED BY <1>26, <2>3, <2>4 DEF StreamSend, LoopTypes, CgiResumes
  <1>27. ASSUME ResponseSend PROVE LoopTypes'
    <2>1. CASE remove_client("done")
      BY <1>27, <2>1, RemoveTypes DEF ResponseSend, LoopTypes
    <2>2. CASE ~remove_client("done")
      <3>1. UNCHANGED <<at, fds, reg, events, why>> /\ EndWrite
        BY <1>27, <2>2 DEF ResponseSend
      <3> QED BY <3>1 DEF EndWrite, Handled, LoopTypes
    <2> QED BY <2>1, <2>2
  <1>28. ASSUME CgiOutput PROVE LoopTypes'
    <2>1. Least(ReadMax, childOut - outRead) \in Nat
      BY RequestTypes, LimitsAssumption DEF Least
    <2>2. moved' \in {0, moved + Least(ReadMax, childOut - outRead)}
      BY <1>28 DEF CgiOutput, HeaderEnds, StreamedOutput, SendBufferFull
    <2>4. moved' \in Nat
      BY <1>2, <2>1, <2>2
    <2>3. /\ events' \in [Entries -> SUBSET Bits]
          /\ revents' \in [Entries -> SUBSET Bits]
      <3> DEFINE n     == Least(ReadMax, childOut - outRead)
                 units == CgiUnits(outRead, outRead + n)
                 found == HeaderEnds(cgi_output \o units)
                 full  == SendBufferFull(StreamedOutput(units, cgi_output \o units))
                 stops == full \/ moved + n >= FairMax
      <3>1. /\ events' = [events EXCEPT
                            !["client"] = IF Streamed \/ found THEN @ \cup {"OUT"} ELSE @,
                            !["out"] = IF full THEN @ \ {"IN"} ELSE @]
            /\ revents' = [revents EXCEPT !["out"] = IF stops THEN {} ELSE @]
        BY <1>28, Zenon DEF CgiOutput
      <3> HIDE DEF found, full, stops
      <3>2. events \in [Entries -> SUBSET Bits] /\ revents \in [Entries -> SUBSET Bits]
        BY DEF LoopTypes
      <3> QED BY <1>1, <3>1, <3>2
    <2> QED BY <1>28, <2>3, <2>4 DEF CgiOutput, LoopTypes, HeaderEnds,
         StreamedOutput, SendBufferFull
  <1>29. ASSUME StdinFlush PROVE LoopTypes'
    <2>1. Least(PipeRoom, Len(cgi_stdin_pending)) \in Nat
      BY RoomTypes, PiecesType DEF ClientTypes
    <2>2. moved' = moved + Least(PipeRoom, Len(cgi_stdin_pending))
      BY <1>29 DEF StdinFlush, consume_cgi_stdin_pending
    <2>3. moved' \in Nat
      BY <1>2, <2>1, <2>2
    <2> QED BY <1>29, <2>3 DEF StdinFlush, LoopTypes, consume_cgi_stdin_pending
  <1>30. ASSUME PeerStep \/ ChildStep \/ Tick \/ UNCHANGED vars PROVE LoopTypes'
    BY <1>30 DEF PeerStep, PeerSend, PeerRecv, PeerFin, PeerRst, ChildStep,
         ChildRead,
                 ChildWrite, ChildClose, ChildDie, Tick, serverVars, vars, LoopTypes
  <1> QED
    BY <1>3, <1>4, <1>5, <1>6, <1>7, <1>8, <1>9, <1>10, <1>11, <1>12, <1>13, <1>14,
       <1>15, <1>16, <1>17, <1>18, <1>19, <1>20, <1>21, <1>22, <1>23, <1>24, <1>25,
       <1>26, <1>27, <1>28, <1>29, <1>30
    DEF Next, Server, handle_client_read, handle_poll_output,
        handle_cgi_output, handle_cgi_stdin_writable

(* The buffers of the Client object.                                       *)
LEMMA ClientStep ==
  ASSUME TypeOK, [Next]_vars PROVE ClientTypes'
  <1> USE DEF TypeOK, Flags
  <1>1. ASSUME ClientError \/ RequestEof \/ StreamDone \/ StreamFails
               \/ ResponseFails \/ TimeOut
        PROVE ClientTypes'
    BY <1>1, RemoveTypes DEF ClientError, RequestEof, StreamDone,
                  StreamFails, ResponseFails, TimeOut
  <1>2. ASSUME UNCHANGED clientVars PROVE ClientTypes'
    BY <1>2 DEF ClientTypes
  <1>3. ASSUME Poll \/ ReadBackpressure \/ ReadAgain \/ StreamIdle \/ StreamBlocked
              
        PROVE ClientTypes'
    BY <1>2, <1>3 DEF Poll, ReadBackpressure, ReadAgain, StreamIdle, StreamBlocked
  <1>4. ASSUME CgiOutputAgain \/ StdinError \/ StdinOrphan \/ StdinClose \/ StdinKeep
                \/ EndScan
         PROVE ClientTypes'
    BY <1>2, <1>4 DEF CgiOutputAgain, StdinError, StdinOrphan, StdinClose,
         StdinKeep, EndScan, StdinEvents
  <1>5. ASSUME PeerStep \/ ChildStep \/ UNCHANGED vars PROVE ClientTypes'
    BY <1>2, <1>5 DEF PeerStep, PeerSend, PeerRecv, PeerFin, PeerRst, ChildStep,
          ChildRead, ChildWrite, ChildClose, ChildDie, serverVars, vars
  <1>6. ASSUME ReadEof \/ ReadDropped \/ Tick PROVE ClientTypes'
    BY <1>6 DEF ReadEof, ReadDropped, BodyArrives, Tick, serverVars, ClientTypes
  <1>7. ASSUME ReadBadChunk PROVE ClientTypes'
    BY <1>7, BodyDecodedType DEF ReadBadChunk, BodyArrives, DecodeResult,
         ClientTypes
  <1>8. ASSUME ForwardBody PROVE ClientTypes'
    <2> DEFINE data == BodyDecoded.data
               rest == Drop(data, Least(PipeRoom, Len(data)))
    <2>1. /\ BodyDecoded.state \in {"none", "size", "trailers", "done"}
          /\ BodyDecoded.held \in Seq(Token) /\ data \in Seq(Token)
      BY BodyDecodedType DEF DecodeResult
    <2>2. rest \in Seq(Token)
      BY <2>1, RoomTypes, PiecesType
    <2> HIDE DEF data, rest
    <2>3. cgi_stdin_pending \o rest \in Seq(Token)
      BY <2>2, ConcatProperties DEF ClientTypes
    <2>4. /\ cgi_stdin_pending' = cgi_stdin_pending \o rest
          /\ cgi_chunk_state' = BodyDecoded.state /\ cgi_chunk_buf' = BodyDecoded.held
          /\ forwarded' = forwarded + (IF Chunked THEN 0 ELSE Len(Chunk))
          /\ flags' \subseteq flags \cup {"cgi_stdin_eof"} /\ age' = 0
      BY <1>8 DEF ForwardBody, BodyArrives, data, rest, BodyEnds, CanClose
    <2>5. forwarded' \in Nat
      BY <2>4, ChunkType DEF ClientTypes
    <2> QED BY <1>8, <2>1, <2>3, <2>4, <2>5 DEF ForwardBody, ClientTypes, BodyEnds,
         CanClose
  <1>9. ASSUME AwaitHeaders PROVE ClientTypes'
    <2>1. RequestBytes \in Seq(Token)
      BY ChunkType, ConcatProperties DEF RequestBytes, ClientTypes
    <2> QED BY <1>9, <2>1 DEF AwaitHeaders, BytesArrive, ClientTypes
  <1>10. ASSUME RejectRequest PROVE ClientTypes'
    BY <1>10, UnitTypes DEF RejectRequest, Parsing, BytesArrive, clear_buffer,
         ClientTypes, OnlyWriting
  <1>11. ASSUME AnswerRequest PROVE ClientTypes'
    BY <1>11, UnitTypes DEF AnswerRequest, RespondWith, Parsing, BytesArrive,
                            clear_buffer, ClientTypes
  <1>12. ASSUME DispatchFails PROVE ClientTypes'
    BY <1>12, UnitTypes DEF DispatchFails, RespondWith, Parsing, BytesArrive,
                            clear_buffer, ClientTypes
  <1>13. ASSUME AwaitBody PROVE ClientTypes'
    BY <1>13, VerdictType DEF AwaitBody, Parsing, BytesArrive, ParseResult,
         ClientTypes
  <1>14. ASSUME dispatch_cgi PROVE ClientTypes'
    <2> DEFINE data == Verdict.body
               room == IF child' = "run" THEN PipeCap ELSE 0
               rest == Drop(data, Least(room, Len(data)))
    <2>1. data \in Seq(Token) /\ Len(data) \in Nat
      BY <1>14, VerdictType DEF ParseResult, dispatch_cgi, Parsing
    <2>2. rest \in Seq(Token)
      <3>1. room \in Nat
        BY LimitsAssumption
      <3> HIDE DEF room
      <3> QED BY <2>1, <3>1, PiecesType
    <2>3. HandOver.state \in {"none", "size", "trailers", "done"}
          /\ HandOver.held \in Seq(Token)
      BY <1>14, HandOverType DEF DecodeResult, dispatch_cgi, Parsing
    <2>4. cgi_stdin_pending' = rest /\ forwarded' = Len(data)
      BY <1>14 DEF dispatch_cgi
    <2> HIDE DEF data, rest
    <2>5. flags' \subseteq Flags
      BY <1>14 DEF dispatch_cgi
    <2> QED BY <1>14, <2>1, <2>2, <2>3, <2>4, <2>5
            DEF dispatch_cgi, Parsing, BytesArrive, ClientTypes
  <1>15. ASSUME StreamSend PROVE ClientTypes'
    <2>1. Drop(cgi_send_pending, Least(SockRoom, Len(cgi_send_pending))) \in Seq(Unit)
      BY RoomTypes, PiecesType DEF ClientTypes
    <2> QED BY <1>15, <2>1 DEF StreamSend, ClientTypes, CgiResumes
  <1>16. ASSUME ResponseSend PROVE ClientTypes'
    <2>1. CASE remove_client("done")
      BY <2>1, RemoveTypes
    <2>2. CASE ~remove_client("done")
      <3>1. Drop(response, Least(SockRoom, Len(response))) \in Seq(Unit)
        BY RoomTypes, PiecesType DEF ClientTypes
      <3>2. /\ response' = Drop(response, Least(SockRoom, Len(response))) /\ age' = 0
            /\ UNCHANGED <<flags, buffer, body, outputVars, stdinVars>>
        BY <1>16, <2>2 DEF ResponseSend
      <3> QED BY <3>1, <3>2 DEF ClientTypes
    <2> QED BY <2>1, <2>2
  <1>17. ASSUME CgiOutput PROVE ClientTypes'
    <2> DEFINE n     == Least(ReadMax, childOut - outRead)
               units == CgiUnits(outRead, outRead + n)
               raw   == cgi_output \o units
               new   == cgi_send_pending \o <<HttpHeader>> \o Drop(raw, req.hdr)
    <2>1. n \in Nat
      BY RequestTypes, LimitsAssumption DEF Least
    <2>2. units \in Seq(Unit)
      <3> HIDE DEF n
      <3>1. outRead + n \in Nat /\ outRead \in Nat /\ outRead <= outRead + n
        BY <2>1, RequestTypes
      <3> QED BY <3>1, CgiUnitsType
    <2> HIDE DEF units
    <2>3. raw \in Seq(Unit) /\ cgi_send_pending \o units \in Seq(Unit)
      BY <2>2, ConcatProperties DEF ClientTypes
    <2> HIDE DEF raw
    <2>4. Len(raw) >= req.hdr => new \in Seq(Unit)
      <3>1. ASSUME Len(raw) >= req.hdr PROVE Drop(raw, req.hdr) \in Seq(Unit)
        <4>1. req.hdr \in 0 .. Len(raw)
          BY <2>3, <3>1, RequestTypes
        <4> QED BY <2>3, <4>1, TakeDrop
      <3> QED BY <3>1, UnitTypes, ConcatProperties DEF ClientTypes
    <2> HIDE DEF new
    <2>5. /\ cgi_output' = (IF Streamed THEN cgi_output ELSE raw)
          /\ cgi_send_pending' = (IF Streamed THEN cgi_send_pending \o units
                                  ELSE IF req.hdr > 0 /\ Len(raw) >= req.hdr THEN new
                                  ELSE cgi_send_pending)
      BY <1>17 DEF CgiOutput, raw, units, new, HeaderEnds, StreamedOutput,
           SendBufferFull
    <2>6. cgi_output' \in Seq(Unit) /\ cgi_send_pending' \in Seq(Unit)
      BY <2>3, <2>4, <2>5 DEF ClientTypes
    <2>7. flags' \subseteq Flags
      BY <1>17 DEF CgiOutput, ClientTypes, HeaderEnds, StreamedOutput,
           SendBufferFull
    <2> QED BY <1>17, <2>6, <2>7 DEF CgiOutput, ClientTypes, HeaderEnds,
         StreamedOutput, SendBufferFull
  <1>18. ASSUME finalize_cgi PROVE ClientTypes'
    BY <1>18, FinalResponseType DEF finalize_cgi, clear_buffer, ClientTypes,
         FinalEvents
  <1>19. ASSUME StdinFlush PROVE ClientTypes'
    <2>1. Drop(cgi_stdin_pending, Least(PipeRoom, Len(cgi_stdin_pending))) \in Seq(Token)
      BY RoomTypes, PiecesType DEF ClientTypes
    <2> QED BY <1>19, <2>1 DEF StdinFlush, ClientTypes, consume_cgi_stdin_pending
  <1> QED
    BY <1>1, <1>3, <1>6, <1>7, <1>8, <1>9, <1>10, <1>13, <1>14, <1>15, <1>16, <1>17,
       <1>18, <1>19, <1>4, <1>5, <1>11, <1>12
    DEF Next, Server, handle_client_read, handle_poll_output,
        handle_cgi_output, handle_cgi_stdin_writable

(* Every step keeps the types.                                             *)
LEMMA TypeStep ==
  ASSUME TypeOK, [Next]_vars PROVE TypeOK'
  BY KernelStep, LoopStep, ClientStep DEF TypeOK

(* Every variable of the loop and of the Client keeps its type, nothing is *)
(* counted twice and no pipe or socket buffer is overfilled.               *)
THEOREM TypeCorrect == Spec => []TypeOK
  <1>1. Init => TypeOK
    <2> SUFFICES ASSUME Init PROVE TypeOK
      OBVIOUS
    <2>0. req \in Request
      BY RequestsAssumption DEF Init
    <2>1. req.stream \in Seq(Token) /\ req.out \in Nat
      BY <2>0 DEF Request
    <2>2. KernelTypes
      <3>1. /\ req \in Requests /\ peer = "open" /\ arrived = 0 /\ rcvd = 0
            /\ child = "none" /\ childRead = 0 /\ childOut = 0
            /\ taken = 0 /\ sent = <<>> /\ toChild = <<>> /\ outRead = 0
        BY DEF Init
      <3>2. <<>> \in Seq(Unit) /\ <<>> \in Seq(Token) /\ Len(<<>>) = 0
        OBVIOUS
      <3> QED BY <2>1, <3>1, <3>2, LimitsAssumption DEF KernelTypes
    <2>3. LoopTypes
      <3>1. /\ "client" \in Entries /\ "IN" \in Bits
        BY DEF Entries, Bits
      <3>2. /\ at = "poll" /\ fds = {"client"} /\ reg = {"client"} /\ moved = 0 /\ why = ""
            /\ events  = [e \in Entries |-> IF e = "client" THEN {"IN"} ELSE {}]
            /\ revents = [e \in Entries |-> {}]
        BY DEF Init
      <3> QED BY <3>1, <3>2 DEF LoopTypes
    <2>4. ClientTypes
      <3>1. /\ flags = {} /\ age = 0 /\ buffer = <<>> /\ body = <<>> /\ response = <<>>
            /\ cgi_output = <<>> /\ cgi_send_pending = <<>>
            /\ cgi_stdin_pending = <<>> /\ cgi_chunk_state = "none"
            /\ cgi_chunk_buf = <<>> /\ forwarded = 0
        BY DEF Init
      <3> QED BY <3>1 DEF ClientTypes
    <2> QED BY <2>2, <2>3, <2>4 DEF TypeOK
  <1>2. TypeOK /\ [Next]_vars => TypeOK'
    BY TypeStep
  <1> QED BY <1>1, <1>2, PTL DEF Spec

-----------------------------------------------------------------------------
(***************************************************************************)
(* Wakeups and the bound on the send buffer: ConnInv is inductive.         *)
(***************************************************************************)

(* The facts about the loop's variables that the steps below rest on.      *)
LEMMA LoopFacts ==
  ASSUME TypeOK
  PROVE  /\ events \in [Entries -> SUBSET Bits] /\ revents \in [Entries -> SUBSET Bits]
         /\ fds \subseteq Entries /\ reg \subseteq Entries
         /\ "client" \in Entries /\ "out" \in Entries /\ "in" \in Entries
  BY DEF TypeOK, LoopTypes, Entries

(* A handler is called only for an entry of poll_fds_, and the handlers of *)
(* the connection and of the CGI's stdout only while their Client exists.  *)
LEMMA TurnFacts ==
  ASSUME TypeOK, EntriesOK
  PROVE  /\ \A e \in Entries : Turn(e) => e \in reg /\ at = "scan"
         /\ Turn("client") => "client" \in fds
         /\ Turn("out") => "out" \in fds /\ "client" \in fds /\ Active
  BY LoopFacts DEF EntriesOK, Turn

(* remove_client leaves nothing behind but a stale stdin entry.            *)
LEMMA RemoveEntries ==
  ASSUME TypeOK, EntriesOK, NEW w, remove_client(w), at' \in {"scan", at} \/ ScanOver
  PROVE  EntriesOK'
  BY LoopFacts DEF EntriesOK, remove_client, ScanOver, Active, Entries

(* What the descriptors, poll_fds_ and the Client say of one another.      *)
LEMMA EntriesStep ==
  ASSUME TypeOK, EntriesOK, [Next]_vars PROVE EntriesOK'
  <1> USE LoopFacts, TurnFacts
  <1>1. ASSUME ClientError PROVE EntriesOK'
    BY <1>1, RemoveEntries DEF ClientError
  <1>2. ASSUME ReadBackpressure PROVE EntriesOK'
    BY <1>2 DEF ReadBackpressure, EndRead, Handled, Active, EntriesOK
  <1>3. ASSUME ReadEof PROVE EntriesOK'
    BY <1>3 DEF ReadEof, EndRead, Handled, CgiReading, Active, EntriesOK
  <1>4. ASSUME ReadAgain PROVE EntriesOK'
    BY <1>4 DEF ReadAgain, EndRead, Handled, Active, EntriesOK
  <1>5. ASSUME ReadDropped PROVE EntriesOK'
    BY <1>5 DEF ReadDropped, EndRead, Handled, Active, EntriesOK
  <1>6. ASSUME ReadBadChunk PROVE EntriesOK'
    BY <1>6 DEF ReadBadChunk, EndRead, Handled, Active, EntriesOK
  <1>7. ASSUME ForwardBody PROVE EntriesOK'
    BY <1>7 DEF ForwardBody, Active, EntriesOK
  <1>8. ASSUME RequestEof PROVE EntriesOK'
    BY <1>8, RemoveEntries DEF RequestEof
  <1>9. ASSUME AwaitHeaders PROVE EntriesOK'
    BY <1>9 DEF AwaitHeaders, EndRead, Handled, Active, EntriesOK
  <1>10. ASSUME RejectRequest PROVE EntriesOK'
    BY <1>10 DEF RejectRequest, EndRead, Handled, Parsing, BytesArrive,
         RequestReading, ClientReading, Active, EntriesOK, OnlyWriting
  <1>11. ASSUME AwaitBody PROVE EntriesOK'
    BY <1>11 DEF AwaitBody, EndRead, Handled, Parsing, BytesArrive, RequestReading,
         ClientReading, Active, EntriesOK
  <1>12. ASSUME AnswerRequest PROVE EntriesOK'
    BY <1>12 DEF AnswerRequest, RespondWith, EndRead, Handled, Parsing, BytesArrive,
         RequestReading, ClientReading, Active, EntriesOK
  <1>13. ASSUME DispatchFails PROVE EntriesOK'
    BY <1>13 DEF DispatchFails, RespondWith, EndRead, Handled, Parsing, BytesArrive,
         RequestReading, ClientReading, Active, EntriesOK
  <1>14. ASSUME dispatch_cgi PROVE EntriesOK'
    BY <1>14 DEF dispatch_cgi, EndRead, Handled, Parsing, BytesArrive,
         RequestReading, ClientReading, Active, EntriesOK
  <1>15. ASSUME StreamDone PROVE EntriesOK'
    BY <1>15, RemoveEntries DEF StreamDone
  <1>16. ASSUME StreamIdle PROVE EntriesOK'
    BY <1>16 DEF StreamIdle, EndWrite, Handled, Active, EntriesOK
  <1>17. ASSUME StreamSend PROVE EntriesOK'
    BY <1>17 DEF StreamSend, Active, EntriesOK, CgiResumes
  <1>18. ASSUME StreamBlocked PROVE EntriesOK'
    BY <1>18 DEF StreamBlocked, EndWrite, Handled, Active, EntriesOK
  <1>19. ASSUME StreamFails PROVE EntriesOK'
    BY <1>19, RemoveEntries DEF StreamFails
  <1>20. ASSUME ResponseSend PROVE EntriesOK'
    <2>1. CASE remove_client("done")
      BY <1>20, <2>1, RemoveEntries DEF ResponseSend
    <2>2. CASE ~remove_client("done")
      <3>1. /\ UNCHANGED <<at, fds, reg, events, flags, cgi_send_pending>> /\ EndWrite
            /\ Turn("client")
        BY <1>20, <2>2 DEF ResponseSend, ClientWriting
      <3> QED BY <3>1 DEF EntriesOK, EndWrite, Handled, Active
    <2> QED BY <2>1, <2>2
  <1>21. ASSUME ResponseFails PROVE EntriesOK'
    BY <1>21, RemoveEntries DEF ResponseFails
  <1>22. ASSUME CgiOutput PROVE EntriesOK'
    BY <1>22 DEF CgiOutput, Active, EntriesOK
  <1>23. ASSUME CgiOutputAgain PROVE EntriesOK'
    BY <1>23 DEF CgiOutputAgain, Active, EntriesOK
  <1>24. ASSUME finalize_cgi PROVE EntriesOK'
    BY <1>24 DEF finalize_cgi, Active, EntriesOK, FinalEvents
  <1>25. ASSUME StdinError PROVE EntriesOK'
    BY <1>25 DEF StdinError, DropStdin, Active, EntriesOK
  <1>26. ASSUME StdinOrphan PROVE EntriesOK'
    BY <1>26 DEF StdinOrphan, DropStdin, Active, EntriesOK
  <1>27. ASSUME StdinFlush PROVE EntriesOK'
    BY <1>27 DEF StdinFlush, Active, EntriesOK
  <1>28. ASSUME StdinClose PROVE EntriesOK'
    BY <1>28 DEF StdinClose, DropStdin, Active, EntriesOK
  <1>29. ASSUME StdinKeep PROVE EntriesOK'
    BY <1>29 DEF StdinKeep, Active, EntriesOK, StdinEvents
  <1>30. ASSUME EndScan PROVE EntriesOK'
    BY <1>30 DEF EndScan, ScanOver, Active, EntriesOK
  <1>31. ASSUME TimeOut PROVE EntriesOK'
    BY <1>31, RemoveEntries DEF TimeOut
  <1>32. ASSUME Poll PROVE EntriesOK'
    BY <1>32 DEF Poll, Ready, ClientReady, Bit, Active, EntriesOK
  <1>33. ASSUME PeerStep \/ ChildStep \/ Tick \/ UNCHANGED vars PROVE EntriesOK'
    BY <1>33 DEF PeerStep, PeerSend, PeerRecv, PeerFin, PeerRst, ChildStep,
         ChildRead, ChildWrite, ChildClose, ChildDie, Tick, serverVars, vars,
         EntriesOK, Active
  <1> QED
    BY <1>1, <1>2, <1>3, <1>4, <1>5, <1>6, <1>7, <1>8, <1>9, <1>10,
       <1>11, <1>12, <1>13, <1>14, <1>15, <1>16, <1>17, <1>18, <1>19,
       <1>20, <1>21, <1>22, <1>23, <1>24, <1>25, <1>26, <1>27, <1>28, <1>29,
       <1>30, <1>31, <1>32, <1>33
    DEF Next, Server, handle_client_read, handle_poll_output,
        handle_cgi_output, handle_cgi_stdin_writable

(* A finished answer keeps its POLLOUT.                                    *)
LEMMA AnswerStep ==
  ASSUME TypeOK, EntriesOK, AnswerServed, [Next]_vars PROVE AnswerServed'
  <1> USE LoopFacts, TurnFacts
  <1>1. ASSUME ClientError PROVE AnswerServed'
    BY <1>1 DEF ClientError, remove_client, AnswerServed
  <1>2. ASSUME ReadBackpressure PROVE AnswerServed'
    BY <1>2 DEF ReadBackpressure, Active, Streamed, AnswerServed
  <1>3. ASSUME ReadEof PROVE AnswerServed'
    BY <1>3 DEF ReadEof, Active, Streamed, AnswerServed
  <1>4. ASSUME ReadAgain PROVE AnswerServed'
    BY <1>4 DEF ReadAgain, Active, Streamed, AnswerServed
  <1>5. ASSUME ReadDropped PROVE AnswerServed'
    BY <1>5 DEF ReadDropped, Active, Streamed, AnswerServed
  <1>6. ASSUME ReadBadChunk PROVE AnswerServed'
    BY <1>6 DEF ReadBadChunk, Active, Streamed, AnswerServed
  <1>7. ASSUME ForwardBody PROVE AnswerServed'
    BY <1>7 DEF ForwardBody, Active, Streamed, AnswerServed
  <1>8. ASSUME RequestEof PROVE AnswerServed'
    BY <1>8 DEF RequestEof, remove_client, AnswerServed
  <1>9. ASSUME AwaitHeaders PROVE AnswerServed'
    BY <1>9 DEF AwaitHeaders, Active, Streamed, AnswerServed
  <1>10. ASSUME RejectRequest PROVE AnswerServed'
    BY <1>10 DEF RejectRequest, AnswerServed, OnlyWriting
  <1>11. ASSUME AwaitBody PROVE AnswerServed'
    BY <1>11 DEF AwaitBody, Active, Streamed, AnswerServed
  <1>12. ASSUME AnswerRequest PROVE AnswerServed'
    BY <1>12 DEF AnswerRequest, RespondWith, AnswerServed
  <1>13. ASSUME DispatchFails PROVE AnswerServed'
    BY <1>13 DEF DispatchFails, RespondWith, AnswerServed
  <1>14. ASSUME dispatch_cgi PROVE AnswerServed'
    BY <1>14 DEF dispatch_cgi, Active, AnswerServed
  <1>15. ASSUME StreamDone PROVE AnswerServed'
    BY <1>15 DEF StreamDone, remove_client, AnswerServed
  <1>16. ASSUME StreamIdle PROVE AnswerServed'
    BY <1>16 DEF StreamIdle, Active, AnswerServed
  <1>17. ASSUME StreamSend PROVE AnswerServed'
    BY <1>17 DEF StreamSend, Active, Streamed, AnswerServed
  <1>18. ASSUME StreamBlocked PROVE AnswerServed'
    BY <1>18 DEF StreamBlocked, Active, Streamed, AnswerServed
  <1>19. ASSUME StreamFails PROVE AnswerServed'
    BY <1>19 DEF StreamFails, remove_client, AnswerServed
  <1>20. ASSUME ResponseSend PROVE AnswerServed'
    <2>1. CASE remove_client("done")
      BY <1>20, <2>1 DEF ResponseSend, remove_client, AnswerServed
    <2>2. CASE ~remove_client("done")
      <3>1. /\ UNCHANGED <<peerVars, child, childVars, outRead, fds, events, flags,
                           cgi_output, cgi_send_pending, stdinVars>>
            /\ EndWrite /\ response # <<>>
        BY <1>20, <2>2 DEF ResponseSend
      <3> QED BY <3>1 DEF AnswerServed, Active
    <2> QED BY <2>1, <2>2
  <1>21. ASSUME ResponseFails PROVE AnswerServed'
    BY <1>21 DEF ResponseFails, remove_client, AnswerServed
  <1>22. ASSUME CgiOutput PROVE AnswerServed'
    BY <1>22 DEF CgiOutput, Active, AnswerServed
  <1>23. ASSUME CgiOutputAgain PROVE AnswerServed'
    BY <1>23 DEF CgiOutputAgain, Active, AnswerServed
  <1>24. ASSUME finalize_cgi PROVE AnswerServed'
    BY <1>24 DEF finalize_cgi, AnswerServed, FinalEvents
  <1>25. ASSUME StdinError PROVE AnswerServed'
    BY <1>25 DEF StdinError, DropStdin, Active, Streamed, AnswerServed
  <1>26. ASSUME StdinOrphan PROVE AnswerServed'
    BY <1>26 DEF StdinOrphan, DropStdin, AnswerServed
  <1>27. ASSUME StdinFlush PROVE AnswerServed'
    BY <1>27 DEF StdinFlush, Active, Streamed, AnswerServed
  <1>28. ASSUME StdinClose PROVE AnswerServed'
    BY <1>28 DEF StdinClose, DropStdin, Active, Streamed, AnswerServed
  <1>29. ASSUME StdinKeep PROVE AnswerServed'
    BY <1>29 DEF StdinKeep, Active, Streamed, AnswerServed, StdinEvents
  <1>30. ASSUME EndScan PROVE AnswerServed'
    BY <1>30 DEF EndScan, ScanOver, Active, Streamed, AnswerServed
  <1>31. ASSUME TimeOut PROVE AnswerServed'
    BY <1>31 DEF TimeOut, remove_client, AnswerServed
  <1>32. ASSUME Poll PROVE AnswerServed'
    BY <1>32 DEF Poll, Active, Streamed, AnswerServed
  <1>33. ASSUME PeerStep \/ ChildStep \/ Tick \/ UNCHANGED vars PROVE AnswerServed'
    BY <1>33 DEF PeerStep, PeerSend, PeerRecv, PeerFin, PeerRst, ChildStep,
         ChildRead, ChildWrite, ChildClose, ChildDie, Tick, serverVars, vars,
         AnswerServed, Active, Streamed
  <1> QED
    BY <1>1, <1>2, <1>3, <1>4, <1>5, <1>6, <1>7, <1>8, <1>9, <1>10,
       <1>11, <1>12, <1>13, <1>14, <1>15, <1>16, <1>17, <1>18, <1>19,
       <1>20, <1>21, <1>22, <1>23, <1>24, <1>25, <1>26, <1>27, <1>28, <1>29,
       <1>30, <1>31, <1>32, <1>33
    DEF Next, Server, handle_client_read, handle_poll_output,
        handle_cgi_output, handle_cgi_stdin_writable

(* No answer is empty.                                                     *)
LEMMA PagesNotEmpty ==
  ASSUME TypeOK
  PROVE  ErrorPage # <<>> /\ StaticPage # <<>> /\ FinalResponse # <<>>
  <1>1. ErrorPage # <<>>
    BY DEF ErrorPage
  <1>2. StaticPage # <<>>
    <2>1. DOMAIN StaticPage = 1 .. StaticLen /\ 1 \in 1 .. StaticLen
      BY LimitsAssumption DEF StaticPage
    <2>2. DOMAIN <<>> = {}
      OBVIOUS
    <2> QED BY <2>1, <2>2
  <1>3. CASE req.lf > 0 /\ Len(cgi_output) >= req.lf
    <2>1. cgi_output \in Seq(Unit)
      BY DEF TypeOK, ClientTypes
    <2>2. req.lf \in 0 .. Len(cgi_output)
      BY <1>3, <2>1, RequestTypes
    <2>3. Drop(cgi_output, req.lf) \in Seq(Unit)
      BY <2>1, <2>2, TakeDrop
    <2>4. Len(<<HttpHeader>> \o Drop(cgi_output, req.lf)) = 1 + Len(Drop(cgi_output, req.lf))
      BY <2>3, UnitTypes, ConcatProperties
    <2>5. FinalResponse = <<HttpHeader>> \o Drop(cgi_output, req.lf)
      BY <1>3 DEF FinalResponse
    <2>6. Len(FinalResponse) > 0 /\ Len(<<>>) = 0
      BY <2>3, <2>4, <2>5
    <2> QED BY <1>1, <1>2, <2>6
  <1>4. CASE ~(req.lf > 0 /\ Len(cgi_output) >= req.lf)
    BY <1>1, <1>2, <1>4 DEF FinalResponse
  <1> QED BY <1>3, <1>4

(* POLLOUT is requested only for a reason.                                 *)
LEMMA WriteStep ==
  ASSUME TypeOK, EntriesOK, StdoutOK, WriteHasWork, [Next]_vars PROVE WriteHasWork'
  <1> USE LoopFacts, TurnFacts
  <1>1. ASSUME ClientError PROVE WriteHasWork'
    BY <1>1 DEF ClientError, remove_client, WriteHasWork
  <1>2. ASSUME ReadBackpressure PROVE WriteHasWork'
    BY <1>2 DEF ReadBackpressure, Active, Streamed, CgiMode, WriteHasWork
  <1>3. ASSUME ReadEof PROVE WriteHasWork'
    BY <1>3 DEF ReadEof, Active, Streamed, CgiMode, WriteHasWork
  <1>4. ASSUME ReadAgain PROVE WriteHasWork'
    BY <1>4 DEF ReadAgain, Active, Streamed, CgiMode, WriteHasWork
  <1>5. ASSUME ReadDropped PROVE WriteHasWork'
    BY <1>5 DEF ReadDropped, Active, Streamed, CgiMode, WriteHasWork
  <1>6. ASSUME ReadBadChunk PROVE WriteHasWork'
    BY <1>6 DEF ReadBadChunk, Active, Streamed, CgiMode, WriteHasWork
  <1>7. ASSUME ForwardBody PROVE WriteHasWork'
    BY <1>7 DEF ForwardBody, Active, Streamed, CgiMode, WriteHasWork
  <1>8. ASSUME RequestEof PROVE WriteHasWork'
    BY <1>8 DEF RequestEof, remove_client, WriteHasWork
  <1>9. ASSUME AwaitHeaders PROVE WriteHasWork'
    BY <1>9 DEF AwaitHeaders, Active, Streamed, CgiMode, WriteHasWork
  <1>10. ASSUME RejectRequest PROVE WriteHasWork'
    BY <1>10, PagesNotEmpty DEF RejectRequest, WriteHasWork
  <1>11. ASSUME AwaitBody PROVE WriteHasWork'
    BY <1>11 DEF AwaitBody, Active, Streamed, CgiMode, WriteHasWork
  <1>12. ASSUME AnswerRequest PROVE WriteHasWork'
    BY <1>12, PagesNotEmpty DEF AnswerRequest, RespondWith, WriteHasWork
  <1>13. ASSUME DispatchFails PROVE WriteHasWork'
    BY <1>13, PagesNotEmpty DEF DispatchFails, RespondWith, WriteHasWork
  <1>14. ASSUME dispatch_cgi PROVE WriteHasWork'
    BY <1>14 DEF dispatch_cgi, Active, CgiMode, WriteHasWork
  <1>15. ASSUME StreamDone PROVE WriteHasWork'
    BY <1>15 DEF StreamDone, remove_client, WriteHasWork
  <1>16. ASSUME StreamIdle PROVE WriteHasWork'
    BY <1>16 DEF StreamIdle, WriteHasWork
  <1>17. ASSUME StreamSend PROVE WriteHasWork'
    BY <1>17 DEF StreamSend, Streamed, CgiMode, StdoutOK, WriteHasWork
  <1>18. ASSUME StreamBlocked PROVE WriteHasWork'
    BY <1>18 DEF StreamBlocked, CgiMode, WriteHasWork
  <1>19. ASSUME StreamFails PROVE WriteHasWork'
    BY <1>19 DEF StreamFails, remove_client, WriteHasWork
  <1>20. ASSUME ResponseSend PROVE WriteHasWork'
    <2>1. CASE remove_client("done")
      BY <1>20, <2>1 DEF ResponseSend, remove_client, WriteHasWork
    <2>2. CASE ~remove_client("done")
      <3> DEFINE n == Least(SockRoom, Len(response))
      <3>1. /\ response' = Drop(response, n) /\ n # Len(response)
        BY <1>20, <2>2 DEF ResponseSend
      <3>2. /\ n \in Nat /\ n <= Len(response) /\ Len(response) \in Nat
            /\ Len(Drop(response, n)) = Len(response) - n
        <4>1. response \in Seq(Unit) /\ Len(response) \in Nat /\ SockRoom \in Nat
          BY RoomTypes DEF TypeOK, ClientTypes
        <4> QED BY <4>1, PiecesType
      <3> HIDE DEF n
      <3>3. response' # <<>>
        BY <3>1, <3>2
      <3> QED BY <3>3 DEF WriteHasWork
    <2> QED BY <2>1, <2>2
  <1>21. ASSUME ResponseFails PROVE WriteHasWork'
    BY <1>21 DEF ResponseFails, remove_client, WriteHasWork
  <1>22. ASSUME CgiOutput PROVE WriteHasWork'
    BY <1>22 DEF CgiOutput, Active, CgiMode, WriteHasWork
  <1>23. ASSUME CgiOutputAgain PROVE WriteHasWork'
    BY <1>23 DEF CgiOutputAgain, Active, CgiMode, WriteHasWork
  <1>24. ASSUME finalize_cgi PROVE WriteHasWork'
    BY <1>24, PagesNotEmpty DEF finalize_cgi, Streamed, CgiMode, WriteHasWork
  <1>25. ASSUME StdinError PROVE WriteHasWork'
    BY <1>25 DEF StdinError, DropStdin, Active, Streamed, CgiMode, WriteHasWork
  <1>26. ASSUME StdinOrphan PROVE WriteHasWork'
    BY <1>26 DEF StdinOrphan, DropStdin, WriteHasWork
  <1>27. ASSUME StdinFlush PROVE WriteHasWork'
    BY <1>27 DEF StdinFlush, Active, Streamed, CgiMode, WriteHasWork
  <1>28. ASSUME StdinClose PROVE WriteHasWork'
    BY <1>28 DEF StdinClose, DropStdin, Active, Streamed, CgiMode, WriteHasWork
  <1>29. ASSUME StdinKeep PROVE WriteHasWork'
    BY <1>29 DEF StdinKeep, StdinEvents, Active, Streamed, CgiMode, WriteHasWork
  <1>30. ASSUME EndScan PROVE WriteHasWork'
    BY <1>30 DEF EndScan, ScanOver, Active, Streamed, CgiMode, WriteHasWork
  <1>31. ASSUME TimeOut PROVE WriteHasWork'
    BY <1>31 DEF TimeOut, remove_client, WriteHasWork
  <1>32. ASSUME Poll PROVE WriteHasWork'
    BY <1>32 DEF Poll, Active, Streamed, CgiMode, WriteHasWork
  <1>33. ASSUME PeerStep \/ ChildStep \/ Tick \/ UNCHANGED vars PROVE WriteHasWork'
    BY <1>33 DEF PeerStep, PeerSend, PeerRecv, PeerFin, PeerRst, ChildStep,
         ChildRead, ChildWrite, ChildClose, ChildDie, Tick, serverVars, vars,
         WriteHasWork, Active, Streamed, CgiMode
  <1> QED
    BY <1>1, <1>2, <1>3, <1>4, <1>5, <1>6, <1>7, <1>8, <1>9, <1>10,
       <1>11, <1>12, <1>13, <1>14, <1>15, <1>16, <1>17, <1>18, <1>19, <1>20,
       <1>21, <1>22, <1>23, <1>24, <1>25, <1>26, <1>27, <1>28, <1>29, <1>30,
       <1>31, <1>32, <1>33
    DEF Next, Server, handle_client_read, handle_poll_output,
        handle_cgi_output, handle_cgi_stdin_writable

(* Bytes and an EOF for the CGI keep the POLLOUT of its stdin.             *)
LEMMA StdinStep ==
  ASSUME TypeOK, EntriesOK, StdinOK, [Next]_vars PROVE StdinOK'
  <1> USE LoopFacts, TurnFacts
  <1>1. Len(cgi_stdin_pending) \in Nat /\ Limit \in Nat
    BY LimitsAssumption DEF TypeOK, ClientTypes
  <1>2. ASSUME ClientError PROVE StdinOK'
    BY <1>2 DEF ClientError, remove_client, StdinOK
  <1>3. ASSUME ReadBackpressure PROVE StdinOK'
    BY <1>1, <1>3 DEF ReadBackpressure, StdinOK
  <1>4. ASSUME ReadEof PROVE StdinOK'
    BY <1>4 DEF ReadEof, EndRead, Handled, StdinOK
  <1>5. ASSUME ReadAgain PROVE StdinOK'
    BY <1>5 DEF ReadAgain, EndRead, Handled, StdinEof, StdinOK
  <1>6. ASSUME ReadDropped PROVE StdinOK'
    BY <1>6 DEF ReadDropped, StdinOK
  <1>7. ASSUME ReadBadChunk PROVE StdinOK'
    BY <1>7 DEF ReadBadChunk, EndRead, Handled, StdinOK
  <1>8. ASSUME ForwardBody PROVE StdinOK'
    BY <1>8 DEF ForwardBody, BodyArrives, CgiReading, ClientReading, StdinEof,
         EntriesOK, StdinOK, BodyEnds, CanClose
  <1>9. ASSUME RequestEof PROVE StdinOK'
    BY <1>9 DEF RequestEof, remove_client, StdinOK
  <1>10. ASSUME AwaitHeaders PROVE StdinOK'
    BY <1>10 DEF AwaitHeaders, EndRead, Handled, StdinEof, StdinOK
  <1>11. ASSUME RejectRequest PROVE StdinOK'
    BY <1>11 DEF RejectRequest, Parsing, BytesArrive, RequestReading, EntriesOK,
         StdinOK
  <1>12. ASSUME AwaitBody PROVE StdinOK'
    BY <1>12 DEF AwaitBody, EndRead, Handled, StdinEof, StdinOK
  <1>13. ASSUME AnswerRequest PROVE StdinOK'
    BY <1>13 DEF AnswerRequest, RespondWith, EndRead, Handled, StdinEof, StdinOK
  <1>14. ASSUME DispatchFails PROVE StdinOK'
    BY <1>14 DEF DispatchFails, RespondWith, EndRead, Handled, StdinEof, StdinOK
  <1>15. ASSUME dispatch_cgi PROVE StdinOK'
    BY <1>15 DEF dispatch_cgi, Parsing, BytesArrive, RequestReading, ClientReading,
         EntriesOK, StdinOK
  <1>16. ASSUME StreamDone PROVE StdinOK'
    BY <1>16 DEF StreamDone, remove_client, StdinOK
  <1>17. ASSUME StreamIdle PROVE StdinOK'
    BY <1>17 DEF StreamIdle, EndWrite, Handled, StdinEof, StdinOK
  <1>18. ASSUME StreamSend PROVE StdinOK'
    BY <1>18 DEF StreamSend, StdinEof, StdinOK
  <1>19. ASSUME StreamBlocked PROVE StdinOK'
    BY <1>19 DEF StreamBlocked, EndWrite, Handled, StdinEof, StdinOK
  <1>20. ASSUME StreamFails PROVE StdinOK'
    BY <1>20 DEF StreamFails, remove_client, StdinOK
  <1>21. ASSUME ResponseSend PROVE StdinOK'
    <2>1. CASE remove_client("done")
      BY <1>21, <2>1 DEF ResponseSend, remove_client, StdinOK
    <2>2. CASE ~remove_client("done")
      <3>1. /\ UNCHANGED <<peerVars, child, childVars, outRead, fds, events, flags,
                           cgi_output, cgi_send_pending, stdinVars>>
            /\ EndWrite /\ response # <<>>
        BY <1>21, <2>2 DEF ResponseSend
      <3> QED BY <3>1 DEF StdinOK, EndWrite, Handled, StdinEof
    <2> QED BY <2>1, <2>2
  <1>22. ASSUME ResponseFails PROVE StdinOK'
    BY <1>22 DEF ResponseFails, remove_client, StdinOK
  <1>23. ASSUME CgiOutput PROVE StdinOK'
    BY <1>23 DEF CgiOutput, StdinEof, StdinOK
  <1>24. ASSUME CgiOutputAgain PROVE StdinOK'
    BY <1>24 DEF CgiOutputAgain, StdinEof, StdinOK
  <1>25. ASSUME finalize_cgi PROVE StdinOK'
    BY <1>25 DEF finalize_cgi, StdinOK
  <1>26. ASSUME StdinError PROVE StdinOK'
    BY <1>26 DEF StdinError, DropStdin, StdinOK
  <1>27. ASSUME StdinOrphan PROVE StdinOK'
    BY <1>27 DEF StdinOrphan, DropStdin, StdinOK
  <1>28. ASSUME StdinFlush PROVE StdinOK'
    BY <1>28 DEF StdinFlush, Flushing, StdinWritable, Turn, StdinOK
  <1>29. ASSUME StdinClose PROVE StdinOK'
    BY <1>29 DEF StdinClose, DropStdin, StdinOK
  <1>30. ASSUME StdinKeep PROVE StdinOK'
    BY <1>1, <1>30 DEF StdinKeep, StdinEof, StdinOK, StdinEvents
  <1>31. ASSUME EndScan PROVE StdinOK'
    BY <1>31 DEF EndScan, ScanOver, StdinEof, StdinOK
  <1>32. ASSUME TimeOut PROVE StdinOK'
    BY <1>32 DEF TimeOut, remove_client, StdinOK
  <1>33. ASSUME Poll PROVE StdinOK'
    BY <1>33 DEF Poll, StdinEof, EntriesOK, StdinOK
  <1>34. ASSUME PeerStep \/ ChildStep \/ Tick \/ UNCHANGED vars PROVE StdinOK'
    BY <1>34 DEF PeerStep, PeerSend, PeerRecv, PeerFin, PeerRst, ChildStep,
         ChildRead, ChildWrite, ChildClose, ChildDie, Tick, serverVars, vars,
         StdinOK, StdinEof
  <1> QED
    BY <1>2, <1>3, <1>4, <1>5, <1>6, <1>7, <1>8, <1>9, <1>10, <1>11,
       <1>12, <1>13, <1>14, <1>15, <1>16, <1>17, <1>18, <1>19, <1>20,
       <1>21, <1>22, <1>23, <1>24, <1>25, <1>26, <1>27, <1>28, <1>29, <1>30,
       <1>31, <1>32, <1>33, <1>34
    DEF Next, Server, handle_client_read, handle_poll_output,
        handle_cgi_output, handle_cgi_stdin_writable

(* Lengths and limits are numbers.                                         *)
LEMMA StdoutNumbers ==
  ASSUME TypeOK
  PROVE  /\ cgi_send_pending \in Seq(Unit) /\ Len(cgi_send_pending) \in Nat
         /\ cgi_output \in Seq(Unit) /\ Len(cgi_output) \in Nat
         /\ Limit \in Nat /\ ReadMax \in Nat /\ PipeCap \in Nat
         /\ childOut - outRead \in Nat /\ childOut - outRead <= PipeCap
         /\ req.hdr \in Nat
  <1>1. cgi_send_pending \in Seq(Unit) /\ cgi_output \in Seq(Unit)
    BY DEF TypeOK, ClientTypes
  <1>2. childOut - outRead <= PipeCap
    BY DEF TypeOK, KernelTypes
  <1>3. childOut - outRead \in Nat
    BY RequestTypes
  <1>4. Limit \in Nat /\ ReadMax \in Nat /\ PipeCap \in Nat /\ req.hdr \in Nat
    BY RequestTypes, LimitsAssumption
  <1>5. Len(cgi_send_pending) \in Nat /\ Len(cgi_output) \in Nat
    BY <1>1
  <1> QED BY <1>1, <1>2, <1>3, <1>4, <1>5, Zenon

(* Most steps touch nothing that StdoutOK speaks of.                       *)
LEMMA StdoutFrame ==
  ASSUME TypeOK, StdoutOK,
         UNCHANGED <<req, child, childOut, outRead, cgi_output, cgi_send_pending>>,
         Active' <=> Active, Streamed' <=> Streamed,
         events'["out"] = events["out"],
         "OUT" \in events["client"] => "OUT" \in events'["client"],
         revents'["out"] \in {revents["out"], {}}
  PROVE  StdoutOK'
  BY DEF StdoutOK

(* A removed connection has nothing left to send.                          *)
LEMMA RemoveStdout ==
  ASSUME TypeOK, EntriesOK, StdoutOK, NEW w, remove_client(w)
  PROVE  StdoutOK'
  <1>1. /\ cgi_send_pending' = <<>> /\ ~Active' /\ Len(<<>>) = 0
    BY DEF remove_client, Active
  <1>2. revents'["out"] = {} /\ events'["out"] = {}
    BY LoopFacts DEF remove_client, EntriesOK
  <1> QED BY <1>1, <1>2, StdoutNumbers DEF StdoutOK

(* Reading from the CGI resumes, and its output waits in bounded space.    *)
LEMMA StdoutStep ==
  ASSUME TypeOK, EntriesOK, StdoutOK, [Next]_vars PROVE StdoutOK'
  <1> USE LoopFacts, TurnFacts
  <1>1. ASSUME ClientError PROVE StdoutOK'
    BY <1>1, RemoveStdout DEF ClientError
  <1>2. ASSUME ReadBackpressure PROVE StdoutOK'
    BY <1>2, StdoutFrame DEF ReadBackpressure, EndRead, Handled, Active, Streamed
  <1>3. ASSUME ReadEof PROVE StdoutOK'
    BY <1>3, StdoutFrame DEF ReadEof, EndRead, Handled, Active, Streamed
  <1>4. ASSUME ReadAgain PROVE StdoutOK'
    BY <1>4, StdoutFrame DEF ReadAgain, EndRead, Handled, Active, Streamed
  <1>5. ASSUME ReadDropped PROVE StdoutOK'
    BY <1>5, StdoutFrame DEF ReadDropped, EndRead, Handled, Active, Streamed
  <1>6. ASSUME ReadBadChunk PROVE StdoutOK'
    BY <1>6, StdoutFrame DEF ReadBadChunk, EndRead, Handled, Active, Streamed
  <1>7. ASSUME ForwardBody PROVE StdoutOK'
    BY <1>7, StdoutFrame DEF ForwardBody, Active, Streamed
  <1>8. ASSUME RequestEof PROVE StdoutOK'
    BY <1>8, RemoveStdout DEF RequestEof
  <1>9. ASSUME AwaitHeaders PROVE StdoutOK'
    BY <1>9, StdoutFrame DEF AwaitHeaders, EndRead, Handled, Active, Streamed
  <1>10. ASSUME RejectRequest PROVE StdoutOK'
    BY <1>10, StdoutFrame DEF RejectRequest, EndRead, Handled, Active, Streamed,
         OnlyWriting
  <1>11. ASSUME AwaitBody PROVE StdoutOK'
    BY <1>11, StdoutFrame DEF AwaitBody, EndRead, Handled, Active, Streamed
  <1>12. ASSUME AnswerRequest PROVE StdoutOK'
    BY <1>12, StdoutFrame DEF AnswerRequest, RespondWith, EndRead, Handled, Active,
         Streamed
  <1>13. ASSUME DispatchFails PROVE StdoutOK'
    BY <1>13, StdoutFrame DEF DispatchFails, RespondWith, EndRead, Handled, Active,
         Streamed
  <1>14. ASSUME dispatch_cgi PROVE StdoutOK'
    <2>1. /\ cgi_send_pending' = <<>> /\ cgi_output' = <<>>
          /\ childOut' = 0 /\ outRead' = 0
          /\ req' = req /\ "IN" \in events'["out"] /\ Len(<<>>) = 0
      BY <1>14 DEF dispatch_cgi
    <2> QED BY <2>1, StdoutNumbers DEF StdoutOK
  <1>15. ASSUME StreamDone PROVE StdoutOK'
    BY <1>15, RemoveStdout DEF StreamDone
  <1>16. ASSUME StreamIdle PROVE StdoutOK'
    BY <1>16 DEF StreamIdle, EndWrite, Handled, StdoutOK, Active, Streamed
  <1>17. ASSUME StreamSend PROVE StdoutOK'
    <2> DEFINE n == Least(SockRoom, Len(cgi_send_pending))
    <2>1. Len(Drop(cgi_send_pending, n)) \in Nat
          /\ Len(Drop(cgi_send_pending, n)) <= Len(cgi_send_pending)
      <3>1. /\ n \in Nat /\ n <= Len(cgi_send_pending)
            /\ Len(Drop(cgi_send_pending, n)) = Len(cgi_send_pending) - n
        BY StdoutNumbers, RoomTypes, PiecesType
      <3> HIDE DEF n
      <3> QED BY <3>1, StdoutNumbers
    <2>2. /\ cgi_send_pending' = Drop(cgi_send_pending, n) /\ cgi_send_pending # <<>>
          /\ events' = [events EXCEPT !["out"] =
                IF Active /\ Len(Drop(cgi_send_pending, n)) < Limit /\ "out" \in fds
                THEN @ \cup {"IN"} ELSE @]
          /\ revents'["out"] = revents["out"]
          /\ UNCHANGED <<req, child, childOut, outRead, flags, fds, cgi_output>>
      BY <1>17 DEF StreamSend, CgiResumes
    <2> HIDE DEF n
    <2>3. /\ Len(cgi_send_pending') \in Nat
          /\ Len(cgi_send_pending') <= Len(cgi_send_pending)
          /\ events' = [events EXCEPT !["out"] =
                IF Active /\ Len(cgi_send_pending') < Limit /\ "out" \in fds
                THEN @ \cup {"IN"} ELSE @]
      BY <2>1, <2>2
    <2>4. /\ events'["client"] = events["client"]
          /\ "IN" \in events["out"] => "IN" \in events'["out"]
          /\ Active /\ Len(cgi_send_pending') < Limit => "IN" \in events'["out"]
          /\ "IN" \in events'["out"] =>
               "IN" \in events["out"] \/ Len(cgi_send_pending') < Limit
      BY <2>3 DEF EntriesOK
    <2> QED BY <2>2, <2>3, <2>4, StdoutNumbers DEF StdoutOK, Active, Streamed
  <1>18. ASSUME StreamBlocked PROVE StdoutOK'
    BY <1>18, StdoutFrame DEF StreamBlocked, EndWrite, Handled, Active, Streamed
  <1>19. ASSUME StreamFails PROVE StdoutOK'
    BY <1>19, RemoveStdout DEF StreamFails
  <1>20. ASSUME ResponseSend PROVE StdoutOK'
    <2>1. CASE remove_client("done")
      BY <2>1, RemoveStdout
    <2>2. CASE ~remove_client("done")
      <3>1. /\ UNCHANGED <<req, child, childOut, outRead, flags, events, cgi_output,
                           cgi_send_pending>>
            /\ EndWrite
        BY <1>20, <2>2 DEF ResponseSend
      <3> QED BY <3>1, StdoutFrame DEF EndWrite, Handled, Active, Streamed
    <2> QED BY <2>1, <2>2
  <1>21. ASSUME ResponseFails PROVE StdoutOK'
    BY <1>21, RemoveStdout DEF ResponseFails
  <1>22. ASSUME CgiOutput PROVE StdoutOK'
    <2> DEFINE n     == Least(ReadMax, childOut - outRead)
               units == CgiUnits(outRead, outRead + n)
               raw   == cgi_output \o units
               found == req.hdr > 0 /\ Len(raw) >= req.hdr
               pend  == cgi_send_pending'
    <2>1. n \in Nat /\ n <= ReadMax /\ n <= childOut - outRead /\ Active
      BY <1>22, StdoutNumbers DEF Least, CgiOutput
    <2>2. units \in Seq(Unit) /\ Len(units) = n
      <3> HIDE DEF n
      <3>1. outRead + n \in Nat /\ outRead \in Nat /\ outRead <= outRead + n
        BY <2>1, RequestTypes
      <3>2. \A a, b \in Nat : a <= b =>
              CgiUnits(a, b) \in Seq(Unit) /\ Len(CgiUnits(a, b)) = b - a
        BY CgiUnitsType
      <3>3. Len(units) = (outRead + n) - outRead /\ units \in Seq(Unit)
        BY <3>1, <3>2, Zenon
      <3> QED BY <2>1, <3>1, <3>3
    <2>3. /\ outRead' = outRead + n
          /\ cgi_output' = (IF Streamed THEN cgi_output ELSE raw)
          /\ pend = (IF Streamed THEN cgi_send_pending \o units
                     ELSE IF found
                     THEN cgi_send_pending \o <<HttpHeader>> \o Drop(raw, req.hdr)
                     ELSE cgi_send_pending)
          /\ flags' = (IF found THEN flags \cup {"cgi_headers_sent"} ELSE flags)
          /\ UNCHANGED <<req, child, childOut>>
      BY <1>22 DEF CgiOutput, HeaderEnds, StreamedOutput, SendBufferFull
    <2>4. /\ events' = [events EXCEPT
               !["client"] = IF Streamed \/ found THEN @ \cup {"OUT"} ELSE @,
               !["out"] = IF Len(pend) > Limit THEN @ \ {"IN"} ELSE @]
          /\ revents'["out"] # {} => revents["out"] # {} /\ ~(Len(pend) > Limit)
      BY <1>22, <2>3 DEF CgiOutput, HeaderEnds, StreamedOutput, SendBufferFull
    <2> HIDE DEF n, units
    <2>5. raw \in Seq(Unit) /\ Len(raw) = Len(cgi_output) + n
      BY <2>1, <2>2, StdoutNumbers, ConcatProperties
    <2> HIDE DEF raw
    <2>6. /\ Len(pend) \in Nat /\ Len(pend) >= Len(cgi_send_pending)
          /\ Len(pend) <= Len(cgi_send_pending) + n
      <3>1. CASE Streamed
        BY <2>1, <2>2, <2>3, <3>1, StdoutNumbers, ConcatProperties
      <3>2. CASE ~Streamed /\ found
        <4>1. Len(cgi_output) < req.hdr
          BY <2>1, <3>2 DEF StdoutOK
        <4>2. /\ Drop(raw, req.hdr) \in Seq(Unit)
              /\ Len(Drop(raw, req.hdr)) = Len(raw) - req.hdr
          <5>1. req.hdr \in 0 .. Len(raw)
            BY <2>5, <3>2, StdoutNumbers
          <5>2. \A s \in Seq(Unit) : \A k \in 0 .. Len(s) :
                   Drop(s, k) \in Seq(Unit) /\ Len(Drop(s, k)) = Len(s) - k
            BY TakeDrop
          <5> QED BY <2>5, <5>1, <5>2, Zenon
        <4>3. /\ cgi_send_pending \o <<HttpHeader>> \in Seq(Unit)
              /\ Len(cgi_send_pending \o <<HttpHeader>>) = Len(cgi_send_pending) + 1
          BY UnitTypes, StdoutNumbers, ConcatProperties
        <4>4. Len(pend) = Len(cgi_send_pending) + 1 + (Len(raw) - req.hdr)
          <5> DEFINE x == cgi_send_pending \o <<HttpHeader>>
                     y == Drop(raw, req.hdr)
          <5>1. pend = x \o y
            BY <2>3, <3>2
          <5> HIDE DEF x, y
          <5>2. Len(x \o y) = Len(x) + Len(y)
            BY <4>2, <4>3, ConcatProperties DEF x, y
          <5> QED BY <4>2, <4>3, <5>1, <5>2 DEF x, y
        <4> QED BY <2>1, <2>5, <3>2, <4>1, <4>4, StdoutNumbers
      <3>3. CASE ~Streamed /\ ~found
        BY <2>1, <2>3, <3>3, StdoutNumbers
      <3> QED BY <3>1, <3>2, <3>3
    <2>7. Active' /\ (Streamed' <=> Streamed \/ found)
      BY <2>1, <2>3 DEF Active, Streamed
    <2>8. /\ events'["out"] =
               (IF Len(pend) > Limit THEN events["out"] \ {"IN"} ELSE events["out"])
          /\ Streamed \/ found => "OUT" \in events'["client"]
          /\ "OUT" \in events["client"] => "OUT" \in events'["client"]
      BY <2>4
    <2>9. ~Streamed /\ ~found => pend = cgi_send_pending
      BY <2>3
    <2>10. ~Streamed' /\ req.hdr > 0 => Len(cgi_output') < req.hdr
      BY <2>3, <2>5, <2>7, StdoutNumbers, <2>1
    <2>11. /\ "IN" \in events'["out"] \/ Len(pend) >= Limit
           /\ pend # <<>> => Streamed' /\ "OUT" \in events'["client"]
           /\ "IN" \in events'["out"] => Len(pend) <= Limit
      BY <2>1, <2>6, <2>7, <2>8, <2>9, StdoutNumbers DEF StdoutOK
    <2>12. child = "run" /\ revents'["out"] # {} => "IN" \in events'["out"]
      BY <2>4, <2>8 DEF StdoutOK
    <2>13. child = "run" => Len(pend) <= Limit + ReadMax
      <3>1. child = "run" => Len(cgi_send_pending) <= Limit
        BY <1>22 DEF CgiOutput, Turn, StdoutOK
      <3> QED BY <2>1, <2>6, <3>1, StdoutNumbers
    <2>14. child # "run" => Len(pend) + (childOut - outRead') <= Limit + ReadMax + PipeCap
      <3>1. child # "run" =>
              Len(cgi_send_pending) + (childOut - outRead) <= Limit + ReadMax + PipeCap
        BY <2>1 DEF StdoutOK
      <3>2. childOut - outRead' = (childOut - outRead) - n
        BY <2>1, <2>3, RequestTypes
      <3> QED BY <2>1, <2>6, <3>1, <3>2, StdoutNumbers
    <2> QED BY <2>3, <2>7, <2>10, <2>11, <2>12, <2>13, <2>14 DEF StdoutOK
  <1>23. ASSUME CgiOutputAgain PROVE StdoutOK'
    BY <1>23, StdoutFrame DEF CgiOutputAgain, Active, Streamed
  <1>24. ASSUME finalize_cgi PROVE StdoutOK'
    <2>1. /\ ~Active' /\ child # "run" /\ child' # "run" /\ Active
          /\ events'["out"] = {} /\ revents'["out"] = {} /\ "OUT" \in events'["client"]
          /\ cgi_send_pending' = cgi_send_pending /\ (Streamed' <=> Streamed)
      BY <1>24 DEF finalize_cgi, Reap, Active, Streamed, FinalEvents
    <2>2. Len(cgi_send_pending) <= Limit + ReadMax + PipeCap
      BY <2>1, StdoutNumbers DEF StdoutOK
    <2> QED BY <2>1, <2>2, StdoutNumbers DEF StdoutOK
  <1>25. ASSUME StdinError PROVE StdoutOK'
    BY <1>25, StdoutFrame DEF StdinError, DropStdin, Active, Streamed
  <1>26. ASSUME StdinOrphan PROVE StdoutOK'
    BY <1>26, StdoutFrame DEF StdinOrphan, DropStdin, Active, Streamed
  <1>27. ASSUME StdinFlush PROVE StdoutOK'
    BY <1>27, StdoutFrame DEF StdinFlush, Active, Streamed
  <1>28. ASSUME StdinClose PROVE StdoutOK'
    BY <1>28, StdoutFrame DEF StdinClose, DropStdin, Active, Streamed
  <1>29. ASSUME StdinKeep PROVE StdoutOK'
    BY <1>29, StdoutFrame DEF StdinKeep, Active, Streamed, StdinEvents
  <1>30. ASSUME EndScan PROVE StdoutOK'
    BY <1>30, StdoutFrame DEF EndScan, Active, Streamed
  <1>31. ASSUME TimeOut PROVE StdoutOK'
    BY <1>31, RemoveStdout DEF TimeOut
  <1>32. ASSUME Poll PROVE StdoutOK'
    <2>1. child = "run" /\ revents'["out"] # {} => "IN" \in events["out"]
      BY <1>32 DEF Poll, Ready, OutReady, Bit
    <2> QED BY <1>32, <2>1 DEF Poll, StdoutOK, Active, Streamed
  <1>33. ASSUME PeerStep \/ ChildRead \/ Tick \/ UNCHANGED vars PROVE StdoutOK'
    BY <1>33, StdoutFrame DEF PeerStep, PeerSend, PeerRecv, PeerFin, PeerRst,
         ChildRead, Tick, serverVars, vars, Active, Streamed
  <1>34. ASSUME ChildWrite PROVE StdoutOK'
    BY <1>34 DEF ChildWrite, serverVars, StdoutOK, Active, Streamed
  <1>35. ASSUME ChildClose PROVE StdoutOK'
    <2>1. /\ Len(cgi_send_pending) <= Limit + ReadMax /\ child' # "run"
          /\ UNCHANGED <<req, flags, cgi_send_pending, cgi_output, events, revents,
                         childOut, outRead>>
      BY <1>35 DEF ChildClose, serverVars, StdoutOK
    <2> QED BY <2>1, StdoutNumbers DEF StdoutOK, Active, Streamed
  <1>36. ASSUME ChildDie PROVE StdoutOK'
    BY <1>36 DEF ChildDie, serverVars, StdoutOK, Active, Streamed
  <1> QED
    BY <1>1, <1>2, <1>3, <1>4, <1>5, <1>6, <1>7, <1>8, <1>9, <1>10,
       <1>11, <1>12, <1>13, <1>14, <1>15, <1>16, <1>17, <1>18, <1>19,
       <1>20, <1>21, <1>22, <1>23, <1>24, <1>25, <1>26, <1>27, <1>28, <1>29,
       <1>30, <1>31, <1>32, <1>33, <1>34, <1>35, <1>36
    DEF Next, Server, ChildStep, handle_client_read, handle_poll_output,
        handle_cgi_output, handle_cgi_stdin_writable

(* The inductive invariant of the poll loop: after every system call of    *)
(* every handler, whatever the peer, the script and the clock do between   *)
(* two of them, the descriptors, the poll entries, the requested events    *)
(* and the buffers fit together.                                           *)
THEOREM LoopInvariant == Spec => []ConnInv
  <1>1. Init => ConnInv
    <2> SUFFICES ASSUME Init PROVE ConnInv
      OBVIOUS
    <2>1. /\ fds = {"client"} /\ reg = {"client"} /\ flags = {} /\ child = "none"
          /\ events  = [e \in Entries |-> IF e = "client" THEN {"IN"} ELSE {}]
          /\ revents = [e \in Entries |-> {}]
          /\ cgi_send_pending = <<>> /\ response = <<>>
      BY DEF Init
    <2>2. "client" \in Entries /\ "out" \in Entries /\ "in" \in Entries /\ Len(<<>>) = 0
      BY DEF Entries
    <2>3. EntriesOK
      BY <2>1, <2>2 DEF EntriesOK, Active
    <2>4. StdoutOK
      BY <2>1, <2>2, LimitsAssumption DEF StdoutOK, Active
    <2>5. AnswerServed /\ WriteHasWork /\ StdinOK
      BY <2>1, <2>2 DEF AnswerServed, WriteHasWork, Streamed, StdinOK
    <2> QED BY <2>3, <2>4, <2>5 DEF ConnInv
  <1>2. TypeOK /\ ConnInv /\ [Next]_vars => ConnInv'
    BY EntriesStep, StdoutStep, AnswerStep, WriteStep, StdinStep DEF ConnInv
  <1> QED BY <1>1, <1>2, TypeCorrect, PTL DEF Spec

(* No descriptor the connection holds is ever missing from poll_fds_:      *)
(* accept_client, dispatch_cgi, handle_client_read and the error handlers  *)
(* register and remove in step.                                            *)
THEOREM NothingForgotten == Spec => []HeldIsPolled
  <1>1. ConnInv => HeldIsPolled
    BY DEF ConnInv, EntriesOK, HeldIsPolled
  <1> QED BY <1>1, LoopInvariant, PTL

(* The backpressure on the client's body (Server.cpp:950-953, 566-598)     *)
(* never loses the wakeup that lifts it, nor the EOF owed to the script.   *)
THEOREM StdinWakeups == Spec => []StdinServed
  <1>1. ConnInv => StdinServed
    BY DEF ConnInv, EntriesOK, StdinOK, StdinServed, Entries
  <1> QED BY <1>1, LoopInvariant, PTL

(* The backpressure on the script's output (Server.cpp:424-432, 1325-1338) *)
(* never loses the wakeup that lifts it.                                   *)
THEOREM StdoutWakeups == Spec => []StdoutServed
  <1>1. ConnInv => StdoutServed
    BY DEF ConnInv, EntriesOK, StdoutOK, StdoutServed
  <1> QED BY <1>1, LoopInvariant, PTL

(* A finished answer is never left without the POLLOUT that sends it.      *)
THEOREM AnswerWakeups == Spec => []AnswerServed
  <1>1. ConnInv => AnswerServed
    BY DEF ConnInv
  <1> QED BY <1>1, LoopInvariant, PTL

(* The loop asks to write only when a handler has something to do about    *)
(* it: the branch of Server.cpp:1360-1363 is dead.                         *)
THEOREM WritesHaveWork == Spec => []WriteHasWork
  <1>1. ConnInv => WriteHasWork
    BY DEF ConnInv
  <1> QED BY <1>1, LoopInvariant, PTL

(* The send buffer holds at most the limit and one read, and after the     *)
(* script's end what was left in its pipe, for every script and client.    *)
THEOREM SendBufferBounded == Spec => []SendBound
  <1>1. TypeOK /\ ConnInv => SendBound
    BY StdoutNumbers DEF ConnInv, StdoutOK, SendBound
  <1> QED BY <1>1, TypeCorrect, LoopInvariant, PTL

-----------------------------------------------------------------------------
(***************************************************************************)
(* What happens to the body of a request on its way to the CGI: nothing of *)
(* it is lost, repeated or added, the buffer in between is bounded, and    *)
(* the script sees its end when it has been sent all of it.                *)
(***************************************************************************)
HeaderToken == [t |-> "hdr", n |-> 1]

(* Where the header block of a well-framed request ends, and its body.     *)
HeaderAt == FirstBlank(req.stream)
BodyLast == IF Chunked THEN Len(req.stream) - 1 ELSE Len(req.stream)

(* buffer_ holds the last tokens read, none of which ends a header block.  *)
BufferOK ==
  /\ Len(buffer) <= taken
  /\ \A i \in 1 .. Len(buffer) : buffer[i] = req.stream[taken - Len(buffer) + i]
  /\ ~HasBlankLine(buffer)
  /\ Active => buffer = <<>>

(* A script is started once, when the end of its header block is read; and *)
(* while it runs poll() reports no error on its stdin.                     *)
OnceOK ==
  /\ child # "none" => \E i \in 1 .. taken : req.stream[i] = HeaderToken
  /\ child = "none" => ~Active /\ "in" \notin reg
  /\ child = "run" /\ "in" \in fds => revents["in"] \cap ErrorBits = {}

(* While the stdin of the script is open the decoder is between chunks and *)
(* forwarded counts the body of known length; EOF is due at its end only.  *)
DecoderOK ==
  WellFramed(req) /\ "in" \in fds =>
    /\ HeaderAt <= taken
    /\ Chunked /\ taken < Len(req.stream) =>
         cgi_chunk_state = "size" /\ cgi_chunk_buf = <<>>
    /\ ~Chunked => forwarded = taken - HeaderAt
    /\ StdinEof /\ peer = "open" => taken >= BodyLast

BodyInv ==
  BufferOK /\ OnceOK /\ DecoderOK /\ StdinBound /\ BodyConserved /\ EofIsHonest

-------------------------------------------------------------------------------
(***************************************************************************)
(* Tokens of sequences.                                                    *)
(***************************************************************************)

(* The tokens of two sequences one after the other.                        *)
LEMMA ConcatTokens ==
  ASSUME NEW s \in Seq(Token), NEW t \in Seq(Token)
  PROVE  /\ s \o t \in Seq(Token) /\ Len(s \o t) = Len(s) + Len(t)
         /\ \A i \in 1 .. Len(s) : (s \o t)[i] = s[i]
         /\ \A i \in 1 .. Len(t) : (s \o t)[Len(s) + i] = t[i]
         /\ TokensOf(s \o t) = TokensOf(s) \cup TokensOf(t)
  <1>1. s \o t \in Seq(Token) /\ Len(s \o t) = Len(s) + Len(t)
    BY ConcatProperties
  <1>2. \A i \in 1 .. Len(s) : (s \o t)[i] = s[i] /\ i \in 1 .. Len(s \o t)
    BY <1>1
  <1>3. \A i \in 1 .. Len(t) : (s \o t)[Len(s) + i] = t[i] /\ Len(s) + i \in 1 .. Len(s \o t)
    BY <1>1
  <1>4. \A i \in 1 .. Len(s \o t) :
          \/ i \in 1 .. Len(s)
          \/ \E j \in 1 .. Len(t) : i = Len(s) + j
    <2> SUFFICES ASSUME NEW i \in 1 .. Len(s \o t), i \notin 1 .. Len(s)
                 PROVE  i - Len(s) \in 1 .. Len(t) /\ i = Len(s) + (i - Len(s))
      OBVIOUS
    <2> QED BY <1>1
  <1>5. TokensOf(s \o t) \subseteq TokensOf(s) \cup TokensOf(t)
    <2> SUFFICES ASSUME NEW x \in TokensOf(s \o t)
                 PROVE  x \in TokensOf(s) \cup TokensOf(t)
      OBVIOUS
    <2>1. PICK i \in 1 .. Len(s \o t) : x = (s \o t)[i]
      BY Zenon DEF TokensOf
    <2>2. CASE i \in 1 .. Len(s)
      BY <1>2, <2>1, <2>2, Zenon DEF TokensOf
    <2>3. ASSUME NEW j \in 1 .. Len(t), i = Len(s) + j
          PROVE  x \in TokensOf(t)
      <3>1. x = t[j]
        BY <1>3, <2>1, <2>3
      <3> QED BY <3>1, Zenon DEF TokensOf
    <2> QED BY <1>4, <2>2, <2>3
  <1>6. TokensOf(s) \subseteq TokensOf(s \o t)
    BY <1>2, Zenon DEF TokensOf
  <1>7. TokensOf(t) \subseteq TokensOf(s \o t)
    BY <1>3, Zenon DEF TokensOf
  <1> QED BY <1>1, <1>2, <1>3, <1>5, <1>6, <1>7

(* The tokens of a sequence cut in two.                                    *)
LEMMA CutTokens ==
  ASSUME NEW s \in Seq(Token), NEW k \in 0 .. Len(s)
  PROVE  TokensOf(s) = TokensOf(Take(s, k)) \cup TokensOf(Drop(s, k))
  <1>1. /\ Take(s, k) \in Seq(Token) /\ Len(Take(s, k)) = k
        /\ Drop(s, k) \in Seq(Token) /\ Len(Drop(s, k)) = Len(s) - k
        /\ \A i \in 1 .. k : Take(s, k)[i] = s[i]
        /\ \A i \in 1 .. (Len(s) - k) : Drop(s, k)[i] = s[k + i]
    BY TakeDrop
  <1>2. \A i \in 1 .. k : Take(s, k)[i] = s[i] /\ i \in 1 .. Len(s)
    BY <1>1
  <1>3. \A i \in 1 .. (Len(s) - k) : Drop(s, k)[i] = s[k + i] /\ k + i \in 1 .. Len(s)
    BY <1>1
  <1>4. \A i \in 1 .. Len(s) :
          i \in 1 .. k \/ \E j \in 1 .. (Len(s) - k) : i = k + j
    <2> SUFFICES ASSUME NEW i \in 1 .. Len(s), i \notin 1 .. k
                 PROVE  i - k \in 1 .. (Len(s) - k) /\ i = k + (i - k)
      OBVIOUS
    <2> QED OBVIOUS
  <1>5. TokensOf(s) \subseteq TokensOf(Take(s, k)) \cup TokensOf(Drop(s, k))
    <2> SUFFICES ASSUME NEW x \in TokensOf(s)
                 PROVE  x \in TokensOf(Take(s, k)) \cup TokensOf(Drop(s, k))
      OBVIOUS
    <2>1. PICK i \in 1 .. Len(s) : x = s[i]
      BY Zenon DEF TokensOf
    <2>2. ASSUME i \in 1 .. k PROVE x \in TokensOf(Take(s, k))
      BY <1>1, <1>2, <2>1, <2>2, Zenon DEF TokensOf
    <2>3. ASSUME NEW j \in 1 .. (Len(s) - k), i = k + j
          PROVE  x \in TokensOf(Drop(s, k))
      <3>1. x = Drop(s, k)[j]
        BY <1>3, <2>1, <2>3
      <3> QED BY <1>1, <3>1, Zenon DEF TokensOf
    <2> QED BY <1>4, <2>2, <2>3
  <1>6. TokensOf(Take(s, k)) \subseteq TokensOf(s)
    BY <1>1, <1>2, Zenon DEF TokensOf
  <1>7. TokensOf(Drop(s, k)) \subseteq TokensOf(s)
    <2> SUFFICES ASSUME NEW i \in 1 .. Len(Drop(s, k)) PROVE Drop(s, k)[i] \in TokensOf(s)
      BY Zenon DEF TokensOf
    <2>1. i \in 1 .. (Len(s) - k)
      BY <1>1
    <2>2. Drop(s, k)[i] = s[k + i] /\ k + i \in 1 .. Len(s)
      BY <1>3, <2>1, Zenon
    <2> QED BY <2>2, Zenon DEF TokensOf
  <1> QED BY <1>5, <1>6, <1>7

(* Bytes that come after a buffer that keeps some of them: part goes to    *)
(* the pipe, the rest to the end of the buffer, and none is lost.          *)
LEMMA SpreadTokens ==
  ASSUME NEW a \in Seq(Token), NEW b \in Seq(Token), NEW d \in Seq(Token),
         NEW k \in 0 .. Len(d)
  PROVE  /\ a \o Take(d, k) \in Seq(Token) /\ b \o Drop(d, k) \in Seq(Token)
         /\ Len(a \o Take(d, k)) + Len(b \o Drop(d, k)) = Len(a) + Len(b) + Len(d)
         /\ Len(b \o Drop(d, k)) <= Len(b) + Len(d)
         /\ TokensOf((a \o Take(d, k)) \o (b \o Drop(d, k))) =
              TokensOf(a \o b) \cup TokensOf(d)
  <1>1. /\ Take(d, k) \in Seq(Token) /\ Len(Take(d, k)) = k
        /\ Drop(d, k) \in Seq(Token) /\ Len(Drop(d, k)) = Len(d) - k
        /\ TokensOf(d) = TokensOf(Take(d, k)) \cup TokensOf(Drop(d, k))
    BY TakeDrop, CutTokens
  <1> DEFINE x == Take(d, k)
             y == Drop(d, k)
  <1> HIDE DEF x, y
  <1>2. /\ x \in Seq(Token) /\ Len(x) = k /\ y \in Seq(Token) /\ Len(y) = Len(d) - k
        /\ TokensOf(d) = TokensOf(x) \cup TokensOf(y)
    BY <1>1 DEF x, y
  <1>3. /\ a \o x \in Seq(Token) /\ Len(a \o x) = Len(a) + k
        /\ TokensOf(a \o x) = TokensOf(a) \cup TokensOf(x)
    BY <1>2, ConcatTokens
  <1>4. /\ b \o y \in Seq(Token) /\ Len(b \o y) = Len(b) + (Len(d) - k)
        /\ TokensOf(b \o y) = TokensOf(b) \cup TokensOf(y)
    <2>1. /\ b \o y \in Seq(Token) /\ Len(b \o y) = Len(b) + Len(y)
          /\ TokensOf(b \o y) = TokensOf(b) \cup TokensOf(y)
      BY <1>2, ConcatTokens
    <2> QED BY <1>2, <2>1
  <1>5. TokensOf((a \o x) \o (b \o y)) = TokensOf(a \o x) \cup TokensOf(b \o y)
    BY <1>3, <1>4, ConcatTokens
  <1>6. TokensOf(a \o b) = TokensOf(a) \cup TokensOf(b)
    BY ConcatTokens
  <1>7. Len(a \o x) + Len(b \o y) = Len(a) + Len(b) + Len(d) /\ Len(b \o y) <= Len(b) + Len(d)
    BY <1>3, <1>4
  <1>8. TokensOf((a \o x) \o (b \o y)) = TokensOf(a \o b) \cup TokensOf(d)
    BY <1>2, <1>3, <1>4, <1>5, <1>6
  <1> QED BY <1>3, <1>4, <1>7, <1>8 DEF x, y

(* What is flushed moves from the buffer to the pipe.                      *)
LEMMA FlushTokens ==
  ASSUME NEW a \in Seq(Token), NEW b \in Seq(Token), NEW k \in 0 .. Len(b)
  PROVE  /\ a \o Take(b, k) \in Seq(Token) /\ Drop(b, k) \in Seq(Token)
         /\ Len(a \o Take(b, k)) + Len(Drop(b, k)) = Len(a) + Len(b)
         /\ Len(Drop(b, k)) <= Len(b)
         /\ TokensOf((a \o Take(b, k)) \o Drop(b, k)) = TokensOf(a \o b)
  <1>1. /\ Take(b, k) \in Seq(Token) /\ Len(Take(b, k)) = k
        /\ Drop(b, k) \in Seq(Token) /\ Len(Drop(b, k)) = Len(b) - k
        /\ TokensOf(b) = TokensOf(Take(b, k)) \cup TokensOf(Drop(b, k))
    BY TakeDrop, CutTokens
  <1> DEFINE x == Take(b, k)
             y == Drop(b, k)
  <1> HIDE DEF x, y
  <1>2. /\ x \in Seq(Token) /\ Len(x) = k /\ y \in Seq(Token) /\ Len(y) = Len(b) - k
        /\ TokensOf(b) = TokensOf(x) \cup TokensOf(y)
    BY <1>1 DEF x, y
  <1>3. /\ a \o x \in Seq(Token) /\ Len(a \o x) = Len(a) + k
        /\ TokensOf(a \o x) = TokensOf(a) \cup TokensOf(x)
    BY <1>2, ConcatTokens
  <1>4. TokensOf((a \o x) \o y) = TokensOf(a \o x) \cup TokensOf(y)
    BY <1>2, <1>3, ConcatTokens
  <1>5. TokensOf(a \o b) = TokensOf(a) \cup TokensOf(b)
    BY ConcatTokens
  <1>6. Len(a \o x) + Len(y) = Len(a) + Len(b) /\ Len(y) <= Len(b)
    BY <1>2, <1>3
  <1>7. TokensOf((a \o x) \o y) = TokensOf(a \o b)
    BY <1>2, <1>3, <1>4, <1>5
  <1> QED BY <1>2, <1>3, <1>6, <1>7 DEF x, y

(* The tokens of a stretch of the client's stream.                         *)
LEMMA StretchTokens ==
  ASSUME NEW d \in Seq(Token), NEW m \in Nat,
         \A i \in 1 .. Len(d) : d[i] = req.stream[m + i]
  PROVE  TokensOf(d) = TokensAt((m + 1) .. (m + Len(d)))
  <1>1. Len(d) \in Nat
    OBVIOUS
  <1>2. \A i \in 1 .. Len(d) : d[i] = req.stream[m + i] /\ m + i \in (m + 1) .. (m + Len(d))
    BY <1>1
  <1>3. \A j \in (m + 1) .. (m + Len(d)) : \E i \in 1 .. Len(d) : j = m + i
    <2> SUFFICES ASSUME NEW j \in (m + 1) .. (m + Len(d))
                 PROVE  j - m \in 1 .. Len(d) /\ j = m + (j - m)
      OBVIOUS
    <2> QED BY <1>1
  <1> DEFINE J == (m + 1) .. (m + Len(d))
  <1> HIDE DEF J
  <1>4. TokensOf(d) \subseteq TokensAt(J)
    BY <1>2, Zenon DEF TokensOf, TokensAt, J
  <1>5. TokensAt(J) \subseteq TokensOf(d)
    <2> SUFFICES ASSUME NEW x \in TokensAt(J) PROVE x \in TokensOf(d)
      OBVIOUS
    <2>1. PICK j \in J : x = req.stream[j]
      BY Zenon DEF TokensAt
    <2>2. PICK i \in 1 .. Len(d) : j = m + i
      BY <1>3, <2>1 DEF J
    <2>3. x = d[i]
      BY <1>2, <2>1, <2>2
    <2> QED BY <2>3, Zenon DEF TokensOf
  <1> QED BY <1>4, <1>5 DEF J

(* Two stretches, one after the other.                                     *)
LEMMA StretchesJoin ==
  ASSUME NEW a \in Nat, NEW b \in Nat, NEW c \in Nat, a <= b, b <= c
  PROVE  TokensAt((a + 1) .. b) \cup TokensAt((b + 1) .. c) = TokensAt((a + 1) .. c)
  <1>1. ((a + 1) .. b) \cup ((b + 1) .. c) = (a + 1) .. c
    OBVIOUS
  <1>2. \A I, J : TokensAt(I \cup J) = TokensAt(I) \cup TokensAt(J)
    BY Zenon DEF TokensAt
  <1> QED BY <1>1, <1>2

-------------------------------------------------------------------------------
(***************************************************************************)
(* The stream of a well-framed request.                                    *)
(***************************************************************************)
LEMMA FramedFacts ==
  ASSUME TypeOK, WellFramed(req)
  PROVE  /\ HeaderAt \in 1 .. Len(req.stream) /\ req.stream[HeaderAt] = HeaderToken
         /\ BodyLast \in Nat /\ HeaderAt <= BodyLast /\ BodyLast <= Len(req.stream)
         /\ BodyIndices(req) = (HeaderAt + 1) .. BodyLast
         /\ req.framing \in {"none", "length", "chunked"}
         /\ req.framing = "none" => Len(req.stream) = HeaderAt
         /\ req.framing = "length" => Len(req.stream) = HeaderAt + req.len
         /\ Chunked => /\ BodyLast = Len(req.stream) - 1
                       /\ req.stream[Len(req.stream)].t = "end"
                       /\ \A j \in (HeaderAt + 1) .. BodyLast :
                            req.stream[j].t \in ChunkKinds
         /\ ~Chunked => BodyLast = Len(req.stream)
         /\ \A i \in 1 .. Len(req.stream) :
              req.stream[i] = HeaderToken => i = HeaderAt
  <1>1. /\ req \in Requests /\ req \in Request /\ req.stream \in Seq(Token)
        /\ req.len \in Nat
    BY RequestTypes
  <1>2. req.framing \in {"none", "length", "chunked"}
    BY <1>1 DEF Request
  <1> DEFINE st == req.stream
             h == FirstBlank(req.stream)
  <1>3. h \in 1 .. Len(st)
    <2>1. h \in 1 .. (Len(st) + 1) /\ \A j \in 1 .. (h - 1) : st[j].t \notin BlankLine
      BY <1>1, FirstInBounds DEF FirstBlank
    <2>2. HasBlankLine(st)
      BY DEF WellFramed
    <2> QED BY <1>1, <2>1, <2>2 DEF HasBlankLine
  <1>4. st[h] = HeaderToken
    BY DEF WellFramed, HeaderToken
  <1>5. \A i \in 1 .. Len(st) : st[i] = HeaderToken => i = h
    <2>1. \A i, j \in DOMAIN req.stream :
            req.stream[i] = [t |-> "hdr", n |-> 1] /\ req.stream[j] = req.stream[i] => i = j
      BY <1>1, OneRequestAssumption
    <2>2. DOMAIN st = 1 .. Len(st)
      BY <1>1
    <2> QED BY <1>3, <1>4, <2>1, <2>2 DEF HeaderToken
  <1>6. /\ req.framing = "none" => Len(st) = h
        /\ req.framing = "length" => Len(st) = h + req.len
        /\ req.framing = "chunked" =>
             /\ Len(st) > h /\ st[Len(st)].t = "end"
             /\ \A j \in (h + 1) .. (Len(st) - 1) : st[j].t \in ChunkKinds
    BY DEF WellFramed, BodyStart
  <1>7. Len(st) \in Nat
    BY <1>1
  <1>8. CASE req.framing = "none"
    <2>1. BodyIndices(req) = {} /\ ~Chunked
      BY <1>8 DEF BodyIndices, Chunked
    <2>2. (h + 1) .. Len(st) = {}
      BY <1>3, <1>6, <1>7, <1>8
    <2> HIDE DEF st, h
    <2> QED BY <1>1, <1>2, <1>3, <1>4, <1>5, <1>6, <1>7, <1>8, <2>1, <2>2
            DEF HeaderAt, BodyLast, st, h
  <1>9. CASE req.framing = "length"
    <2>1. BodyIndices(req) = (h + 1) .. (h + 1 + req.len - 1) /\ ~Chunked
      BY <1>9 DEF BodyIndices, BodyStart, Chunked
    <2>2. h + 1 + req.len - 1 = Len(st)
      BY <1>1, <1>3, <1>6, <1>7, <1>9
    <2> HIDE DEF st, h
    <2> QED BY <1>1, <1>2, <1>3, <1>4, <1>5, <1>6, <1>7, <1>9, <2>1, <2>2
            DEF HeaderAt, BodyLast, st, h
  <1>10. CASE req.framing = "chunked"
    <2>1. /\ BodyIndices(req) = {i \in (h + 1) .. Len(st) :
                                  \A j \in (h + 1) .. i : st[j].t \in ChunkKinds}
          /\ Chunked
      BY <1>10 DEF BodyIndices, BodyStart, Chunked
    <2>2. st[Len(st)].t \notin ChunkKinds
      BY <1>6, <1>10 DEF ChunkKinds
    <2> HIDE DEF st, h
    <2>3. BodyIndices(req) = (h + 1) .. (Len(st) - 1)
      BY <1>3, <1>6, <1>7, <1>10, <2>1, <2>2
    <2> QED BY <1>1, <1>2, <1>3, <1>4, <1>5, <1>6, <1>7, <1>10, <2>1, <2>3
            DEF HeaderAt, BodyLast, st, h
  <1> QED BY <1>2, <1>8, <1>9, <1>10

(* The body tokens among the first k of the stream are a stretch of it.    *)
LEMMA TakenStretch ==
  ASSUME TypeOK, WellFramed(req), NEW k \in Nat, HeaderAt <= k
  PROVE  LET I == {i \in BodyIndices(req) : i <= k}
         IN  /\ I = (HeaderAt + 1) .. Least(k, BodyLast)
             /\ Least(k, BodyLast) \in Nat /\ HeaderAt <= Least(k, BodyLast)
             /\ Cardinality(I) = Least(k, BodyLast) - HeaderAt
  <1> DEFINE I == {i \in BodyIndices(req) : i <= k}
             m == Least(k, BodyLast)
  <1>1. /\ HeaderAt \in Nat /\ BodyLast \in Nat /\ HeaderAt <= BodyLast
        /\ BodyIndices(req) = (HeaderAt + 1) .. BodyLast
    BY FramedFacts
  <1>2. m \in Nat /\ HeaderAt <= m
    BY <1>1 DEF Least
  <1>3. I = (HeaderAt + 1) .. m
    BY <1>1 DEF Least
  <1> HIDE DEF m
  <1>4. Cardinality((HeaderAt + 1) .. m) = m - HeaderAt
    <2>1. HeaderAt + 1 \in Int /\ m \in Int
      BY <1>1, <1>2
    <2>2. Cardinality((HeaderAt + 1) .. m) =
            IF HeaderAt + 1 > m THEN 0 ELSE m - (HeaderAt + 1) + 1
      BY <2>1, FS_Interval
    <2> QED BY <1>1, <1>2, <2>2
  <1> QED BY <1>2, <1>3, <1>4 DEF m

(* A stretch of a chunked body: all of it is chunks, but for the last      *)
(* token of the stream.                                                    *)
LEMMA ChunkStretch ==
  ASSUME TypeOK, WellFramed(req), Chunked,
         NEW s \in Seq(Token), NEW m \in Nat, HeaderAt <= m,
         m + Len(s) <= Len(req.stream),
         \A i \in 1 .. Len(s) : s[i] = req.stream[m + i]
  PROVE  /\ m + Len(s) < Len(req.stream) \/ Len(s) = 0 => FirstStop(s) = Len(s) + 1
         /\ m + Len(s) = Len(req.stream) /\ Len(s) > 0 =>
              FirstStop(s) = Len(s) /\ s[Len(s)].t = "end"
  <1>1. /\ HeaderAt \in 1 .. Len(req.stream) /\ BodyLast = Len(req.stream) - 1
        /\ req.stream[Len(req.stream)].t = "end"
        /\ \A j \in (HeaderAt + 1) .. BodyLast : req.stream[j].t \in ChunkKinds
    BY FramedFacts
  <1>2. req.stream \in Seq(Token) /\ Len(req.stream) \in Nat /\ Len(s) \in Nat
    BY RequestTypes
  <1> DEFINE f == FirstStop(s)
  <1>3. /\ f \in 1 .. (Len(s) + 1)
        /\ f <= Len(s) => s[f].t \in TokenKinds \ ChunkKinds
        /\ \A j \in 1 .. (f - 1) : s[j].t \notin TokenKinds \ ChunkKinds
    BY FirstInBounds DEF FirstStop
  <1> HIDE DEF f
  <1>4. \A i \in 1 .. Len(s) : m + i <= BodyLast => s[i].t \in ChunkKinds
    <2> SUFFICES ASSUME NEW i \in 1 .. Len(s), m + i <= BodyLast
                 PROVE  s[i].t \in ChunkKinds
      OBVIOUS
    <2>1. m + i \in (HeaderAt + 1) .. BodyLast
      BY <1>1, <1>2
    <2> QED BY <1>1, <2>1
  <1>5. ASSUME m + Len(s) < Len(req.stream) \/ Len(s) = 0
        PROVE  f = Len(s) + 1
    <2>1. f <= Len(s) => s[f].t \in ChunkKinds
      BY <1>1, <1>2, <1>3, <1>4, <1>5
    <2> QED BY <1>2, <1>3, <2>1
  <1>6. ASSUME m + Len(s) = Len(req.stream), Len(s) > 0
        PROVE  f = Len(s) /\ s[Len(s)].t = "end"
    <2>1. s[Len(s)].t = "end"
      <3>1. Len(s) \in 1 .. Len(s)
        BY <1>2, <1>6
      <3>2. s[Len(s)] = req.stream[m + Len(s)]
        BY <3>1
      <3> QED BY <1>1, <1>6, <3>2
    <2>2. "end" \in TokenKinds \ ChunkKinds
      BY DEF TokenKinds, ChunkKinds
    <2>3. f <= Len(s)
      BY <1>2, <1>3, <1>6, <2>1, <2>2
    <2>4. f < Len(s) => s[f].t \in ChunkKinds
      BY <1>1, <1>2, <1>3, <1>4, <1>6
    <2> QED BY <1>2, <1>3, <2>1, <2>3, <2>4
  <1> QED BY <1>5, <1>6 DEF f

(* A read returns the next tokens of the stream.                           *)
LEMMA ChunkTokens ==
  ASSUME TypeOK
  PROVE  /\ Chunk \in Seq(Token) /\ Len(Chunk) \in Nat /\ Len(Chunk) <= ReadMax
         /\ taken + Len(Chunk) <= Len(req.stream)
         /\ \A i \in 1 .. Len(Chunk) : Chunk[i] = req.stream[taken + i]
         /\ taken < arrived => Len(Chunk) > 0
  <1> DEFINE n == Least(ReadMax, arrived - taken)
  <1>1. n \in Nat /\ taken + n <= Len(req.stream) /\ (taken < arrived => n > 0)
    BY RequestTypes, LimitsAssumption DEF Least
  <1> HIDE DEF n
  <1>2. req.stream \in Seq(Token) /\ taken \in Nat
    BY RequestTypes
  <1>3. /\ Len(SubSeq(req.stream, taken + 1, taken + n)) = n
        /\ \A i \in 1 .. n : SubSeq(req.stream, taken + 1, taken + n)[i] = req.stream[taken + i]
    <2>1. \A t \in Seq(Token) : \A m, k \in Nat : m + k <= Len(t) =>
            /\ Len(SubSeq(t, m + 1, m + k)) = k
            /\ \A i \in 1 .. k : SubSeq(t, m + 1, m + k)[i] = t[m + i]
      BY SliceType
    <2> QED BY <1>1, <1>2, <2>1, Zenon
  <1>4. Chunk = SubSeq(req.stream, taken + 1, taken + n)
    BY DEF Chunk, n
  <1>5. Chunk \in Seq(Token) /\ Len(Chunk) <= ReadMax
    BY ChunkType
  <1> QED BY <1>1, <1>3, <1>4, <1>5

(* The bytes s are the stream from m on, cut where the body ends.          *)
IsBody(s, m, to) ==
  /\ s \in Seq(Token) /\ Len(s) = Least(to, BodyLast) - m
  /\ \A i \in 1 .. Len(s) : s[i] = req.stream[m + i]

(* What a read in the middle of a body gives the script: the body tokens   *)
(* it returned.  No chunk of it is refused, and EOF comes with the last.   *)
LEMMA ForwardData ==
  ASSUME TypeOK, WellFramed(req), DecoderOK, "in" \in fds, taken < arrived
  PROVE  /\ BodyDecoded.st # "error"
         /\ IsBody(BodyDecoded.data, taken, taken + Len(Chunk))
         /\ Len(BodyDecoded.data) <= ReadMax
         /\ BodyEnds => taken + Len(Chunk) >= BodyLast
         /\ Chunked /\ taken + Len(Chunk) < Len(req.stream) =>
              BodyDecoded.state = "size" /\ BodyDecoded.held = <<>>
  <1>1. /\ Chunk \in Seq(Token) /\ Len(Chunk) \in Nat /\ Len(Chunk) <= ReadMax
        /\ taken + Len(Chunk) <= Len(req.stream)
        /\ \A i \in 1 .. Len(Chunk) : Chunk[i] = req.stream[taken + i]
    BY ChunkTokens
  <1>2. /\ HeaderAt <= taken
        /\ Chunked /\ taken < Len(req.stream) =>
             cgi_chunk_state = "size" /\ cgi_chunk_buf = <<>>
        /\ ~Chunked => forwarded = taken - HeaderAt
    BY DEF DecoderOK
  <1>3. /\ taken \in Nat /\ taken < Len(req.stream) /\ Len(req.stream) \in Nat
        /\ Len(Chunk) > 0
    BY RequestTypes, ChunkType
  <1>4. HeaderAt \in Nat /\ BodyLast \in Nat
    BY FramedFacts
  <1>5. CASE ~Chunked
    <2>1. /\ BodyDecoded = Decoded("ok", Chunk, cgi_chunk_state, cgi_chunk_buf)
          /\ BodyLast = Len(req.stream)
      BY <1>5, FramedFacts DEF BodyDecoded
    <2>2. BodyDecoded.st = "ok" /\ BodyDecoded.data = Chunk
      BY <2>1 DEF Decoded
    <2>3. Least(taken + Len(Chunk), BodyLast) = taken + Len(Chunk)
      BY <1>1, <1>3, <2>1 DEF Least
    <2>4. BodyEnds => taken + Len(Chunk) >= BodyLast
      <3>1. BodyEnds => req.framing = "length" /\ forwarded + Len(Chunk) >= req.len
        BY <1>5 DEF BodyEnds
      <3> SUFFICES ASSUME BodyEnds PROVE taken + Len(Chunk) >= BodyLast
        OBVIOUS
      <3>2. forwarded = taken - HeaderAt /\ (taken - HeaderAt) + Len(Chunk) >= req.len
        BY <1>2, <1>5, <3>1
      <3>3. BodyLast = HeaderAt + req.len
        BY <2>1, <3>1, FramedFacts
      <3>4. /\ taken \in Nat /\ HeaderAt \in Nat /\ Len(Chunk) \in Nat
            /\ req.len \in Nat
        BY <1>1, <1>3, <1>4, RequestTypes
      <3>5. taken + Len(Chunk) >= HeaderAt + req.len
        BY <3>2, <3>4
      <3> QED BY <3>3, <3>5
    <2>5. IsBody(Chunk, taken, taken + Len(Chunk))
      BY <1>1, <1>3, <2>3 DEF IsBody
    <2> QED BY <1>1, <1>5, <2>2, <2>4, <2>5
  <1>6. CASE Chunked
    <2>1. BodyLast = Len(req.stream) - 1
      BY <1>6, FramedFacts
    <2>2. cgi_chunk_buf \o Chunk = Chunk
      <3>1. cgi_chunk_buf = <<>>
        BY <1>2, <1>3, <1>6
      <3> QED BY <1>1, <3>1, ConcatEmptySeq
    <2> DEFINE k == FirstStop(Chunk) - 1
    <2>3. BodyDecoded =
            IF k = Len(Chunk) THEN Decoded("ok", Chunk, "size", <<>>)
            ELSE IF Chunk[k + 1].t = "end"
            THEN Decoded("eof", Take(Chunk, k), "done", Drop(Chunk, k + 1))
            ELSE Decoded("error", <<>>, "size", Drop(Chunk, k + 1))
      <3>1. BodyDecoded = decode_chunked_for_cgi("size", cgi_chunk_buf, Chunk)
        BY <1>2, <1>3, <1>6 DEF BodyDecoded
      <3> QED BY <2>2, <3>1 DEF decode_chunked_for_cgi
    <2>4. BodyEnds <=> BodyDecoded.st = "eof"
      BY <1>6 DEF BodyEnds
    <2>5. CASE taken + Len(Chunk) < Len(req.stream)
      <3>1. k = Len(Chunk)
        <4>1. FirstStop(Chunk) = Len(Chunk) + 1
          BY <1>1, <1>2, <1>3, <1>6, <2>5, ChunkStretch
        <4> QED BY <1>1, <4>1
      <3>2. BodyDecoded = Decoded("ok", Chunk, "size", <<>>)
        BY <2>3, <3>1
      <3>3. /\ BodyDecoded.st = "ok" /\ BodyDecoded.data = Chunk
            /\ BodyDecoded.state = "size" /\ BodyDecoded.held = <<>>
        BY <3>2 DEF Decoded
      <3>4. Least(taken + Len(Chunk), BodyLast) = taken + Len(Chunk)
        BY <1>1, <1>3, <2>1, <2>5 DEF Least
      <3>5. IsBody(Chunk, taken, taken + Len(Chunk))
        BY <1>1, <1>3, <3>4 DEF IsBody
      <3> QED BY <1>1, <2>4, <3>3, <3>5
    <2>6. CASE taken + Len(Chunk) = Len(req.stream)
      <3>1. k = Len(Chunk) - 1 /\ Chunk[k + 1].t = "end"
        <4>1. FirstStop(Chunk) = Len(Chunk) /\ Chunk[Len(Chunk)].t = "end"
          BY <1>1, <1>2, <1>3, <1>6, <2>6, ChunkStretch
        <4> QED BY <1>1, <4>1
      <3> HIDE DEF k
      <3>2. BodyDecoded = Decoded("eof", Take(Chunk, k), "done", Drop(Chunk, k + 1))
        BY <1>1, <2>3, <3>1
      <3>3. BodyDecoded.st = "eof" /\ BodyDecoded.data = Take(Chunk, k)
        BY <3>2 DEF Decoded
      <3>4. k \in 0 .. Len(Chunk)
        BY <1>1, <1>3, <3>1
      <3>5. /\ Take(Chunk, k) \in Seq(Token) /\ Len(Take(Chunk, k)) = k
            /\ \A i \in 1 .. k : Take(Chunk, k)[i] = Chunk[i]
        BY <1>1, <3>4, TakeDrop
      <3>6. Least(taken + Len(Chunk), BodyLast) = taken + k
        BY <1>1, <1>3, <2>1, <2>6, <3>1 DEF Least
      <3>7. \A i \in 1 .. k : Take(Chunk, k)[i] = req.stream[taken + i]
        BY <1>1, <3>4, <3>5
      <3>8. IsBody(Take(Chunk, k), taken, taken + Len(Chunk))
        BY <1>3, <3>4, <3>5, <3>6, <3>7 DEF IsBody
      <3>9. Len(Take(Chunk, k)) <= ReadMax /\ taken + Len(Chunk) >= BodyLast
        BY <1>1, <2>1, <2>6, <3>4, <3>5, LimitsAssumption, <1>3
      <3> QED BY <1>1, <1>3, <2>6, <3>3, <3>8, <3>9
    <2> QED BY <1>1, <1>3, <2>5, <2>6
  <1> QED BY <1>5, <1>6

(* HTTPRequest on the next stretch of a well-framed body: it collects the  *)
(* body tokens, leaves nothing unread and is done at the end of the stream.*)
LEMMA ParseStretch ==
  ASSUME TypeOK, WellFramed(req), NEW b \in Seq(Token), NEW s \in Seq(Token),
         NEW m \in Nat, HeaderAt <= m, m <= BodyLast,
         m + Len(s) <= Len(req.stream),
         \A i \in 1 .. Len(s) : s[i] = req.stream[m + i],
         IsBody(b, HeaderAt, m), ParseBody(req, b, s).st # "error"
  PROVE  /\ IsBody(ParseBody(req, b, s).body, HeaderAt, m + Len(s))
         /\ ParseBody(req, b, s).left = <<>>
         /\ ParseBody(req, b, s).st = "done" <=> m + Len(s) = Len(req.stream)
         /\ ParseBody(req, b, s).st \in {"more", "done"}
  <1> DEFINE v == ParseBody(req, b, s)
  <1>1. /\ HeaderAt \in 1 .. Len(req.stream) /\ HeaderAt <= BodyLast /\ BodyLast \in Nat
        /\ BodyLast <= Len(req.stream) /\ req.framing \in {"none", "length", "chunked"}
        /\ Len(req.stream) \in Nat /\ Len(s) \in Nat /\ Len(b) \in Nat
        /\ req.len \in Nat /\ req.max \in Nat
    <2>1. req \in Request /\ req.stream \in Seq(Token) /\ req.len \in Nat
      BY RequestTypes
    <2>2. req.max \in Nat
      BY <2>1 DEF Request
    <2> QED BY <2>1, <2>2, FramedFacts
  <1>2. Len(b) = m - HeaderAt /\ \A i \in 1 .. Len(b) : b[i] = req.stream[HeaderAt + i]
    BY <1>1 DEF IsBody, Least
  (* Some first tokens of s after b. *)
  <1>3. ASSUME NEW k \in 0 .. Len(s), Least(m + Len(s), BodyLast) = m + k
        PROVE  IsBody(b \o Take(s, k), HeaderAt, m + Len(s))
    <2>1. /\ Take(s, k) \in Seq(Token) /\ Len(Take(s, k)) = k
          /\ \A i \in 1 .. k : Take(s, k)[i] = s[i]
      BY TakeDrop
    <2> DEFINE x == Take(s, k)
    <2> HIDE DEF x
    <2>2. /\ x \in Seq(Token) /\ Len(x) = k /\ \A i \in 1 .. k : x[i] = req.stream[m + i]
      <3>1. \A i \in 1 .. k : i \in 1 .. Len(s)
        BY <1>1, <1>3
      <3>2. \A i \in 1 .. k : Take(s, k)[i] = req.stream[m + i]
        BY <2>1, <3>1
      <3> QED BY <2>1, <3>2 DEF x
    <2>3. /\ b \o x \in Seq(Token) /\ Len(b \o x) = Len(b) + k
          /\ \A i \in 1 .. Len(b) : (b \o x)[i] = b[i]
          /\ \A i \in 1 .. k : (b \o x)[Len(b) + i] = x[i]
      BY <2>2, ConcatTokens
    <2>4. Len(b \o x) = Least(m + Len(s), BodyLast) - HeaderAt
      BY <1>1, <1>2, <1>3, <2>3
    <2>5. ASSUME NEW i \in 1 .. Len(b \o x) PROVE (b \o x)[i] = req.stream[HeaderAt + i]
      <3>1. CASE i <= Len(b)
        BY <1>1, <1>2, <2>3, <3>1
      <3>2. CASE i > Len(b)
        <4>1. i - Len(b) \in 1 .. k /\ i = Len(b) + (i - Len(b))
          BY <1>1, <2>3, <3>2
        <4>2. (b \o x)[i] = req.stream[m + (i - Len(b))]
          BY <2>2, <2>3, <4>1
        <4>3. m + (i - Len(b)) = HeaderAt + i
          BY <1>1, <1>2
        <4> QED BY <4>2, <4>3
      <3> QED BY <1>1, <3>1, <3>2
    <2> QED BY <2>3, <2>4, <2>5 DEF IsBody, x
  <1>4. CASE req.framing = "none"
    <2>1. v = Parsed("done", b, s)
      BY <1>4 DEF ParseBody
    <2>2. v.st = "done" /\ v.body = b /\ v.left = s
      BY <2>1 DEF Parsed
    <2>3. Len(s) = 0 /\ m = Len(req.stream)
      BY <1>1, <1>4, FramedFacts
    <2>4. s = <<>>
      BY <2>3, EmptySeq
    <2>5. m + Len(s) = m
      BY <2>3
    <2> QED BY <2>2, <2>3, <2>4, <2>5
  <1>5. CASE req.framing = "length"
    <2> DEFINE k == IF req.len > Len(b) THEN Least(req.len - Len(b), Len(s)) ELSE 0
    <2>1. Len(req.stream) = HeaderAt + req.len /\ BodyLast = Len(req.stream)
      BY <1>5, FramedFacts DEF Chunked
    <2>2. k = Len(s)
      BY <1>1, <1>2, <2>1 DEF Least
    <2>3. v = IF req.max > 0 /\ req.len > req.max THEN Parsed("error", b, s)
              ELSE Parsed(IF Len(b) + k >= req.len THEN "done" ELSE "more",
                          b \o Take(s, k), Drop(s, k))
      BY <1>5 DEF ParseBody, ParseLengthBody
    <2>4. ~(req.max > 0 /\ req.len > req.max)
      <3>1. Parsed("error", b, s).st = "error"
        BY DEF Parsed
      <3> QED BY <2>3, <3>1
    <2> HIDE DEF k
    <2>5. /\ v.st = IF Len(b) + k >= req.len THEN "done" ELSE "more"
          /\ v.body = b \o Take(s, k) /\ v.left = Drop(s, k)
      BY <2>3, <2>4 DEF Parsed
    <2>6. k \in 0 .. Len(s) /\ Least(m + Len(s), BodyLast) = m + k
      BY <1>1, <2>1, <2>2 DEF Least
    <2>7. Drop(s, k) = <<>>
      <3>1. Drop(s, k) \in Seq(Token) /\ Len(Drop(s, k)) = Len(s) - k
        BY <2>6, TakeDrop
      <3>2. Len(Drop(s, k)) = 0
        BY <1>1, <2>2, <3>1
      <3> QED BY <3>1, <3>2, EmptySeq
    <2>8. Len(b) + k >= req.len <=> m + Len(s) = Len(req.stream)
      <3>1. HeaderAt \in Nat /\ Len(b) + k = (m + Len(s)) - HeaderAt
        BY <1>1, <1>2, <2>2
      <3>2. m + Len(s) \in Nat /\ m + Len(s) <= HeaderAt + req.len
        BY <1>1, <2>1
      <3>3. (m + Len(s)) - HeaderAt >= req.len <=> m + Len(s) = HeaderAt + req.len
        <4>2. req.len \in Nat
          BY <1>1
        <4> DEFINE Meets(x, y, z) == x <= y + z => (x - y >= z <=> x = y + z)
        <4>3. \A x, y, z \in Nat : Meets(x, y, z)
          OBVIOUS
        <4> HIDE DEF Meets
        <4>4. Meets(m + Len(s), HeaderAt, req.len)
          BY <3>1, <3>2, <4>2, <4>3, Zenon
        <4> QED BY <3>2, <4>4, Zenon DEF Meets
      <3> QED BY <2>1, <3>1, <3>3
    <2>9. IsBody(v.body, HeaderAt, m + Len(s))
      BY <1>3, <2>5, <2>6
    <2> QED BY <2>5, <2>7, <2>8, <2>9
  <1>6. CASE req.framing = "chunked"
    <2> DEFINE k == FirstStop(s) - 1
               all == b \o Take(s, k)
    <2>1. Chunked /\ BodyLast = Len(req.stream) - 1
      BY <1>6, FramedFacts DEF Chunked
    <2>2. v = CASE req.max > 0 /\ Len(all) > req.max -> Parsed("error", all, Drop(s, k))
                [] OTHER ->
                     IF k = Len(s) THEN Parsed("more", all, <<>>)
                     ELSE IF s[k + 1].t = "end" THEN Parsed("done", all, Drop(s, k + 1))
                     ELSE Parsed("error", all, Drop(s, k + 1))
      BY <1>6 DEF ParseBody, ParseChunkedBody
    <2> HIDE DEF all
    <2>3. ~(req.max > 0 /\ Len(all) > req.max)
      <3>1. Parsed("error", all, Drop(s, k)).st = "error"
        BY DEF Parsed
      <3>2. req.max > 0 /\ Len(all) > req.max => v = Parsed("error", all, Drop(s, k))
        <4> HIDE DEF k
        <4> QED BY <2>2
      <3> HIDE DEF k, v
      <3>3. v.st # "error"
        BY <1>1 DEF v
      <3> QED BY <3>1, <3>2, <3>3, Zenon
    <2>4. CASE m + Len(s) # Len(req.stream)
      <3>0. m + Len(s) < Len(req.stream)
        <4> DEFINE x == m + Len(s)
                   y == Len(req.stream)
        <4>1. x \in Nat /\ y \in Nat
          BY <1>1
        <4>2. x <= y /\ x # y
          BY <2>4
        <4> HIDE DEF x, y
        <4>3. x < y
          BY <4>1, <4>2
        <4> QED BY <4>3 DEF x, y
      <3>1. k = Len(s)
        <4>1. FirstStop(s) = Len(s) + 1
          BY <1>1, <2>1, <3>0, ChunkStretch
        <4> QED BY <1>1, <4>1
      <3> HIDE DEF k
      <3>2. v = Parsed("more", all, <<>>)
        BY <2>2, <2>3, <3>1
      <3>3. v.st = "more" /\ v.body = all /\ v.left = <<>>
        BY <3>2 DEF Parsed
      <3>4. k \in 0 .. Len(s) /\ Least(m + Len(s), BodyLast) = m + k
        BY <1>1, <2>1, <3>0, <3>1 DEF Least
      <3>5. IsBody(all, HeaderAt, m + Len(s))
        BY <1>3, <3>4 DEF all
      <3> QED BY <2>4, <3>3, <3>5
    <2>5. CASE m + Len(s) = Len(req.stream)
      <3>0. Len(s) > 0
        BY <1>1, <2>1, <2>5
      <3>1. k = Len(s) - 1 /\ s[k + 1].t = "end"
        <4>1. FirstStop(s) = Len(s) /\ s[Len(s)].t = "end"
          BY <1>1, <2>1, <2>5, <3>0, ChunkStretch
        <4> QED BY <1>1, <4>1
      <3> HIDE DEF k
      <3>2. v = Parsed("done", all, Drop(s, k + 1))
        BY <1>1, <2>2, <2>3, <3>1
      <3>3. v.st = "done" /\ v.body = all /\ v.left = Drop(s, k + 1)
        BY <3>2 DEF Parsed
      <3>4. k \in 0 .. Len(s) /\ k + 1 \in 0 .. Len(s)
            /\ Least(m + Len(s), BodyLast) = m + k
        BY <1>1, <2>1, <2>5, <3>0, <3>1 DEF Least
      <3>5. IsBody(all, HeaderAt, m + Len(s))
        BY <1>3, <3>4 DEF all
      <3>6. Drop(s, k + 1) = <<>>
        <4>1. Drop(s, k + 1) \in Seq(Token) /\ Len(Drop(s, k + 1)) = Len(s) - (k + 1)
          BY <3>4, TakeDrop
        <4>2. Len(Drop(s, k + 1)) = 0
          BY <1>1, <3>1, <4>1
        <4> QED BY <4>1, <4>2, EmptySeq
      <3> QED BY <2>5, <3>3, <3>5, <3>6
    <2> QED BY <2>4, <2>5, Zenon
  <1> QED BY <1>1, <1>4, <1>5, <1>6

(* The bytes a request is looked for in: what was kept, and the read.      *)
LEMMA BytesTokens ==
  ASSUME TypeOK, BufferOK, ~Started
  PROVE  /\ RequestBytes \in Seq(Token) /\ Len(RequestBytes) = Len(buffer) + Len(Chunk)
         /\ taken - Len(buffer) \in Nat
         /\ \A i \in 1 .. Len(RequestBytes) :
              RequestBytes[i] = req.stream[(taken - Len(buffer)) + i]
         /\ \A i \in 1 .. Len(buffer) : RequestBytes[i].t \notin BlankLine
  <1>1. /\ buffer \in Seq(Token) /\ Chunk \in Seq(Token) /\ taken \in Nat
        /\ Len(buffer) \in Nat /\ Len(Chunk) \in Nat
        /\ \A i \in 1 .. Len(Chunk) : Chunk[i] = req.stream[taken + i]
    <2>1. buffer \in Seq(Token)
      BY DEF TypeOK, ClientTypes
    <2> QED BY <2>1, ChunkTokens, RequestTypes
  <1>2. RequestBytes = buffer \o Chunk
    BY DEF RequestBytes
  <1>3. /\ RequestBytes \in Seq(Token) /\ Len(RequestBytes) = Len(buffer) + Len(Chunk)
        /\ \A i \in 1 .. Len(buffer) : RequestBytes[i] = buffer[i]
        /\ \A i \in 1 .. Len(Chunk) : RequestBytes[Len(buffer) + i] = Chunk[i]
    BY <1>1, <1>2, ConcatTokens
  <1>4. /\ Len(buffer) <= taken
        /\ \A i \in 1 .. Len(buffer) : buffer[i] = req.stream[taken - Len(buffer) + i]
        /\ \A i \in DOMAIN buffer : buffer[i].t \notin BlankLine
    BY DEF BufferOK, HasBlankLine
  <1>5. ASSUME NEW i \in 1 .. Len(RequestBytes)
        PROVE  RequestBytes[i] = req.stream[(taken - Len(buffer)) + i]
    <2>1. CASE i <= Len(buffer)
      BY <1>1, <1>3, <1>4, <2>1
    <2>2. CASE i > Len(buffer)
      <3>1. i - Len(buffer) \in 1 .. Len(Chunk) /\ i = Len(buffer) + (i - Len(buffer))
        BY <1>1, <1>3, <2>2
      <3>2. RequestBytes[i] = req.stream[taken + (i - Len(buffer))]
        BY <1>1, <1>3, <3>1
      <3>3. taken + (i - Len(buffer)) = (taken - Len(buffer)) + i
        BY <1>1
      <3> QED BY <3>2, <3>3
    <2> QED BY <1>1, <1>3, <2>1, <2>2
  <1>6. \A i \in 1 .. Len(buffer) : RequestBytes[i].t \notin BlankLine
    BY <1>1, <1>3, <1>4
  <1>7. taken - Len(buffer) \in Nat
    BY <1>1, <1>4
  <1> QED BY <1>3, <1>5, <1>6, <1>7

(* The first blank line of these bytes was in the read.                    *)
LEMMA HeaderRead ==
  ASSUME TypeOK, BufferOK, ~Started, HasBlankLine(RequestBytes)
  PROVE  LET h == FirstBlank(RequestBytes)
             q == (taken - Len(buffer)) + h
         IN  /\ h \in 1 .. Len(RequestBytes) /\ h \in Nat
             /\ q \in (taken + 1) .. (taken + Len(Chunk)) /\ q \in 1 .. Len(req.stream)
             /\ RequestBytes[h] = req.stream[q]
             /\ Drop(RequestBytes, h) \in Seq(Token)
             /\ Len(Drop(RequestBytes, h)) = taken + Len(Chunk) - q
             /\ \A i \in 1 .. Len(Drop(RequestBytes, h)) :
                  Drop(RequestBytes, h)[i] = req.stream[q + i]
             /\ \A i \in 1 .. (h - 1) : RequestBytes[i].t \notin BlankLine
             /\ RequestBytes[h].t \in BlankLine
  <1> DEFINE s == RequestBytes
             h == FirstBlank(s)
             q == (taken - Len(buffer)) + h
  <1>1. /\ s \in Seq(Token) /\ Len(s) = Len(buffer) + Len(Chunk)
        /\ taken - Len(buffer) \in Nat
        /\ \A i \in 1 .. Len(s) : s[i] = req.stream[(taken - Len(buffer)) + i]
        /\ \A i \in 1 .. Len(buffer) : s[i].t \notin BlankLine
    BY BytesTokens
  <1>2. /\ taken \in Nat /\ Len(buffer) \in Nat /\ Len(Chunk) \in Nat
        /\ taken + Len(Chunk) <= Len(req.stream) /\ Len(req.stream) \in Nat
    <2>1. buffer \in Seq(Token)
      BY DEF TypeOK, ClientTypes
    <2> QED BY <2>1, ChunkTokens, RequestTypes
  <1>3. HasBlankLine(s)
    OBVIOUS
  <1> HIDE DEF s
  <1>4. /\ h \in 1 .. (Len(s) + 1)
        /\ h <= Len(s) => s[h].t \in BlankLine
        /\ \A j \in 1 .. (h - 1) : s[j].t \notin BlankLine
    BY <1>1, FirstInBounds DEF FirstBlank
  <1> HIDE DEF h
  <1>5. h \in 1 .. Len(s)
    <2>1. PICK i \in 1 .. Len(s) : s[i].t \in BlankLine
      BY <1>1, <1>3 DEF HasBlankLine
    <2>2. Len(s) \in Nat
      BY <1>1
    <2> QED BY <1>4, <2>1, <2>2
  <1>6. h > Len(buffer)
    BY <1>1, <1>2, <1>4, <1>5
  <1>7. /\ q \in (taken + 1) .. (taken + Len(Chunk)) /\ q \in 1 .. Len(req.stream)
        /\ s[h] = req.stream[q]
    BY <1>1, <1>2, <1>5, <1>6
  <1>8. /\ Drop(s, h) \in Seq(Token) /\ Len(Drop(s, h)) = Len(s) - h
        /\ \A i \in 1 .. (Len(s) - h) : Drop(s, h)[i] = s[h + i]
    <2>1. h \in 0 .. Len(s)
      BY <1>5
    <2>2. s \in Seq(Token)
      BY <1>1
    <2> QED BY ONLY <2>1, <2>2, TakeDrop
  <1>9. Len(Drop(s, h)) = taken + Len(Chunk) - q
    BY <1>1, <1>2, <1>5, <1>8
  <1>10. ASSUME NEW i \in 1 .. Len(Drop(s, h)) PROVE Drop(s, h)[i] = req.stream[q + i]
    <2>1. h + i \in 1 .. Len(s) /\ (taken - Len(buffer)) + (h + i) = q + i
      BY <1>1, <1>2, <1>5, <1>8
    <2>2. Drop(s, h)[i] = s[h + i]
      BY <1>8
    <2> QED BY <1>1, <2>1, <2>2
  <1> QED BY <1>4, <1>5, <1>7, <1>8, <1>9, <1>10 DEF s, h

(* The parser's verdict when the end of a well-framed header block is      *)
(* read: what came with it is collected as the start of the body.          *)
LEMMA FirstVerdict ==
  ASSUME TypeOK, BufferOK, WellFramed(req), ~Started,
         HasBlankLine(RequestBytes), IsFirstRequest(RequestBytes)
  PROVE  /\ taken < HeaderAt /\ HeaderAt <= taken + Len(Chunk)
         /\ Verdict.st # "error" =>
              /\ IsBody(Verdict.body, HeaderAt, taken + Len(Chunk))
              /\ Len(Verdict.body) <= ReadMax
              /\ Verdict.left = <<>>
              /\ Verdict.st = "done" <=> taken + Len(Chunk) = Len(req.stream)
              /\ Verdict.st \in {"more", "done"}
  <1> DEFINE s == RequestBytes
             h == FirstBlank(s)
             q == (taken - Len(buffer)) + h
             d == Drop(s, h)
  <1>1. /\ h \in 1 .. Len(s) /\ h \in Nat
        /\ q \in (taken + 1) .. (taken + Len(Chunk)) /\ q \in 1 .. Len(req.stream)
        /\ s[h] = req.stream[q]
        /\ d \in Seq(Token) /\ Len(d) = taken + Len(Chunk) - q
        /\ \A i \in 1 .. Len(d) : d[i] = req.stream[q + i]
    BY HeaderRead
  <1>2. /\ taken \in Nat /\ Len(Chunk) \in Nat /\ Len(Chunk) <= ReadMax
        /\ taken + Len(Chunk) <= Len(req.stream) /\ Len(req.stream) \in Nat
    BY ChunkTokens, RequestTypes
  <1>3. s[h] = HeaderToken
    BY DEF IsFirstRequest, HeaderToken
  <1>4. Verdict = ParseRequest(req, s)
    BY DEF Verdict
  <1>5. Verdict.st # "error" => Verdict = ParseBody(req, <<>>, d)
    <2>1. s[h].t = "hdr" /\ s[h].n = 1
      BY <1>3 DEF HeaderToken
    <2>2. req.kind # "invalid"
      BY DEF WellFramed
    <2>3. ParseRequest(req, s) =
            CASE \/ s[h].t # "hdr"
                 \/ \E j \in 1..(h-1) : s[j].t # "part" -> Parsed("error", <<>>, <<>>)
              [] OTHER ->
                   IF s[h].n # 1 THEN Parsed("done", <<>>, d)
                   ELSE IF req.kind = "invalid" THEN Parsed("error", <<>>, <<>>)
                   ELSE ParseBody(req, <<>>, d)
      BY DEF ParseRequest
    <2>4. Parsed("error", <<>>, <<>>).st = "error"
      BY DEF Parsed
    <2> HIDE DEF s, h, d
    <2>5. \/ ParseRequest(req, s) = Parsed("error", <<>>, <<>>)
          \/ ParseRequest(req, s) = ParseBody(req, <<>>, d)
      BY <2>1, <2>2, <2>3
    <2> QED BY <1>4, <2>4, <2>5
  <1> HIDE DEF s, h, q, d
  <1>6. q = HeaderAt
    BY <1>1, <1>3, FramedFacts
  <1>7. /\ taken < HeaderAt /\ HeaderAt <= taken + Len(Chunk)
        /\ HeaderAt + Len(d) = taken + Len(Chunk) /\ HeaderAt \in Nat
        /\ Len(d) <= ReadMax /\ Len(d) \in Nat
    BY <1>1, <1>2, <1>6, LimitsAssumption
  <1>8. ASSUME Verdict.st # "error"
        PROVE  /\ IsBody(Verdict.body, HeaderAt, taken + Len(Chunk))
               /\ Verdict.left = <<>>
               /\ Verdict.st = "done" <=> taken + Len(Chunk) = Len(req.stream)
               /\ Verdict.st \in {"more", "done"}
    <2>1. Verdict = ParseBody(req, <<>>, d)
      BY <1>5, <1>8
    <2>2. /\ <<>> \in Seq(Token) /\ d \in Seq(Token) /\ HeaderAt <= HeaderAt
          /\ HeaderAt <= BodyLast /\ HeaderAt + Len(d) <= Len(req.stream)
          /\ \A i \in 1 .. Len(d) : d[i] = req.stream[HeaderAt + i]
      BY <1>1, <1>2, <1>6, <1>7, FramedFacts
    <2>3. IsBody(<<>>, HeaderAt, HeaderAt)
      <3>1. Least(HeaderAt, BodyLast) = HeaderAt
        BY <2>2 DEF Least
      <3>2. <<>> \in Seq(Token) /\ Len(<<>>) = 0 /\ HeaderAt - HeaderAt = 0
        BY <1>7
      <3>3. \A i \in 1 .. Len(<<>>) : <<>>[i] = req.stream[HeaderAt + i]
        BY <3>2
      <3> QED BY <3>1, <3>2, <3>3 DEF IsBody
    <2>4. ParseBody(req, <<>>, d).st # "error"
      BY <1>8, <2>1
    <2>5. /\ IsBody(ParseBody(req, <<>>, d).body, HeaderAt, HeaderAt + Len(d))
          /\ ParseBody(req, <<>>, d).left = <<>>
          /\ ParseBody(req, <<>>, d).st = "done" <=> HeaderAt + Len(d) = Len(req.stream)
          /\ ParseBody(req, <<>>, d).st \in {"more", "done"}
      BY <1>7, <2>2, <2>3, <2>4, ParseStretch
    <2> QED BY <1>7, <2>1, <2>5
  <1>9. ASSUME IsBody(Verdict.body, HeaderAt, taken + Len(Chunk))
        PROVE  Len(Verdict.body) <= ReadMax
    <2>1. Len(Verdict.body) = Least(taken + Len(Chunk), BodyLast) - HeaderAt
      BY <1>9 DEF IsBody
    <2>2. BodyLast \in Nat
      BY FramedFacts
    <2> QED BY <1>2, <1>7, <2>1, <2>2, LimitsAssumption DEF Least
  <1> QED BY <1>7, <1>8, <1>9

(* The decoder dispatch_cgi starts with, and when it closes the pipe.      *)
LEMMA HandOverData ==
  ASSUME TypeOK, BufferOK, WellFramed(req), ~Started,
         HasBlankLine(RequestBytes), IsFirstRequest(RequestBytes), Verdict.st # "error"
  PROVE  /\ Chunked => HandOver.st = "ok"
         /\ Chunked /\ taken + Len(Chunk) < Len(req.stream) =>
              HandOver.state = "size" /\ HandOver.held = <<>>
         /\ ~Chunked /\ (req.framing = "none" \/ Len(Verdict.body) >= req.len) =>
              taken + Len(Chunk) >= BodyLast
         /\ ~Chunked => Len(Verdict.body) = taken + Len(Chunk) - HeaderAt
  <1>1. /\ taken < HeaderAt /\ HeaderAt <= taken + Len(Chunk)
        /\ IsBody(Verdict.body, HeaderAt, taken + Len(Chunk))
        /\ Verdict.left = <<>>
        /\ Verdict.st = "done" <=> taken + Len(Chunk) = Len(req.stream)
    BY FirstVerdict
  <1>2. /\ taken \in Nat /\ Len(Chunk) \in Nat
        /\ taken + Len(Chunk) <= Len(req.stream) /\ Len(req.stream) \in Nat
    BY ChunkTokens, RequestTypes
  <1>3. CASE Chunked
    <2>1. HandOver = Decoded("ok", <<>>, IF Verdict.st = "done" THEN "trailers" ELSE "size", <<>>)
      BY <1>1, <1>3 DEF HandOver
    <2>2. /\ HandOver.st = "ok" /\ HandOver.held = <<>>
          /\ HandOver.state = IF Verdict.st = "done" THEN "trailers" ELSE "size"
      BY <2>1 DEF Decoded
    <2>3. taken + Len(Chunk) < Len(req.stream) => Verdict.st # "done"
      BY <1>1, <1>2
    <2> QED BY <1>3, <2>2, <2>3
  <1>4. CASE ~Chunked
    <2>1. BodyLast = Len(req.stream) /\ req.framing \in {"none", "length"}
      BY <1>4, FramedFacts DEF Chunked
    <2>2. Len(Verdict.body) = taken + Len(Chunk) - HeaderAt
      <3>1. Len(Verdict.body) = Least(taken + Len(Chunk), BodyLast) - HeaderAt
        BY <1>1 DEF IsBody
      <3>2. Least(taken + Len(Chunk), BodyLast) = taken + Len(Chunk)
        BY <1>2, <2>1 DEF Least
      <3>3. HeaderAt \in Nat
        BY FramedFacts
      <3> QED BY <1>2, <3>1, <3>2, <3>3
    <2>3. req.framing = "none" => taken + Len(Chunk) >= BodyLast
      BY <1>1, <1>2, <2>1, FramedFacts
    <2>4. req.framing = "length" /\ Len(Verdict.body) >= req.len =>
            taken + Len(Chunk) >= BodyLast
      <3>1. req.framing = "length" => Len(req.stream) = HeaderAt + req.len
        BY FramedFacts
      <3>2. HeaderAt \in Nat /\ req.len \in Nat
        BY FramedFacts, RequestTypes
      <3> QED BY <1>2, <2>1, <2>2, <3>1, <3>2
    <2> QED BY <1>4, <2>1, <2>2, <2>3, <2>4
  <1> QED BY <1>3, <1>4

-------------------------------------------------------------------------------
(***************************************************************************)
(* The steps.  Most things move one way only, but for the two actions that *)
(* start something: poll() and dispatch_cgi.                               *)
(***************************************************************************)
Settles ==
  /\ req' = req /\ taken' >= taken
  /\ child' = "none" <=> child = "none"
  /\ child' = "run" => child = "run"
  /\ Active' => Active
  /\ fds' \subseteq fds
  /\ reg' \subseteq reg \cup (IF Active THEN {"in"} ELSE {})
  /\ revents'["in"] \subseteq revents["in"]

LEMMA SettlesStep ==
  ASSUME TypeOK, EntriesOK, [Next]_vars, ~Poll, ~dispatch_cgi PROVE Settles
  <1> USE LoopFacts, TurnFacts, RequestTypes DEF Active
  <1>1. ASSUME ReadBackpressure PROVE Settles
    BY <1>1 DEF ReadBackpressure, EndRead, Handled, Settles
  <1>2. ASSUME ReadEof PROVE Settles
    BY <1>2 DEF ReadEof, EndRead, Handled, Settles
  <1>3. ASSUME ReadAgain PROVE Settles
    BY <1>3 DEF ReadAgain, EndRead, Handled, Settles
  <1>4. ASSUME StreamIdle PROVE Settles
    BY <1>4 DEF StreamIdle, EndWrite, Handled, Settles
  <1>5. ASSUME StreamSend PROVE Settles
    BY <1>5 DEF StreamSend, CgiResumes, Settles
  <1>6. ASSUME StreamBlocked PROVE Settles
    BY <1>6 DEF StreamBlocked, EndWrite, Handled, Settles
  <1>7. ASSUME CgiOutput PROVE Settles
    BY <1>7 DEF CgiOutput, HeaderEnds, StreamedOutput, SendBufferFull,
       Settles
  <1>8. ASSUME CgiOutputAgain PROVE Settles
    BY <1>8 DEF CgiOutputAgain, Settles
  <1>9. ASSUME finalize_cgi PROVE Settles
    BY <1>9 DEF finalize_cgi, FinalEvents, Reap, Settles
  <1>10. ASSUME StdinError PROVE Settles
    BY <1>10 DEF StdinError, DropStdin, Settles
  <1>11. ASSUME StdinOrphan PROVE Settles
    BY <1>11 DEF StdinOrphan, DropStdin, Settles
  <1>12. ASSUME StdinFlush PROVE Settles
    BY <1>12 DEF StdinFlush, consume_cgi_stdin_pending, Settles
  <1>13. ASSUME StdinClose PROVE Settles
    BY <1>13 DEF StdinClose, DropStdin, Settles
  <1>14. ASSUME StdinKeep PROVE Settles
    BY <1>14 DEF StdinKeep, StdinEvents, Settles
  <1>15. ASSUME EndScan PROVE Settles
    BY <1>15 DEF EndScan, Settles
  <1>16. ASSUME PeerSend PROVE Settles
    BY <1>16 DEF PeerSend, serverVars, Settles
  <1>17. ASSUME PeerRecv PROVE Settles
    BY <1>17 DEF PeerRecv, serverVars, Settles
  <1>18. ASSUME PeerFin PROVE Settles
    BY <1>18 DEF PeerFin, serverVars, Settles
  <1>19. ASSUME PeerRst PROVE Settles
    BY <1>19 DEF PeerRst, serverVars, Settles
  <1>20. ASSUME ChildRead PROVE Settles
    BY <1>20 DEF ChildRead, serverVars, Settles
  <1>21. ASSUME ChildWrite PROVE Settles
    BY <1>21 DEF ChildWrite, serverVars, Settles
  <1>22. ASSUME ChildClose PROVE Settles
    BY <1>22 DEF ChildClose, serverVars, Settles
  <1>23. ASSUME ChildDie PROVE Settles
    BY <1>23 DEF ChildDie, serverVars, Settles
  <1>24. ASSUME Tick PROVE Settles
    BY <1>24 DEF Tick, serverVars, Settles
  <1>25. ASSUME ReadDropped PROVE Settles
    BY <1>25, ChunkTokens DEF ReadDropped, EndRead, Handled, BodyArrives,
       Settles
  <1>26. ASSUME ReadBadChunk PROVE Settles
    BY <1>26, ChunkTokens DEF ReadBadChunk, EndRead, Handled, BodyArrives,
       Settles
  <1>27. ASSUME AwaitHeaders PROVE Settles
    BY <1>27, ChunkTokens DEF AwaitHeaders, EndRead, Handled, BytesArrive,
       Settles
  <1>28. ASSUME RejectRequest PROVE Settles
    BY <1>28, ChunkTokens DEF RejectRequest, EndRead, Handled, Parsing,
       BytesArrive, OnlyWriting, Settles
  <1>29. ASSUME AwaitBody PROVE Settles
    BY <1>29, ChunkTokens DEF AwaitBody, EndRead, Handled, Parsing,
       BytesArrive, Settles
  <1>30. ASSUME AnswerRequest PROVE Settles
    BY <1>30, ChunkTokens DEF AnswerRequest, RespondWith, EndRead, Handled,
       Parsing, BytesArrive, Settles
  <1>31. ASSUME DispatchFails PROVE Settles
    BY <1>31, ChunkTokens DEF DispatchFails, RespondWith, EndRead, Handled,
       Parsing, BytesArrive, Settles
  <1>32. ASSUME NEW w, remove_client(w), taken' = taken PROVE Settles
    BY <1>32 DEF remove_client, Reap, Settles
  <1>33. ASSUME ClientError \/ RequestEof \/ StreamDone \/ StreamFails \/
               ResponseFails \/ TimeOut
        PROVE  Settles
    BY <1>33, <1>32 DEF ClientError, RequestEof, StreamDone, StreamFails,
       ResponseFails, TimeOut
  <1>34. ASSUME ResponseSend PROVE Settles
    <2>1. CASE remove_client("done")
      BY <1>32, <1>34, <2>1 DEF ResponseSend
    <2>2. CASE ~remove_client("done")
      <3>1. UNCHANGED <<req, taken, child, flags, fds, reg>> /\ EndWrite
        BY <1>34, <2>2 DEF ResponseSend
      <3> QED BY <3>1 DEF EndWrite, Handled, Settles
    <2> QED BY <2>1, <2>2
  <1>35. ASSUME ForwardBody PROVE Settles
    <2>1. /\ req' = req /\ child' = child /\ taken' = taken + Len(Chunk)
          /\ flags' \in {flags, flags \cup {"cgi_stdin_eof"}}
          /\ fds' \in {fds, fds \ {"in"}} /\ Active
          /\ reg' \in {reg, reg \ {"in"}, reg \cup {"in"}}
          /\ revents'["in"] \in {revents["in"], {}}
      BY <1>35 DEF ForwardBody, BodyArrives, CgiReading, BodyEnds, CanClose
    <2> QED BY <2>1, ChunkTokens DEF Settles
  <1>36. CASE UNCHANGED vars
    BY <1>36 DEF vars, Settles
  <1> QED
    BY <1>1, <1>2, <1>3, <1>4, <1>5, <1>6, <1>7, <1>8, <1>9, <1>10, <1>11,
       <1>12, <1>13, <1>14, <1>15, <1>16, <1>17, <1>18, <1>19, <1>20, <1>21,
       <1>22, <1>23, <1>24, <1>25, <1>26, <1>27, <1>28, <1>29, <1>30, <1>31,
       <1>33, <1>34, <1>35, <1>36
    DEF Next, Server, PeerStep, ChildStep, handle_client_read, handle_poll_output,
        handle_cgi_output, handle_cgi_stdin_writable

(* buffer_ stays the end of what was read.                                 *)
LEMMA BufferStep ==
  ASSUME TypeOK, EntriesOK, BufferOK, [Next]_vars PROVE BufferOK'
  <1>0. /\ buffer \in Seq(Token) /\ taken \in Nat /\ taken' \in Nat
    <2>1. TypeOK'
      BY TypeStep
    <2>2. buffer \in Seq(Token)
      BY DEF TypeOK, ClientTypes
    <2>3. taken \in Nat
      BY RequestTypes DEF TypeOK, KernelTypes
    <2>4. taken' \in Nat
      BY <2>1, RequestTypes DEF TypeOK, KernelTypes
    <2> QED BY <2>2, <2>3, <2>4
  <1>1. ASSUME UNCHANGED <<req, taken, buffer>>, Active' => Active PROVE BufferOK'
    BY <1>1 DEF BufferOK
  <1>2. ASSUME buffer' = <<>> PROVE BufferOK'
    BY <1>0, <1>2 DEF BufferOK, HasBlankLine
  <1>3. ASSUME Active, UNCHANGED <<req, buffer>> PROVE BufferOK'
    <2>1. buffer = <<>>
      BY <1>3 DEF BufferOK
    <2> QED BY <1>2, <1>3, <2>1
  <1>4. ASSUME Poll \/ ReadBackpressure \/ ReadEof \/ ReadAgain \/ StreamIdle \/
               StreamSend \/ StreamBlocked \/ CgiOutput
        PROVE  BufferOK'
    BY <1>4, <1>1 DEF Poll, ReadBackpressure, EndRead, Handled, ReadEof,
       ReadAgain, StreamIdle, EndWrite, StreamSend, CgiResumes, StreamBlocked,
       CgiOutput, HeaderEnds, StreamedOutput, SendBufferFull, Active
  <1>5. ASSUME CgiOutputAgain \/ StdinError \/ StdinOrphan \/ StdinFlush \/
               StdinClose \/ StdinKeep \/ EndScan
        PROVE  BufferOK'
    BY <1>5, <1>1 DEF CgiOutputAgain, StdinError, DropStdin, StdinOrphan,
       StdinFlush, consume_cgi_stdin_pending, StdinClose, StdinKeep,
       StdinEvents, EndScan, Active
  <1>6. ASSUME PeerSend \/ PeerRecv \/ PeerFin \/ PeerRst \/ ChildRead \/
               ChildWrite \/ ChildClose \/ ChildDie \/ Tick
        PROVE  BufferOK'
    BY <1>6, <1>1 DEF PeerSend, serverVars, PeerRecv, PeerFin, PeerRst,
       ChildRead, ChildWrite, ChildClose, ChildDie, Tick, Active
  <1>7. ASSUME ReadDropped \/ ReadBadChunk \/ ForwardBody
        PROVE  BufferOK'
    BY <1>7, <1>3 DEF ReadDropped, EndRead, Handled, BodyArrives,
       ReadBadChunk, ForwardBody, BodyEnds, CanClose, CgiReading
  <1>8. ASSUME RejectRequest \/ AwaitBody \/ AnswerRequest \/ DispatchFails
        PROVE  BufferOK'
    BY <1>8, <1>2 DEF RejectRequest, EndRead, Handled, Parsing, BytesArrive,
       OnlyWriting, AwaitBody, AnswerRequest, RespondWith, DispatchFails,
       clear_buffer
  <1>9. ASSUME dispatch_cgi \/ finalize_cgi
        PROVE  BufferOK'
    BY <1>9, <1>2 DEF dispatch_cgi, EndRead, Handled, Parsing, BytesArrive,
       finalize_cgi, FinalEvents, Reap, clear_buffer
  <1>10. ASSUME ClientError \/ RequestEof \/ StreamDone \/ StreamFails \/
               ResponseFails \/ TimeOut
        PROVE  BufferOK'
    BY <1>10, <1>2 DEF ClientError, RequestEof, StreamDone, StreamFails,
       ResponseFails, TimeOut, remove_client
  <1>11. ASSUME ResponseSend PROVE BufferOK'
    <2>1. CASE remove_client("done")
      BY <1>2, <2>1 DEF remove_client
    <2>2. CASE ~remove_client("done")
      BY <1>1, <1>11, <2>2 DEF ResponseSend, Active
    <2> QED BY <2>1, <2>2
  <1>12. ASSUME AwaitHeaders PROVE BufferOK'
    <2>1. /\ ~Started /\ ~HasBlankLine(RequestBytes) /\ buffer' = RequestBytes
          /\ ~Active /\ req' = req /\ flags' = flags /\ taken' = taken + Len(Chunk)
      BY <1>12 DEF AwaitHeaders, BytesArrive, RequestReading
    <2>2. /\ RequestBytes \in Seq(Token) /\ Len(RequestBytes) = Len(buffer) + Len(Chunk)
          /\ taken - Len(buffer) \in Nat
          /\ \A i \in 1 .. Len(RequestBytes) :
               RequestBytes[i] = req.stream[(taken - Len(buffer)) + i]
      BY <2>1, BytesTokens
    <2>3. Len(buffer) \in Nat /\ Len(Chunk) \in Nat
      BY <1>0, ChunkTokens
    <2>4. taken' - Len(RequestBytes) = taken - Len(buffer) /\ Len(RequestBytes) <= taken'
      BY <1>0, <2>1, <2>2, <2>3
    <2>5. ~Active'
      BY <2>1 DEF Active
    <2> QED BY <2>1, <2>2, <2>4, <2>5 DEF BufferOK, HasBlankLine
  <1>13. CASE UNCHANGED vars
    BY <1>1, <1>13 DEF vars, Active
  <1> QED
    BY <1>4, <1>5, <1>6, <1>7, <1>8, <1>9, <1>10, <1>11, <1>12, <1>13
    DEF Next, Server, PeerStep, ChildStep, handle_client_read, handle_poll_output,
        handle_cgi_output, handle_cgi_stdin_writable

(* The header token of the request comes once.                             *)
LEMMA HeaderOnce ==
  ASSUME TypeOK, NEW i \in 1 .. Len(req.stream), NEW j \in 1 .. Len(req.stream),
         req.stream[i] = HeaderToken, req.stream[j] = HeaderToken
  PROVE  i = j
  <1>1. req \in Requests /\ req.stream \in Seq(Token)
    BY RequestTypes
  <1>2. DOMAIN req.stream = 1 .. Len(req.stream)
    BY <1>1
  <1> QED BY <1>1, <1>2, OneRequestAssumption DEF HeaderToken

(* dispatch_cgi is called for a connection that has had no script, by the  *)
(* read that brings the end of its header block.                           *)
LEMMA DispatchOnce ==
  ASSUME TypeOK, EntriesOK, BufferOK, OnceOK, dispatch_cgi
  PROVE  /\ child = "none" /\ ~Active /\ ~Started
         /\ "in" \notin reg /\ "in" \notin fds /\ revents["in"] = {}
         /\ "client" \in fds /\ taken' = taken + Len(Chunk) /\ req' = req
         /\ HasBlankLine(RequestBytes) /\ IsFirstRequest(RequestBytes)
         /\ req.kind = "cgi" /\ Verdict.st # "error"
         /\ \E i \in 1 .. taken' : req.stream[i] = HeaderToken
  <1>1. /\ ~Active /\ ~Started /\ HasBlankLine(RequestBytes)
        /\ IsFirstRequest(RequestBytes) /\ req.kind = "cgi" /\ Verdict.st # "error"
        /\ taken' = taken + Len(Chunk) /\ req' = req /\ Turn("client")
    BY DEF dispatch_cgi, Parsing, BytesArrive, RequestReading, ClientReading, IsCgi
  <1> DEFINE h == FirstBlank(RequestBytes)
             q == (taken - Len(buffer)) + h
  <1>2. /\ q \in (taken + 1) .. (taken + Len(Chunk)) /\ q \in 1 .. Len(req.stream)
        /\ RequestBytes[h] = req.stream[q]
    BY <1>1, HeaderRead
  <1>3. req.stream[q] = HeaderToken
    BY <1>1, <1>2 DEF IsFirstRequest, HeaderToken
  <1> HIDE DEF q
  <1>4. taken \in Nat /\ Len(Chunk) \in Nat /\ taken <= Len(req.stream)
        /\ Len(req.stream) \in Nat
    BY ChunkTokens, RequestTypes
  <1>5. child = "none"
    <2> SUFFICES ASSUME child # "none" PROVE FALSE
      OBVIOUS
    <2>1. PICK i \in 1 .. taken : req.stream[i] = HeaderToken
      BY DEF OnceOK
    <2>2. i \in 1 .. Len(req.stream)
      BY <1>4
    <2>3. i = q
      BY <1>2, <1>3, <2>1, <2>2, HeaderOnce
    <2> QED BY <1>2, <1>4, <2>3
  <1>6. "in" \notin reg
    BY <1>5 DEF OnceOK
  <1>7. "in" \notin fds /\ revents["in"] = {} /\ "client" \in fds
    BY <1>1, <1>6, LoopFacts, TurnFacts DEF EntriesOK
  <1>8. q \in 1 .. taken'
    BY <1>1, <1>2, <1>4
  <1> QED BY <1>1, <1>3, <1>5, <1>6, <1>7, <1>8

(* The script is started once.                                             *)
LEMMA OnceStep ==
  ASSUME TypeOK, EntriesOK, BufferOK, OnceOK, [Next]_vars PROVE OnceOK'
  <1>0. taken \in Nat /\ taken' \in Nat
    BY TypeStep, RequestTypes DEF TypeOK, KernelTypes
  <1>1. CASE dispatch_cgi
    <2>1. /\ revents["in"] = {} /\ req' = req
          /\ \E i \in 1 .. taken' : req.stream[i] = HeaderToken
      BY <1>1, DispatchOnce
    <2>2. child' # "none" /\ revents' = [revents EXCEPT !["client"] = @ \ {"IN"}]
      BY <1>1 DEF dispatch_cgi, EndRead, Handled
    <2>3. revents'["in"] = {}
      BY <2>1, <2>2, LoopFacts
    <2> QED BY <2>1, <2>2, <2>3 DEF OnceOK
  <1>2. CASE Poll
    <2>1. /\ UNCHANGED <<req, taken, child, flags, fds, reg>>
          /\ revents' = [e \in Entries |-> IF e \in reg THEN Ready(e) ELSE {}]
      BY <1>2 DEF Poll
    <2>2. child = "run" /\ "in" \in fds => Ready("in") \cap ErrorBits = {}
      BY DEF Ready, InReady, Bit, ErrorBits
    <2>3. child = "run" /\ "in" \in fds => revents'["in"] \cap ErrorBits = {}
      BY <2>1, <2>2, LoopFacts
    <2>4. Active' <=> Active
      BY <2>1 DEF Active
    <2> QED BY <2>1, <2>3, <2>4 DEF OnceOK
  <1>3. CASE ~Poll /\ ~dispatch_cgi
    <2>1. Settles
      BY <1>3, SettlesStep
    <2>2. ASSUME child' # "none" PROVE \E i \in 1 .. taken' : req'.stream[i] = HeaderToken
      <3>1. PICK i \in 1 .. taken : req.stream[i] = HeaderToken
        BY <2>1, <2>2 DEF Settles, OnceOK
      <3>2. i \in 1 .. taken' /\ req' = req
        BY <1>0, <2>1 DEF Settles
      <3> QED BY <3>1, <3>2
    <2> QED BY <2>1, <2>2 DEF Settles, OnceOK
  <1> QED BY <1>1, <1>2, <1>3

(* BodyConserved, with the body tokens read as a stretch of the stream.    *)
LEMMA Conserved ==
  ASSUME TypeOK, WellFramed(req), "in" \in fds, BodyConserved, DecoderOK
  PROVE  /\ TokensOf(toChild \o cgi_stdin_pending) =
              TokensAt((HeaderAt + 1) .. Least(taken, BodyLast))
         /\ Len(toChild) + Len(cgi_stdin_pending) = Least(taken, BodyLast) - HeaderAt
  <1>1. HeaderAt <= taken /\ taken \in Nat
    BY RequestTypes DEF DecoderOK
  <1>2. /\ BodyTaken = (HeaderAt + 1) .. Least(taken, BodyLast)
        /\ Cardinality(BodyTaken) = Least(taken, BodyLast) - HeaderAt
    BY <1>1, TakenStretch DEF BodyTaken
  <1> QED BY <1>2 DEF BodyConserved

LEMMA StillConserved ==
  ASSUME TypeOK, WellFramed(req), req' = req, taken' \in Nat, HeaderAt <= taken',
         TokensOf(toChild \o cgi_stdin_pending)' =
           TokensAt((HeaderAt + 1) .. Least(taken', BodyLast)),
         Len(toChild') + Len(cgi_stdin_pending') = Least(taken', BodyLast) - HeaderAt
  PROVE  BodyConserved'
  <1> DEFINE I == {i \in BodyIndices(req) : i <= taken'}
  <1>1. /\ I = (HeaderAt + 1) .. Least(taken', BodyLast)
        /\ Cardinality(I) = Least(taken', BodyLast) - HeaderAt
    BY TakenStretch
  <1>2. BodyTaken' = I /\ \A J : {req'.stream[i] : i \in J} = TokensAt(J)
    BY DEF BodyTaken, TokensAt
  <1> HIDE DEF I
  <1>3. TokensAt(BodyTaken)' = TokensAt(I)
    BY <1>2 DEF TokensAt
  <1> QED BY <1>1, <1>2, <1>3 DEF BodyConserved

(* A closed stdin whose script has been sent the whole body.               *)
LEMMA StillHonest ==
  ASSUME TypeOK, WellFramed(req), req' = req,
         TokensOf(toChild)' = TokensAt((HeaderAt + 1) .. BodyLast)
  PROVE  EofIsHonest'
  <1>1. BodyIndices(req) = (HeaderAt + 1) .. BodyLast
    BY FramedFacts
  <1>2. TokensAt(BodyIndices(req))' = TokensAt(BodyIndices(req))
    BY DEF TokensAt
  <1> QED BY <1>1, <1>2 DEF EofIsHonest

Carried == DecoderOK /\ StdinBound /\ BodyConserved /\ EofIsHonest

(* A read of body bytes while the stdin is open.                           *)
LEMMA ForwardCarried ==
  ASSUME TypeOK, EntriesOK, Carried, WellFramed(req), ForwardBody PROVE Carried'
  <1> DEFINE data == BodyDecoded.data
             w    == Least(PipeRoom, Len(data))
             rest == Drop(data, w)
             closes == CanClose(BodyEnds, rest)
  <1>1. /\ "in" \in fds /\ taken < arrived /\ taken' = taken + Len(Chunk)
        /\ Len(cgi_stdin_pending) <= Limit /\ req' = req /\ peer' = peer
        /\ toChild' = toChild \o Take(data, w)
        /\ cgi_stdin_pending' = cgi_stdin_pending \o rest
        /\ cgi_chunk_state' = BodyDecoded.state /\ cgi_chunk_buf' = BodyDecoded.held
        /\ forwarded' = forwarded + (IF Chunked THEN 0 ELSE Len(Chunk))
        /\ flags' = IF BodyEnds /\ ~closes THEN flags \cup {"cgi_stdin_eof"} ELSE flags
        /\ fds' = IF closes THEN fds \ {"in"} ELSE fds
    BY DEF ForwardBody, BodyArrives
  <1>2. /\ IsBody(data, taken, taken') /\ Len(data) <= ReadMax
        /\ BodyEnds => taken' >= BodyLast
        /\ Chunked /\ taken' < Len(req.stream) =>
             BodyDecoded.state = "size" /\ BodyDecoded.held = <<>>
    BY <1>1, ForwardData DEF Carried
  <1>3. /\ taken \in Nat /\ taken' \in Nat /\ Len(Chunk) \in Nat
        /\ taken <= taken' /\ HeaderAt \in Nat /\ HeaderAt <= taken
        /\ BodyLast \in Nat /\ taken <= BodyLast /\ Len(req.stream) \in Nat
    <2>1. taken \in Nat /\ arrived <= Len(req.stream) /\ Len(req.stream) \in Nat
          /\ arrived \in Nat
      BY RequestTypes
    <2>2. Len(Chunk) \in Nat
      BY ChunkTokens
    <2>3. HeaderAt <= taken
      BY <1>1 DEF Carried, DecoderOK
    <2>4. HeaderAt \in Nat /\ BodyLast \in Nat
          /\ (BodyLast = Len(req.stream) - 1 \/ BodyLast = Len(req.stream))
      BY FramedFacts
    <2> QED BY <1>1, <2>1, <2>2, <2>3, <2>4
  <1>4. /\ data \in Seq(Token) /\ Len(data) = Least(taken', BodyLast) - taken
        /\ \A i \in 1 .. Len(data) : data[i] = req.stream[taken + i]
    BY <1>2 DEF IsBody
  <1>5. w \in 0 .. Len(data)
    <2>1. PipeRoom \in Nat /\ Len(data) \in Nat
      BY <1>4, RoomTypes
    <2> QED BY <2>1 DEF Least
  <1>6. toChild \in Seq(Token) /\ cgi_stdin_pending \in Seq(Token)
        /\ Len(toChild) \in Nat /\ Len(cgi_stdin_pending) \in Nat
    BY DEF TypeOK, KernelTypes, ClientTypes
  <1> HIDE DEF data, w
  <1>7. /\ toChild' \in Seq(Token) /\ cgi_stdin_pending' \in Seq(Token)
        /\ Len(toChild') + Len(cgi_stdin_pending')
             = Len(toChild) + Len(cgi_stdin_pending) + Len(data)
        /\ Len(cgi_stdin_pending') <= Len(cgi_stdin_pending) + Len(data)
        /\ TokensOf(toChild' \o cgi_stdin_pending') =
             TokensOf(toChild \o cgi_stdin_pending) \cup TokensOf(data)
    <2> DEFINE Spread(a, b, d, k) ==
           /\ a \o Take(d, k) \in Seq(Token) /\ b \o Drop(d, k) \in Seq(Token)
           /\ Len(a \o Take(d, k)) + Len(b \o Drop(d, k)) = Len(a) + Len(b) + Len(d)
           /\ Len(b \o Drop(d, k)) <= Len(b) + Len(d)
           /\ TokensOf((a \o Take(d, k)) \o (b \o Drop(d, k))) =
                TokensOf(a \o b) \cup TokensOf(d)
    <2>1. \A a, b, d \in Seq(Token) : \A k \in 0 .. Len(d) : Spread(a, b, d, k)
      BY SpreadTokens
    <2> HIDE DEF Spread
    <2>2. Spread(toChild, cgi_stdin_pending, data, w)
      <3>1. data \in Seq(Token) /\ toChild \in Seq(Token) /\ cgi_stdin_pending \in Seq(Token)
        BY <1>4, <1>6
      <3> QED BY <1>5, <2>1, <3>1, Zenon
    <2> QED BY <1>1, <2>2, Zenon DEF Spread
  <1>8. /\ TokensOf(toChild \o cgi_stdin_pending) = TokensAt((HeaderAt + 1) .. taken)
        /\ Len(toChild) + Len(cgi_stdin_pending) = taken - HeaderAt
    <2>1. Least(taken, BodyLast) = taken
      BY <1>3 DEF Least
    <2> QED BY <1>1, <2>1, Conserved DEF Carried
  <1>9. Least(taken', BodyLast) \in Nat /\ taken <= Least(taken', BodyLast)
    BY <1>3 DEF Least
  <1>10. TokensOf(data) = TokensAt((taken + 1) .. Least(taken', BodyLast))
    <2>1. taken + Len(data) = Least(taken', BodyLast)
      BY <1>3, <1>4, <1>9
    <2>2. TokensOf(data) = TokensAt((taken + 1) .. (taken + Len(data)))
      BY <1>3, <1>4, StretchTokens
    <2> QED BY <2>1, <2>2
  <1>11. TokensOf(toChild' \o cgi_stdin_pending') =
           TokensAt((HeaderAt + 1) .. Least(taken', BodyLast))
    BY <1>3, <1>7, <1>8, <1>9, <1>10, StretchesJoin
  <1>12. Len(toChild') + Len(cgi_stdin_pending') = Least(taken', BodyLast) - HeaderAt
    BY <1>3, <1>4, <1>7, <1>8, <1>9
  <1>13. BodyConserved'
    <2>1. TokensOf(toChild \o cgi_stdin_pending)' = TokensOf(toChild' \o cgi_stdin_pending')
      BY DEF TokensOf
    <2>2. HeaderAt <= taken'
      BY <1>3
    <2> QED BY <1>1, <1>3, <1>11, <1>12, <2>1, <2>2, StillConserved
  <1>14. StdinBound'
    <2>1. Len(cgi_stdin_pending') <= Limit + ReadMax
      <3>1. /\ Len(cgi_stdin_pending) <= Limit /\ Len(data) <= ReadMax
            /\ Len(cgi_stdin_pending') <= Len(cgi_stdin_pending) + Len(data)
        BY <1>1, <1>2, <1>7
      <3>2. /\ Limit \in Nat /\ ReadMax \in Nat /\ Len(cgi_stdin_pending) \in Nat
            /\ Len(data) \in Nat /\ Len(cgi_stdin_pending') \in Nat
        BY <1>4, <1>6, <1>7, LimitsAssumption
      <3> QED BY <3>1, <3>2
    <2> QED BY <2>1 DEF StdinBound
  <1>15. CASE closes
    <2>1. "in" \notin fds' /\ BodyEnds /\ cgi_stdin_pending' = <<>>
      BY <1>1, <1>15 DEF CanClose
    <2>2. toChild' \o cgi_stdin_pending' = toChild'
      BY <1>7, <2>1, ConcatEmptySeq
    <2>3. Least(taken', BodyLast) = BodyLast
      BY <1>2, <1>3, <2>1 DEF Least
    <2>4. TokensOf(toChild)' = TokensAt((HeaderAt + 1) .. BodyLast)
      BY <1>11, <2>2, <2>3 DEF TokensOf
    <2>5. EofIsHonest'
      BY <1>1, <2>4, StillHonest
    <2>6. DecoderOK'
      BY <2>1 DEF DecoderOK
    <2> QED BY <1>13, <1>14, <2>5, <2>6 DEF Carried
  <1>16. CASE ~closes
    <2>1. fds' = fds /\ (StdinEof' => StdinEof \/ BodyEnds)
      BY <1>1, <1>16 DEF StdinEof
    <2>2. EofIsHonest'
      BY <1>1, <2>1 DEF EofIsHonest
    <2>3. /\ HeaderAt' = HeaderAt /\ BodyLast' = BodyLast /\ Chunked' = Chunked
      BY <1>1 DEF HeaderAt, BodyLast, Chunked
    <2>4. ~Chunked => forwarded' = taken' - HeaderAt
      <3>1. ~Chunked => forwarded = taken - HeaderAt
        BY <1>1 DEF Carried, DecoderOK
      <3> QED BY <1>1, <1>3, <3>1
    <2>5. StdinEof' /\ peer' = "open" => taken' >= BodyLast
      <3>1. StdinEof /\ peer = "open" => taken >= BodyLast
        BY <1>1 DEF Carried, DecoderOK
      <3> QED BY <1>1, <1>2, <1>3, <2>1, <3>1
    <2>6. HeaderAt <= taken'
      BY <1>3
    <2>7. Chunked /\ taken' < Len(req'.stream) =>
            cgi_chunk_state' = "size" /\ cgi_chunk_buf' = <<>>
      BY <1>1, <1>2
    <2>8. DecoderOK'
      BY <2>3, <2>4, <2>5, <2>6, <2>7 DEF DecoderOK
    <2> QED BY <1>13, <1>14, <2>2, <2>8 DEF Carried
  <1> QED BY <1>15, <1>16

(* The read that brings the end of the header block: the body bytes that   *)
(* come with it are the first the script is sent.                          *)
LEMMA DispatchCarried ==
  ASSUME TypeOK, EntriesOK, BufferOK, OnceOK, WellFramed(req), dispatch_cgi
  PROVE  Carried'
  <1> DEFINE data == Verdict.body
             w    == Least(IF child' = "run" THEN PipeCap ELSE 0, Len(data))
             rest == Drop(data, w)
             complete == IF Chunked THEN HandOver.st = "eof"
                         ELSE req.framing = "none" \/ Len(data) >= req.len
             open == ~(complete /\ rest = <<>>)
  <1>1. /\ toChild' = Take(data, w) /\ cgi_stdin_pending' = rest
        /\ forwarded' = Len(data)
        /\ flags' = {"request_started", "cgi_active"}
                      \cup (IF complete /\ open THEN {"cgi_stdin_eof"} ELSE {})
        /\ fds' = fds \cup {"out"} \cup (IF open THEN {"in"} ELSE {})
        /\ cgi_chunk_state' = HandOver.state /\ cgi_chunk_buf' = HandOver.held
    BY DEF dispatch_cgi
  <1>2. /\ "in" \notin fds /\ req' = req /\ taken' = taken + Len(Chunk)
        /\ ~Started /\ HasBlankLine(RequestBytes) /\ IsFirstRequest(RequestBytes)
        /\ Verdict.st # "error"
    BY DispatchOnce
  <1>3. /\ HeaderAt <= taken' /\ IsBody(data, HeaderAt, taken')
        /\ Len(data) <= ReadMax
    BY <1>2, FirstVerdict
  <1>4. /\ Chunked => HandOver.st = "ok"
        /\ Chunked /\ taken' < Len(req.stream) =>
             HandOver.state = "size" /\ HandOver.held = <<>>
        /\ ~Chunked /\ (req.framing = "none" \/ Len(data) >= req.len) =>
             taken' >= BodyLast
        /\ ~Chunked => Len(data) = taken' - HeaderAt
    <2>1. /\ Chunked => HandOver.st = "ok"
          /\ Chunked /\ taken + Len(Chunk) < Len(req.stream) =>
               HandOver.state = "size" /\ HandOver.held = <<>>
          /\ ~Chunked /\ (req.framing = "none" \/ Len(Verdict.body) >= req.len) =>
               taken + Len(Chunk) >= BodyLast
          /\ ~Chunked => Len(Verdict.body) = taken + Len(Chunk) - HeaderAt
      BY <1>2, HandOverData, Zenon
    <2>2. taken \in Nat /\ Len(Chunk) \in Nat /\ HeaderAt \in Nat
      BY RequestTypes, ChunkTokens, FramedFacts
    <2> QED BY <1>2, <2>1, <2>2
  <1>5. complete => taken' >= BodyLast
    BY <1>4
  <1>6. /\ taken' \in Nat /\ HeaderAt \in Nat /\ BodyLast \in Nat /\ HeaderAt <= BodyLast
    <2>1. taken \in Nat /\ Len(Chunk) \in Nat
      BY RequestTypes, ChunkTokens
    <2> QED BY <1>2, <2>1, FramedFacts
  <1>7. /\ data \in Seq(Token) /\ Len(data) = Least(taken', BodyLast) - HeaderAt
        /\ \A i \in 1 .. Len(data) : data[i] = req.stream[HeaderAt + i]
    BY <1>3 DEF IsBody
  <1>8. w \in 0 .. Len(data)
    <2>1. Len(data) \in Nat /\ PipeCap \in Nat
      BY <1>7, LimitsAssumption
    <2> QED BY <2>1 DEF Least
  <1> HIDE DEF data, w, complete
  <1>9. /\ toChild' \in Seq(Token) /\ cgi_stdin_pending' \in Seq(Token)
        /\ Len(toChild') = w /\ Len(cgi_stdin_pending') = Len(data) - w
        /\ TokensOf(data) = TokensOf(toChild') \cup TokensOf(cgi_stdin_pending')
    <2> DEFINE Cut(d, k) == /\ Take(d, k) \in Seq(Token) /\ Drop(d, k) \in Seq(Token)
                            /\ Len(Take(d, k)) = k /\ Len(Drop(d, k)) = Len(d) - k
                            /\ TokensOf(d) = TokensOf(Take(d, k)) \cup TokensOf(Drop(d, k))
    <2>1. \A d \in Seq(Token) : \A k \in 0 .. Len(d) : Cut(d, k)
      BY TakeDrop, CutTokens
    <2> HIDE DEF Cut
    <2>2. Cut(data, w)
      BY <1>7, <1>8, <2>1, Zenon
    <2> QED BY <1>1, <2>2, Zenon DEF Cut
  <1>10. TokensOf(toChild' \o cgi_stdin_pending') = TokensOf(data)
    BY <1>9, ConcatTokens
  <1>11. Least(taken', BodyLast) \in Nat /\ HeaderAt <= Least(taken', BodyLast)
    BY <1>3, <1>6 DEF Least
  <1>12. TokensOf(toChild' \o cgi_stdin_pending') =
           TokensAt((HeaderAt + 1) .. Least(taken', BodyLast))
    <2>1. HeaderAt + Len(data) = Least(taken', BodyLast)
      BY <1>6, <1>7, <1>11
    <2>2. TokensOf(data) = TokensAt((HeaderAt + 1) .. (HeaderAt + Len(data)))
      BY <1>6, <1>7, StretchTokens
    <2> QED BY <1>10, <2>1, <2>2
  <1>13. Len(toChild') + Len(cgi_stdin_pending') = Least(taken', BodyLast) - HeaderAt
    <2>1. Len(data) \in Nat /\ w \in Nat
      BY <1>7, <1>8
    <2> QED BY <1>7, <1>9, <2>1
  <1>14. BodyConserved'
    <2>1. TokensOf(toChild \o cgi_stdin_pending)' = TokensOf(toChild' \o cgi_stdin_pending')
      BY DEF TokensOf
    <2> QED BY <1>2, <1>3, <1>6, <1>12, <1>13, <2>1, StillConserved
  <1>15. StdinBound'
    <2>1. Len(data) \in Nat /\ w \in Nat
      BY <1>7, <1>8
    <2>2. Len(cgi_stdin_pending') <= Limit + ReadMax
      BY <1>3, <1>9, <2>1, LimitsAssumption
    <2> QED BY <2>2 DEF StdinBound
  <1>16. EofIsHonest'
    <2>1. CASE open
      BY <1>1, <2>1 DEF EofIsHonest
    <2>2. CASE ~open
      <3>1. complete /\ cgi_stdin_pending' = <<>>
        BY <1>1, <2>2
      <3>2. toChild' \o cgi_stdin_pending' = toChild'
        BY <1>9, <3>1, ConcatEmptySeq
      <3>3. Least(taken', BodyLast) = BodyLast
        BY <1>5, <1>6, <3>1 DEF Least
      <3>4. TokensOf(toChild)' = TokensAt((HeaderAt + 1) .. BodyLast)
        BY <1>12, <3>2, <3>3 DEF TokensOf
      <3> QED BY <1>2, <3>4, StillHonest
    <2> QED BY <2>1, <2>2
  <1>17. DecoderOK'
    <2>1. /\ HeaderAt' = HeaderAt /\ BodyLast' = BodyLast /\ Chunked' = Chunked
      BY <1>2 DEF HeaderAt, BodyLast, Chunked
    <2>2. StdinEof' => complete
      BY <1>1 DEF StdinEof
    <2>3. ~Chunked => forwarded' = taken' - HeaderAt
      BY <1>1, <1>4
    <2>4. Chunked /\ taken' < Len(req'.stream) =>
            cgi_chunk_state' = "size" /\ cgi_chunk_buf' = <<>>
      BY <1>1, <1>2, <1>4
    <2> QED BY <1>3, <1>5, <2>1, <2>2, <2>3, <2>4 DEF DecoderOK
  <1> QED BY <1>14, <1>15, <1>16, <1>17 DEF Carried

(* Steps that leave the body alone.                                        *)
LEMMA SameCarried ==
  ASSUME Carried, UNCHANGED <<req, taken, toChild, stdinVars, fds>>,
         StdinEof' => StdinEof \/ peer # "open",
         child' = "run" => child = "run", peer' = "open" => peer = "open"
  PROVE  Carried'
  <1>1. DecoderOK'
    BY DEF Carried, DecoderOK, HeaderAt, BodyLast, Chunked, StdinEof
  <1>2. StdinBound'
    BY DEF Carried, StdinBound
  <1>3. BodyConserved'
    <2>1. BodyTaken' = BodyTaken /\ TokensAt(BodyTaken)' = TokensAt(BodyTaken)
      BY DEF BodyTaken, TokensAt
    <2>2. TokensOf(toChild \o cgi_stdin_pending)' = TokensOf(toChild \o cgi_stdin_pending)
      BY DEF TokensOf
    <2> QED BY <2>1, <2>2 DEF Carried, BodyConserved
  <1>4. EofIsHonest'
    <2>1. TokensAt(BodyIndices(req))' = TokensAt(BodyIndices(req))
      BY DEF TokensAt
    <2>2. TokensOf(toChild)' = TokensOf(toChild)
      BY DEF TokensOf
    <2> QED BY <2>1, <2>2 DEF Carried, EofIsHonest
  <1> QED BY <1>1, <1>2, <1>3, <1>4 DEF Carried

(* Once the stdin is closed only the promise to the script is left.        *)
LEMMA ClosedCarried ==
  ASSUME StdinBound, req' = req, "in" \notin fds',
         cgi_stdin_pending' = cgi_stdin_pending \/ cgi_stdin_pending' = <<>>,
         EofIsHonest'
  PROVE  Carried'
  <1>1. DecoderOK' /\ BodyConserved'
    BY DEF DecoderOK, BodyConserved
  <1>2. StdinBound'
    BY LimitsAssumption DEF StdinBound
  <1> QED BY <1>1, <1>2 DEF Carried

(* handle_cgi_stdin_writable moves bytes from the buffer to the pipe.      *)
LEMMA FlushCarried ==
  ASSUME TypeOK, Carried, WellFramed(req), StdinFlush PROVE Carried'
  <1> DEFINE w == Least(PipeRoom, Len(cgi_stdin_pending))
  <1>1. /\ toChild' = toChild \o Take(cgi_stdin_pending, w)
        /\ cgi_stdin_pending' = Drop(cgi_stdin_pending, w)
        /\ UNCHANGED <<req, peer, child, taken, fds, flags, cgi_chunk_state,
                       cgi_chunk_buf, forwarded>>
    BY DEF StdinFlush, consume_cgi_stdin_pending
  <1>2. toChild \in Seq(Token) /\ cgi_stdin_pending \in Seq(Token)
    BY DEF TypeOK, KernelTypes, ClientTypes
  <1>3. w \in 0 .. Len(cgi_stdin_pending)
    <2>1. PipeRoom \in Nat /\ Len(cgi_stdin_pending) \in Nat
      BY <1>2, RoomTypes
    <2> QED BY <2>1 DEF Least
  <1>4. "in" \in fds
    BY LimitsAssumption DEF StdinFlush, Flushing, PipeRoom
  <1> HIDE DEF w
  <1>5. /\ Len(toChild') + Len(cgi_stdin_pending') = Len(toChild) + Len(cgi_stdin_pending)
        /\ Len(cgi_stdin_pending') <= Len(cgi_stdin_pending)
        /\ cgi_stdin_pending' \in Seq(Token)
        /\ TokensOf(toChild' \o cgi_stdin_pending') = TokensOf(toChild \o cgi_stdin_pending)
    <2> DEFINE Flush(a, b, k) ==
           /\ Len(a \o Take(b, k)) + Len(Drop(b, k)) = Len(a) + Len(b)
           /\ Len(Drop(b, k)) <= Len(b) /\ Drop(b, k) \in Seq(Token)
           /\ TokensOf((a \o Take(b, k)) \o Drop(b, k)) = TokensOf(a \o b)
    <2>1. \A a, b \in Seq(Token) : \A k \in 0 .. Len(b) : Flush(a, b, k)
      BY FlushTokens
    <2> HIDE DEF Flush
    <2>2. Flush(toChild, cgi_stdin_pending, w)
      BY <1>2, <1>3, <2>1, Zenon
    <2> QED BY <1>1, <2>2, Zenon DEF Flush
  <1>6. BodyConserved'
    <2>1. HeaderAt <= taken' /\ taken' \in Nat
      BY <1>1, <1>4, RequestTypes DEF Carried, DecoderOK
    <2>2. TokensOf(toChild \o cgi_stdin_pending)' = TokensOf(toChild' \o cgi_stdin_pending')
      BY DEF TokensOf
    <2>3. /\ TokensOf(toChild \o cgi_stdin_pending)' =
               TokensAt((HeaderAt + 1) .. Least(taken', BodyLast))
          /\ Len(toChild') + Len(cgi_stdin_pending') = Least(taken', BodyLast) - HeaderAt
      BY <1>1, <1>4, <1>5, <2>2, Conserved DEF Carried
    <2> QED BY <1>1, <2>1, <2>3, StillConserved
  <1>7. StdinBound'
    <2>1. Len(cgi_stdin_pending) \in Nat /\ Len(cgi_stdin_pending') \in Nat
      BY <1>2, <1>5
    <2> QED BY <1>1, <1>5, <2>1, LimitsAssumption DEF Carried, StdinBound
  <1>8. DecoderOK'
    BY <1>1 DEF Carried, DecoderOK, HeaderAt, BodyLast, Chunked, StdinEof
  <1>9. EofIsHonest'
    BY <1>1, <1>4 DEF EofIsHonest
  <1> QED BY <1>6, <1>7, <1>8, <1>9 DEF Carried

(* The stdin is closed at the end of the body: everything is sent.         *)
LEMMA CloseCarried ==
  ASSUME TypeOK, Carried, WellFramed(req), StdinClose PROVE Carried'
  <1>1. /\ UNCHANGED <<req, taken, toChild, cgi_stdin_pending, peer, child>>
        /\ "in" \notin fds' /\ "client" \in fds
        /\ "client" \in fds' <=> "client" \in fds
        /\ cgi_stdin_pending = <<>> /\ StdinEof
    BY DEF StdinClose, DropStdin
  <1>2. EofIsHonest'
    <2>1. CASE "in" \in fds /\ peer = "open"
      <3>1. HeaderAt <= taken /\ taken \in Nat /\ taken >= BodyLast /\ BodyLast \in Nat
        BY <1>1, <2>1, RequestTypes, FramedFacts DEF Carried, DecoderOK
      <3>2. Least(taken, BodyLast) = BodyLast
        BY <3>1 DEF Least
      <3>3. toChild \o cgi_stdin_pending = toChild
        BY <1>1, ConcatEmptySeq DEF TypeOK, KernelTypes
      <3>4. TokensOf(toChild) = TokensAt((HeaderAt + 1) .. BodyLast)
        BY <2>1, <3>2, <3>3, Conserved DEF Carried
      <3>5. TokensOf(toChild)' = TokensOf(toChild)
        BY <1>1 DEF TokensOf
      <3> QED BY <1>1, <3>4, <3>5, StillHonest
    <2>2. CASE "in" \notin fds /\ peer = "open"
      <3>1. TokensAt(BodyIndices(req))' = TokensAt(BodyIndices(req))
            /\ TokensOf(toChild)' = TokensOf(toChild)
        BY <1>1 DEF TokensAt, TokensOf
      <3> QED BY <1>1, <2>2, <3>1 DEF Carried, EofIsHonest
    <2>3. CASE peer # "open"
      BY <1>1, <2>3 DEF EofIsHonest
    <2> QED BY <2>1, <2>2, <2>3
  <1> QED BY <1>1, <1>2, ClosedCarried DEF Carried

LEMMA CarriedStep ==
  ASSUME TypeOK, EntriesOK, BodyInv, [Next]_vars PROVE Carried'
  <1>1. CASE ~WellFramed(req)
    <2>1. req' = req
      <3>1. CASE dispatch_cgi
        BY <3>1 DEF dispatch_cgi
      <3>2. CASE Poll
        BY <3>2 DEF Poll
      <3>3. CASE ~Poll /\ ~dispatch_cgi
        BY <3>3, SettlesStep DEF Settles
      <3> QED BY <3>1, <3>2, <3>3
    <2> QED BY <1>1, <2>1 DEF Carried, DecoderOK, StdinBound, BodyConserved, EofIsHonest
  <1> SUFFICES ASSUME WellFramed(req) PROVE Carried'
    BY <1>1
  <1>2. TypeOK /\ EntriesOK /\ BufferOK /\ OnceOK /\ Carried
    BY DEF BodyInv, Carried
  <1>3. ASSUME UNCHANGED <<req, taken, toChild, stdinVars, fds>>, StdinEof' => StdinEof,
               child' = "run" => child = "run", peer' = "open" => peer = "open"
        PROVE  Carried'
    BY <1>2, <1>3, SameCarried
  <1>4. ASSUME "in" \notin fds, fds' = fds,
               UNCHANGED <<req, peer, child, toChild, cgi_stdin_pending>>
        PROVE  Carried'
    <2>1. EofIsHonest'
      <3>1. TokensAt(BodyIndices(req))' = TokensAt(BodyIndices(req))
            /\ TokensOf(toChild)' = TokensOf(toChild)
        BY <1>4 DEF TokensAt, TokensOf
      <3> QED BY <1>2, <1>4, <3>1 DEF Carried, EofIsHonest
    <2> QED BY <1>2, <1>4, <2>1, ClosedCarried DEF Carried
  <1>5. ASSUME req' = req, "in" \notin fds',
               cgi_stdin_pending' = cgi_stdin_pending \/ cgi_stdin_pending' = <<>>,
               child' # "run" \/ "client" \notin fds' \/ peer' # "open"
        PROVE  Carried'
    <2>1. EofIsHonest'
      BY <1>5 DEF EofIsHonest
    <2> QED BY <1>2, <1>5, <2>1, ClosedCarried DEF Carried
  <1>6. ASSUME Poll PROVE Carried'
    BY <1>3, <1>6 DEF Poll, StdinEof
  <1>7. ASSUME ReadBackpressure PROVE Carried'
    BY <1>3, <1>7 DEF ReadBackpressure, EndRead, Handled, StdinEof
  <1>8. ASSUME ReadAgain PROVE Carried'
    BY <1>3, <1>8 DEF ReadAgain, EndRead, Handled, StdinEof
  <1>9. ASSUME StreamIdle PROVE Carried'
    BY <1>3, <1>9 DEF StreamIdle, EndWrite, Handled, StdinEof
  <1>10. ASSUME StreamSend PROVE Carried'
    BY <1>3, <1>10 DEF StreamSend, CgiResumes, StdinEof
  <1>11. ASSUME StreamBlocked PROVE Carried'
    BY <1>3, <1>11 DEF StreamBlocked, EndWrite, Handled, StdinEof
  <1>12. ASSUME CgiOutput PROVE Carried'
    BY <1>3, <1>12 DEF CgiOutput, HeaderEnds, StreamedOutput, SendBufferFull, StdinEof
  <1>13. ASSUME CgiOutputAgain PROVE Carried'
    BY <1>3, <1>13 DEF CgiOutputAgain, StdinEof
  <1>14. ASSUME StdinKeep PROVE Carried'
    BY <1>3, <1>14 DEF StdinKeep, StdinEvents, StdinEof
  <1>15. ASSUME EndScan PROVE Carried'
    BY <1>3, <1>15 DEF EndScan, StdinEof
  <1>16. ASSUME PeerSend PROVE Carried'
    BY <1>3, <1>16 DEF PeerSend, serverVars, StdinEof
  <1>17. ASSUME PeerRecv PROVE Carried'
    BY <1>3, <1>17 DEF PeerRecv, serverVars, StdinEof
  <1>18. ASSUME PeerFin PROVE Carried'
    BY <1>3, <1>18 DEF PeerFin, serverVars, StdinEof
  <1>19. ASSUME PeerRst PROVE Carried'
    BY <1>3, <1>19 DEF PeerRst, serverVars, StdinEof
  <1>20. ASSUME ChildRead PROVE Carried'
    BY <1>3, <1>20 DEF ChildRead, serverVars, StdinEof
  <1>21. ASSUME ChildWrite PROVE Carried'
    BY <1>3, <1>21 DEF ChildWrite, serverVars, StdinEof
  <1>22. ASSUME ChildClose PROVE Carried'
    BY <1>3, <1>22 DEF ChildClose, serverVars, StdinEof
  <1>23. ASSUME ChildDie PROVE Carried'
    BY <1>3, <1>23 DEF ChildDie, serverVars, StdinEof
  <1>24. ASSUME Tick PROVE Carried'
    BY <1>3, <1>24 DEF Tick, serverVars, StdinEof
  <1>25. ASSUME ReadDropped PROVE Carried'
    BY <1>4, <1>25 DEF ReadDropped, EndRead, Handled, BodyArrives
  <1>26. ASSUME AwaitHeaders PROVE Carried'
    <2>1. "in" \notin fds
      BY <1>2, <1>26 DEF AwaitHeaders, BytesArrive, RequestReading, EntriesOK
    <2> QED BY <1>4, <1>26, <2>1 DEF AwaitHeaders, EndRead, Handled, BytesArrive
  <1>27. ASSUME RejectRequest PROVE Carried'
    <2>1. "in" \notin fds
      BY <1>2, <1>27 DEF RejectRequest, Parsing, BytesArrive, RequestReading, EntriesOK
    <2> QED BY <1>4, <1>27, <2>1 DEF RejectRequest, EndRead, Handled, Parsing, BytesArrive, OnlyWriting
  <1>28. ASSUME AwaitBody PROVE Carried'
    <2>1. "in" \notin fds
      BY <1>2, <1>28 DEF AwaitBody, Parsing, BytesArrive, RequestReading, EntriesOK
    <2> QED BY <1>4, <1>28, <2>1 DEF AwaitBody, EndRead, Handled, Parsing, BytesArrive
  <1>29. ASSUME AnswerRequest PROVE Carried'
    <2>1. "in" \notin fds
      BY <1>2, <1>29 DEF AnswerRequest, Parsing, BytesArrive, RequestReading, EntriesOK
    <2> QED BY <1>4, <1>29, <2>1 DEF AnswerRequest, RespondWith, EndRead, Handled, Parsing, BytesArrive
  <1>30. ASSUME DispatchFails PROVE Carried'
    <2>1. "in" \notin fds
      BY <1>2, <1>30 DEF DispatchFails, Parsing, BytesArrive, RequestReading, EntriesOK
    <2> QED BY <1>4, <1>30, <2>1 DEF DispatchFails, RespondWith, EndRead, Handled, Parsing, BytesArrive
  <1>31. ASSUME ClientError PROVE Carried'
    BY <1>5, <1>31 DEF ClientError, remove_client
  <1>32. ASSUME RequestEof PROVE Carried'
    BY <1>5, <1>32 DEF RequestEof, remove_client
  <1>33. ASSUME StreamDone PROVE Carried'
    BY <1>5, <1>33 DEF StreamDone, remove_client
  <1>34. ASSUME StreamFails PROVE Carried'
    BY <1>5, <1>34 DEF StreamFails, remove_client
  <1>35. ASSUME ResponseFails PROVE Carried'
    BY <1>5, <1>35 DEF ResponseFails, remove_client
  <1>36. ASSUME TimeOut PROVE Carried'
    BY <1>5, <1>36 DEF TimeOut, remove_client
  <1>37. ASSUME ResponseSend PROVE Carried'
    <2>1. CASE Least(SockRoom, Len(response)) = Len(response)
      BY <1>5, <1>37, <2>1 DEF ResponseSend, remove_client
    <2>2. CASE Least(SockRoom, Len(response)) # Len(response)
      BY <1>3, <1>37, <2>2 DEF ResponseSend, EndWrite, StdinEof
    <2> QED BY <2>1, <2>2
  <1>38. ASSUME ReadEof PROVE Carried'
    <2>1. /\ UNCHANGED <<req, peer, child, taken, toChild, stdinVars>> /\ peer # "open"
          /\ fds' = IF cgi_stdin_pending = <<>> THEN fds \ {"in"} ELSE fds
      BY <1>38 DEF ReadEof
    <2>2. CASE cgi_stdin_pending = <<>>
      BY <1>5, <2>1, <2>2
    <2>3. CASE cgi_stdin_pending # <<>>
      BY <1>2, <2>1, <2>3, SameCarried
    <2> QED BY <2>2, <2>3
  <1>39. ASSUME ReadBadChunk PROVE FALSE
    BY <1>2, <1>39, ForwardData DEF ReadBadChunk, BodyArrives, Carried
  <1>40. ASSUME ForwardBody PROVE Carried'
    BY <1>2, <1>40, ForwardCarried
  <1>41. ASSUME dispatch_cgi PROVE Carried'
    BY <1>2, <1>41, DispatchCarried
  <1>42. ASSUME finalize_cgi PROVE Carried'
    <2>1. child' # "run"
      BY <1>42 DEF finalize_cgi, Reap
    <2> QED BY <1>5, <1>42, <2>1 DEF finalize_cgi
  <1>43. ASSUME StdinError PROVE Carried'
    <2>1. /\ UNCHANGED <<req, peer, child, toChild, cgi_stdin_pending>>
          /\ fds' = fds \ {"in"} /\ revents["in"] \cap ErrorBits # {}
      BY <1>43 DEF StdinError, DropStdin
    <2>2. CASE "in" \in fds
      <3>1. child # "run"
        BY <1>2, <2>1, <2>2 DEF OnceOK
      <3> QED BY <1>5, <2>1, <3>1
    <2>3. CASE "in" \notin fds
      BY <1>4, <2>1, <2>3
    <2> QED BY <2>2, <2>3
  <1>44. ASSUME StdinOrphan PROVE Carried'
    BY <1>5, <1>44 DEF StdinOrphan, DropStdin
  <1>45. ASSUME StdinFlush PROVE Carried'
    BY <1>2, <1>45, FlushCarried
  <1>46. ASSUME StdinClose PROVE Carried'
    BY <1>2, <1>46, CloseCarried
  <1>47. ASSUME UNCHANGED vars PROVE Carried'
    BY <1>3, <1>47 DEF vars, StdinEof
  <1> QED
    BY <1>6, <1>7, <1>8, <1>9, <1>10, <1>11, <1>12, <1>13, <1>14, <1>15,
       <1>16, <1>17, <1>18, <1>19, <1>20, <1>21, <1>22, <1>23, <1>24, <1>25,
       <1>26, <1>27, <1>28, <1>29, <1>30, <1>31, <1>32, <1>33, <1>34, <1>35,
       <1>36, <1>37, <1>38, <1>39, <1>40, <1>41, <1>42, <1>43, <1>44, <1>45,
       <1>46, <1>47
       DEF Next, Server, PeerStep, ChildStep, handle_client_read, handle_poll_output,
        handle_cgi_output, handle_cgi_stdin_writable

LEMMA BodyStep ==
  ASSUME TypeOK, EntriesOK, BodyInv, [Next]_vars PROVE BodyInv'
  <1>1. Carried'
    BY CarriedStep
  <1>2. BufferOK'
    BY BufferStep DEF BodyInv
  <1>3. OnceOK'
    BY OnceStep DEF BodyInv
  <1> QED BY <1>1, <1>2, <1>3 DEF BodyInv, Carried

LEMMA BodyInit == Init => BodyInv
  <1> SUFFICES ASSUME Init PROVE BodyInv
    OBVIOUS
  <1>0. /\ buffer = <<>> /\ taken = 0 /\ flags = {} /\ cgi_stdin_pending = <<>>
        /\ Len(<<>>) = 0 /\ DOMAIN <<>> = {} /\ 0 <= Limit + ReadMax
    <2>1. Len(<<>>) = 0 /\ DOMAIN <<>> = {}
      BY EmptySeq
    <2>2. 0 <= Limit + ReadMax
      BY LimitsAssumption
    <2> QED BY <2>1, <2>2 DEF Init
  <1>1. BufferOK
    BY <1>0 DEF BufferOK, HasBlankLine, Active
  <1>2. OnceOK
    BY DEF Init, OnceOK, Active
  <1>3. DecoderOK /\ BodyConserved /\ EofIsHonest
    BY DEF Init, DecoderOK, BodyConserved, EofIsHonest
  <1>4. StdinBound
    BY <1>0 DEF StdinBound
  <1> QED BY <1>1, <1>2, <1>3, <1>4 DEF BodyInv

(* The invariant behind the theorems below.                                *)
THEOREM BodyInvariant == Spec => []BodyInv
  <1>1. TypeOK /\ ConnInv /\ BodyInv /\ [Next]_vars => BodyInv'
    BY BodyStep DEF ConnInv
  <1> QED BY <1>1, BodyInit, TypeCorrect, LoopInvariant, PTL DEF Spec

(* However slowly the script reads, the bytes buffered for it exceed the   *)
(* limit by one read at most (Server.cpp:950-952): the backpressure bounds *)
(* the memory a connection takes.                                          *)
THEOREM StdinBufferBounded == Spec => []StdinBound
  <1>1. BodyInv => StdinBound
    BY DEF BodyInv
  <1> QED BY <1>1, BodyInvariant, PTL

(* Whatever way the body is split over reads and partial writes, and       *)
(* through both chunk parsers, every body token read from the client is in *)
(* the pipe or in cgi_stdin_pending_, none twice and nothing else.         *)
THEOREM BodyAlwaysConserved == Spec => []BodyConserved
  <1>1. BodyInv => BodyConserved
    BY DEF BodyInv
  <1> QED BY <1>1, BodyInvariant, PTL

(* The server closes the stdin of a running script only when the whole     *)
(* body is in the pipe, or when the client is gone: no script takes part   *)
(* of a request for all of it.                                             *)
THEOREM EofAlwaysHonest == Spec => []EofIsHonest
  <1>1. BodyInv => EofIsHonest
    BY DEF BodyInv
  <1> QED BY <1>1, BodyInvariant, PTL

-------------------------------------------------------------------------------
(***************************************************************************)
(* What a connection sends: a response is never dropped for want of room,  *)
(* nothing is read after a rejection, a stream that is closed as done is   *)
(* complete, and what is sent is the start of one answer.                  *)
(***************************************************************************)
(***************************************************************************)
(* The kinds of step the answer tells apart.                               *)
(***************************************************************************)

(* A step that leaves the answer alone.  It may read body bytes for a      *)
(* script, and only the entry of a script's stdin turns POLLIN on again.   *)
Quiet ==
  /\ UNCHANGED <<req, sent, outRead, cgi_output, cgi_send_pending, response,
                 body, why>>
  /\ Active' = Active /\ Streamed' = Streamed /\ Started' = Started
  /\ "client" \in fds' <=> "client" \in fds
  /\ child' = "none" <=> child = "none"
  /\ child' = "run" => child = "run"
  /\ taken' # taken => Active /\ taken' > taken
  /\ childOut' # childOut => child = "run" /\ Active
  /\ "IN" \in events'["client"] => "IN" \in events["client"] \/ "in" \in reg

(* remove_client, and from where it is called.                             *)
Removed ==
  /\ UNCHANGED <<req, taken, sent, outRead, childOut>>
  /\ fds' = {} /\ flags' = {} /\ response' = <<>> /\ cgi_send_pending' = <<>>
  /\ child' = Reap /\ "client" \in fds
  /\ why' \in {"peer", "timeout"} \/ StreamDone \/ ResponseFails

LEMMA StepKinds ==
  ASSUME TypeOK, EntriesOK, [Next]_vars
  PROVE  \/ Quiet \/ Removed \/ StreamSend \/ ResponseSend \/ CgiOutput \/ finalize_cgi
         \/ AwaitHeaders \/ RejectRequest \/ AwaitBody \/ AnswerRequest
         \/ DispatchFails \/ dispatch_cgi
  <1> USE LoopFacts, TurnFacts, RequestTypes DEF Active, Streamed, Started
  <1>0. ASSUME taken < arrived PROVE taken + Len(Chunk) > taken
    <2>1. Len(Chunk) \in Nat /\ Len(Chunk) > 0 /\ taken \in Nat
      BY <1>0, ChunkTokens
    <2> QED BY <2>1
  <1>1. ASSUME Poll PROVE Quiet
    BY <1>1 DEF Poll, Quiet
  <1>2. ASSUME ReadBackpressure PROVE Quiet
    BY <1>2 DEF ReadBackpressure, EndRead, Handled, Quiet
  <1>3. ASSUME ReadEof PROVE Quiet
    BY <1>3 DEF ReadEof, EndRead, Handled, Quiet
  <1>4. ASSUME ReadAgain PROVE Quiet
    BY <1>4 DEF ReadAgain, EndRead, Handled, Quiet
  <1>5. ASSUME StreamIdle PROVE Quiet
    BY <1>5 DEF StreamIdle, EndWrite, Handled, Quiet
  <1>6. ASSUME StreamBlocked PROVE Quiet
    BY <1>6 DEF StreamBlocked, EndWrite, Handled, Quiet
  <1>7. ASSUME CgiOutputAgain PROVE Quiet
    BY <1>7 DEF CgiOutputAgain, Quiet
  <1>8. ASSUME StdinError PROVE Quiet
    BY <1>8 DEF StdinError, DropStdin, Quiet
  <1>9. ASSUME StdinOrphan PROVE Quiet
    BY <1>9 DEF StdinOrphan, DropStdin, Quiet
  <1>10. ASSUME StdinFlush PROVE Quiet
    BY <1>10 DEF StdinFlush, consume_cgi_stdin_pending, Quiet
  <1>11. ASSUME StdinClose PROVE Quiet
    BY <1>11 DEF StdinClose, DropStdin, Quiet
  <1>12. ASSUME StdinKeep PROVE Quiet
    BY <1>12 DEF StdinKeep, StdinEvents, Quiet, StdinWritable
  <1>13. ASSUME EndScan PROVE Quiet
    BY <1>13 DEF EndScan, Quiet
  <1>14. ASSUME PeerSend PROVE Quiet
    BY <1>14 DEF PeerSend, serverVars, Quiet
  <1>15. ASSUME PeerRecv PROVE Quiet
    BY <1>15 DEF PeerRecv, serverVars, Quiet
  <1>16. ASSUME PeerFin PROVE Quiet
    BY <1>16 DEF PeerFin, serverVars, Quiet
  <1>17. ASSUME PeerRst PROVE Quiet
    BY <1>17 DEF PeerRst, serverVars, Quiet
  <1>18. ASSUME ChildRead PROVE Quiet
    BY <1>18 DEF ChildRead, serverVars, Quiet
  <1>19. ASSUME ChildWrite PROVE Quiet
    BY <1>19 DEF ChildWrite, serverVars, Quiet, EntriesOK
  <1>20. ASSUME ChildClose PROVE Quiet
    BY <1>20 DEF ChildClose, serverVars, Quiet
  <1>21. ASSUME ChildDie PROVE Quiet
    BY <1>21 DEF ChildDie, serverVars, Quiet
  <1>22. ASSUME Tick PROVE Quiet
    BY <1>22 DEF Tick, serverVars, Quiet
  <1>23. ASSUME ReadDropped PROVE Quiet
    BY <1>0, <1>23 DEF ReadDropped, EndRead, Handled, BodyArrives, CgiReading, Quiet
  <1>24. ASSUME ReadBadChunk PROVE Quiet
    BY <1>0, <1>24 DEF ReadBadChunk, EndRead, Handled, BodyArrives, CgiReading, Quiet
  <1>25. ASSUME ForwardBody PROVE Quiet
    BY <1>0, <1>25 DEF ForwardBody, BodyArrives, BodyEnds, CanClose, CgiReading, Quiet
  <1>26. ASSUME ClientError PROVE Removed
    BY <1>26 DEF ClientError, remove_client, Removed
  <1>27. ASSUME RequestEof PROVE Removed
    BY <1>27 DEF RequestEof, remove_client, Removed, RequestReading, ClientReading
  <1>28. ASSUME StreamDone PROVE Removed
    BY <1>28 DEF StreamDone, remove_client, Removed, ClientWriting
  <1>29. ASSUME StreamFails PROVE Removed
    BY <1>29 DEF StreamFails, remove_client, Removed, ClientWriting
  <1>30. ASSUME ResponseFails PROVE Removed
    BY <1>30 DEF ResponseFails, remove_client, Removed, ClientWriting
  <1>31. ASSUME TimeOut PROVE Removed
    BY <1>31 DEF TimeOut, remove_client, Removed, Expired
  <1>32. ASSUME UNCHANGED vars PROVE Quiet
    BY <1>32 DEF vars, Quiet
  <1> QED
    BY <1>1, <1>2, <1>3, <1>4, <1>5, <1>6, <1>7, <1>8, <1>9, <1>10, <1>11,
       <1>12, <1>13, <1>14, <1>15, <1>16, <1>17, <1>18, <1>19, <1>20, <1>21,
       <1>22, <1>23, <1>24, <1>25, <1>26, <1>27, <1>28, <1>29, <1>30, <1>31,
       <1>32
       DEF Next, Server, PeerStep, ChildStep, handle_client_read, handle_poll_output,
        handle_cgi_output, handle_cgi_stdin_writable

-------------------------------------------------------------------------------
(***************************************************************************)
(* Room for a response.                                                    *)
(***************************************************************************)

(* POLLOUT still to be handled for a response means that there is room: it *)
(* was there when poll() returned, and only this connection takes it.      *)
RoomOK ==
  "OUT" \in revents["client"] /\ ~CgiMode /\ peer # "rst" => SockRoom > 0

LEMMA RoomStep ==
  ASSUME TypeOK, ConnInv, RoomOK, [Next]_vars PROVE RoomOK'
  <1>0. TypeOK /\ EntriesOK /\ StdoutOK
    BY DEF ConnInv
  <1> USE <1>0, LoopFacts, TurnFacts, RequestTypes
  <1>1. ASSUME "OUT" \in revents'["client"] => "OUT" \in revents["client"],
               SockRoom > 0 => SockRoom' > 0, peer' # "rst" => peer # "rst",
               CgiMode => CgiMode'
        PROVE  RoomOK'
    BY <1>1 DEF RoomOK
  <1>2. ASSUME "OUT" \notin revents'["client"] PROVE RoomOK'
    BY <1>2 DEF RoomOK
  <1>3. ASSUME UNCHANGED <<sent, rcvd>> PROVE SockRoom > 0 => SockRoom' > 0
    <2>1. SockRoom' = SockRoom
      BY <1>3 DEF SockRoom
    <2> QED BY <2>1
  <1>4. ASSUME Poll PROVE RoomOK'
    <2>1. UNCHANGED <<sent, rcvd, peer>> /\ revents' = [e \in Entries |-> IF e \in reg THEN Ready(e) ELSE {}]
      BY <1>4 DEF Poll
    <2>2. "OUT" \in ClientReady => SockRoom > 0 \/ peer = "rst"
      BY DEF ClientReady, Bit
    <2>3. "OUT" \in revents'["client"] => "OUT" \in ClientReady
      BY <2>1 DEF Ready
    <2>4. SockRoom' = SockRoom
      BY <2>1 DEF SockRoom
    <2> QED BY <2>1, <2>2, <2>3, <2>4 DEF RoomOK
  <1>5. ASSUME ReadBackpressure PROVE RoomOK'
    BY <1>1, <1>3, <1>5 DEF ReadBackpressure, EndRead, Handled, CgiMode,
       Active, Streamed
  <1>6. ASSUME ReadEof PROVE RoomOK'
    BY <1>1, <1>3, <1>6 DEF ReadEof, EndRead, Handled, CgiMode, Active,
       Streamed
  <1>7. ASSUME ReadAgain PROVE RoomOK'
    BY <1>1, <1>3, <1>7 DEF ReadAgain, EndRead, Handled, CgiMode, Active,
       Streamed
  <1>8. ASSUME ReadDropped PROVE RoomOK'
    BY <1>1, <1>3, <1>8 DEF ReadDropped, EndRead, Handled, BodyArrives,
       CgiMode, Active, Streamed
  <1>9. ASSUME ReadBadChunk PROVE RoomOK'
    BY <1>1, <1>3, <1>9 DEF ReadBadChunk, EndRead, Handled, BodyArrives,
       CgiMode, Active, Streamed
  <1>10. ASSUME ForwardBody PROVE RoomOK'
    BY <1>1, <1>3, <1>10 DEF ForwardBody, BodyArrives, BodyEnds, CanClose,
       CgiMode, Active, Streamed
  <1>11. ASSUME AwaitHeaders PROVE RoomOK'
    BY <1>1, <1>3, <1>11 DEF AwaitHeaders, EndRead, Handled, BytesArrive,
       CgiMode, Active, Streamed
  <1>12. ASSUME RejectRequest PROVE RoomOK'
    BY <1>1, <1>3, <1>12 DEF RejectRequest, EndRead, Handled, Parsing,
       BytesArrive, OnlyWriting, CgiMode, Active, Streamed
  <1>13. ASSUME AwaitBody PROVE RoomOK'
    BY <1>1, <1>3, <1>13 DEF AwaitBody, EndRead, Handled, Parsing,
       BytesArrive, CgiMode, Active, Streamed
  <1>14. ASSUME AnswerRequest PROVE RoomOK'
    BY <1>1, <1>3, <1>14 DEF AnswerRequest, RespondWith, EndRead, Handled,
       Parsing, BytesArrive, CgiMode, Active, Streamed
  <1>15. ASSUME DispatchFails PROVE RoomOK'
    BY <1>1, <1>3, <1>15 DEF DispatchFails, RespondWith, EndRead, Handled,
       Parsing, BytesArrive, CgiMode, Active, Streamed
  <1>16. ASSUME dispatch_cgi PROVE RoomOK'
    BY <1>1, <1>3, <1>16 DEF dispatch_cgi, EndRead, Handled, Parsing,
       BytesArrive, CgiMode, Active, Streamed
  <1>17. ASSUME CgiOutput PROVE RoomOK'
    BY <1>1, <1>3, <1>17 DEF CgiOutput, HeaderEnds, StreamedOutput,
       SendBufferFull, CgiMode, Active, Streamed
  <1>18. ASSUME CgiOutputAgain PROVE RoomOK'
    BY <1>1, <1>3, <1>18 DEF CgiOutputAgain, CgiMode, Active, Streamed
  <1>19. ASSUME StdinError PROVE RoomOK'
    BY <1>1, <1>3, <1>19 DEF StdinError, DropStdin, CgiMode, Active, Streamed
  <1>20. ASSUME StdinOrphan PROVE RoomOK'
    BY <1>1, <1>3, <1>20 DEF StdinOrphan, DropStdin, CgiMode, Active,
       Streamed
  <1>21. ASSUME StdinFlush PROVE RoomOK'
    BY <1>1, <1>3, <1>21 DEF StdinFlush, consume_cgi_stdin_pending, CgiMode,
       Active, Streamed
  <1>22. ASSUME StdinClose PROVE RoomOK'
    BY <1>1, <1>3, <1>22 DEF StdinClose, DropStdin, CgiMode, Active, Streamed
  <1>23. ASSUME StdinKeep PROVE RoomOK'
    BY <1>1, <1>3, <1>23 DEF StdinKeep, StdinEvents, CgiMode, Active,
       Streamed
  <1>24. ASSUME EndScan PROVE RoomOK'
    BY <1>1, <1>3, <1>24 DEF EndScan, CgiMode, Active, Streamed
  <1>25. ASSUME PeerSend PROVE RoomOK'
    BY <1>1, <1>3, <1>25 DEF PeerSend, serverVars, CgiMode, Active, Streamed
  <1>26. ASSUME PeerFin PROVE RoomOK'
    BY <1>1, <1>3, <1>26 DEF PeerFin, serverVars, CgiMode, Active, Streamed
  <1>27. ASSUME PeerRst PROVE RoomOK'
    BY <1>1, <1>3, <1>27 DEF PeerRst, serverVars, CgiMode, Active, Streamed
  <1>28. ASSUME ChildRead PROVE RoomOK'
    BY <1>1, <1>3, <1>28 DEF ChildRead, serverVars, CgiMode, Active, Streamed
  <1>29. ASSUME ChildWrite PROVE RoomOK'
    BY <1>1, <1>3, <1>29 DEF ChildWrite, serverVars, CgiMode, Active,
       Streamed
  <1>30. ASSUME ChildClose PROVE RoomOK'
    BY <1>1, <1>3, <1>30 DEF ChildClose, serverVars, CgiMode, Active,
       Streamed
  <1>31. ASSUME ChildDie PROVE RoomOK'
    BY <1>1, <1>3, <1>31 DEF ChildDie, serverVars, CgiMode, Active, Streamed
  <1>32. ASSUME Tick PROVE RoomOK'
    BY <1>1, <1>3, <1>32 DEF Tick, serverVars, CgiMode, Active, Streamed
  <1>33. ASSUME PeerRecv PROVE RoomOK'
    <2>1. /\ rcvd' = rcvd + 1 /\ UNCHANGED <<sent, peer, revents, flags, cgi_send_pending>>
      BY <1>33 DEF PeerRecv, serverVars
    <2>2. SockRoom > 0 => SockRoom' > 0
      <3>1. Len(sent) \in Nat /\ rcvd \in Nat /\ SockCap \in Nat
        BY RoomTypes, LimitsAssumption
      <3> QED BY <2>1, <3>1 DEF SockRoom
    <2> QED BY <1>1, <2>1, <2>2 DEF CgiMode, Active, Streamed
  <1>34. ASSUME StreamSend PROVE RoomOK'
    <2>1. Streamed /\ flags' = flags
      BY <1>34 DEF StreamSend, StdoutOK
    <2> QED BY <2>1 DEF RoomOK, CgiMode, Streamed
  <1>35. ASSUME StreamIdle \/ StreamBlocked PROVE RoomOK'
    BY <1>2, <1>35 DEF StreamIdle, StreamBlocked, EndWrite, Handled
  <1>36. ASSUME NEW w, remove_client(w), "client" \in fds PROVE RoomOK'
    BY <1>2, <1>36 DEF remove_client
  <1>37. ASSUME ResponseSend PROVE RoomOK'
    <2>1. CASE Least(SockRoom, Len(response)) = Len(response)
      BY <1>36, <1>37, <2>1 DEF ResponseSend, ClientWriting
    <2>2. CASE Least(SockRoom, Len(response)) # Len(response)
      BY <1>2, <1>37, <2>2 DEF ResponseSend, EndWrite, Handled
    <2> QED BY <2>1, <2>2
  <1>38. ASSUME finalize_cgi PROVE RoomOK'
    <2>1. revents["client"] = {}
      BY <1>38 DEF finalize_cgi, Turn, Before
    <2> QED BY <1>2, <1>38, <2>1 DEF finalize_cgi
  <1>39. ASSUME ClientError PROVE RoomOK'
    BY <1>36, <1>39 DEF ClientError
  <1>40. ASSUME RequestEof PROVE RoomOK'
    BY <1>36, <1>40 DEF RequestEof, RequestReading, ClientReading
  <1>41. ASSUME StreamDone PROVE RoomOK'
    BY <1>36, <1>41 DEF StreamDone, ClientWriting
  <1>42. ASSUME StreamFails PROVE RoomOK'
    BY <1>36, <1>42 DEF StreamFails, ClientWriting
  <1>43. ASSUME ResponseFails PROVE RoomOK'
    BY <1>36, <1>43 DEF ResponseFails, ClientWriting
  <1>44. ASSUME TimeOut PROVE RoomOK'
    BY <1>36, <1>44 DEF TimeOut, Expired
  <1>45. ASSUME UNCHANGED vars PROVE RoomOK'
    BY <1>1, <1>3, <1>45 DEF vars, CgiMode, Active, Streamed
  <1> QED
    BY <1>4, <1>5, <1>6, <1>7, <1>8, <1>9, <1>10, <1>11, <1>12, <1>13, <1>14,
       <1>15, <1>16, <1>17, <1>18, <1>19, <1>20, <1>21, <1>22, <1>23, <1>24,
       <1>25, <1>26, <1>27, <1>28, <1>29, <1>30, <1>31, <1>32, <1>33, <1>34,
       <1>35, <1>37, <1>38, <1>39, <1>40, <1>41, <1>42, <1>43, <1>44, <1>45
       DEF Next, Server, PeerStep, ChildStep, handle_client_read, handle_poll_output,
        handle_cgi_output, handle_cgi_stdin_writable

LEMMA ErrorStep ==
  ASSUME TypeOK, ConnInv, RoomOK, NotDroppedWhenFull, [Next]_vars
  PROVE  NotDroppedWhenFull'
  <1>0. TypeOK /\ EntriesOK
    BY DEF ConnInv
  <1>1. CASE Quiet
    BY <1>1 DEF Quiet, NotDroppedWhenFull
  <1>2. CASE Removed
    <2>1. CASE why' \in {"peer", "timeout"}
      BY <2>1 DEF NotDroppedWhenFull
    <2>2. CASE StreamDone
      BY <2>2 DEF StreamDone, remove_client, NotDroppedWhenFull
    <2>3. CASE ResponseFails
      <3>1. "OUT" \in revents["client"]
        <4>1. /\ revents["client"] \subseteq Bits /\ revents["client"] # {}
              /\ revents["client"] \cap ErrorBits = {} /\ "IN" \notin revents["client"]
          BY <1>0, <2>3, LoopFacts DEF ResponseFails, ClientWriting, Turn
        <4> QED BY <4>1 DEF Bits, ErrorBits
      <3>2. peer = "rst"
        BY <2>3, <3>1, RoomTypes DEF ResponseFails, RoomOK
      <3> QED BY <2>3, <3>2 DEF ResponseFails, remove_client, NotDroppedWhenFull
    <2> QED BY <1>2, <2>1, <2>2, <2>3 DEF Removed
  <1>3. CASE ResponseSend
    <2>1. why' = "done" \/ why' = why
      BY <1>3 DEF ResponseSend, remove_client
    <2> QED BY <2>1 DEF NotDroppedWhenFull
  <1>4. CASE StreamSend \/ CgiOutput \/ finalize_cgi \/ AwaitHeaders \/ RejectRequest
             \/ AwaitBody \/ AnswerRequest \/ DispatchFails \/ dispatch_cgi
    BY <1>4 DEF StreamSend, CgiOutput, finalize_cgi, AwaitHeaders, RejectRequest,
       AwaitBody, AnswerRequest, DispatchFails, RespondWith, dispatch_cgi,
       NotDroppedWhenFull
  <1> QED BY <1>0, <1>1, <1>2, <1>3, <1>4, StepKinds

(* send() of a response is only called with room for it, so the EAGAIN     *)
(* that Server.cpp:1374 takes for a broken connection does not come.       *)
THEOREM NeverDroppedWhenFull == Spec => []NotDroppedWhenFull
  <1>1. Init => RoomOK /\ NotDroppedWhenFull
    BY DEF Init, RoomOK, NotDroppedWhenFull, Entries
  <1>2. TypeOK /\ ConnInv /\ RoomOK /\ NotDroppedWhenFull /\ [Next]_vars =>
          RoomOK' /\ NotDroppedWhenFull'
    BY RoomStep, ErrorStep
  <1> QED BY <1>1, <1>2, TypeCorrect, LoopInvariant, PTL DEF Spec

-------------------------------------------------------------------------------
(***************************************************************************)
(* Rejected requests.                                                      *)
(***************************************************************************)

(* Only a request for a script has one, so nothing turns POLLIN on again   *)
(* for a request that was rejected; another answer has no error page in it.*)
KindOK == req.kind # "cgi" => child = "none"
RejectOK ==
  req.kind # "cgi" /\ response # <<>> =>
    \/ response = ErrorPage /\ "IN" \notin events["client"]
    \/ \A i \in 1 .. Len(response) : response[i].s = "static"

LEMMA KindStep ==
  ASSUME TypeOK, EntriesOK, KindOK, [Next]_vars PROVE KindOK'
  <1>1. CASE dispatch_cgi
    BY <1>1 DEF dispatch_cgi, IsCgi, KindOK
  <1>2. CASE Poll
    BY <1>2 DEF Poll, KindOK
  <1>3. CASE ~Poll /\ ~dispatch_cgi
    BY <1>3, SettlesStep DEF Settles, KindOK
  <1> QED BY <1>1, <1>2, <1>3

LEMMA RejectStep ==
  ASSUME TypeOK, EntriesOK, OnceOK, KindOK, RejectOK, [Next]_vars PROVE RejectOK'
  <1>0. req' = req
    <2>1. CASE dispatch_cgi \/ Poll
      BY <2>1 DEF dispatch_cgi, Poll
    <2>2. CASE ~Poll /\ ~dispatch_cgi
      BY <2>2, SettlesStep DEF Settles
    <2> QED BY <2>1, <2>2
  <1> SUFFICES ASSUME req.kind # "cgi", response' # <<>>
               PROVE  \/ response' = ErrorPage /\ "IN" \notin events'["client"]
                      \/ \A i \in 1 .. Len(response') : response'[i].s = "static"
    BY <1>0 DEF RejectOK
  <1>1. child = "none" /\ ~Active /\ "in" \notin reg
    BY DEF KindOK, OnceOK
  <1>2. CASE Quiet
    BY <1>1, <1>2 DEF Quiet, RejectOK
  <1>3. CASE Removed
    BY <1>3 DEF Removed
  <1>4. CASE StreamSend
    BY <1>4, LoopFacts DEF StreamSend, RejectOK
  <1>5. CASE ResponseSend
    <2> DEFINE n == Least(SockRoom, Len(response))
    <2>1. n # Len(response)
      BY <1>5 DEF ResponseSend, remove_client
    <2>2. /\ response' = Drop(response, n) /\ events' = events /\ response # <<>>
          /\ SockRoom > 0
      BY <1>5, <2>1 DEF ResponseSend
    <2>3. response \in Seq(Unit) /\ Len(response) \in Nat /\ SockRoom \in Nat
      BY RoomTypes DEF TypeOK, ClientTypes
    <2>4. n \in 0 .. Len(response) /\ n > 0 /\ n < Len(response)
      BY <2>1, <2>2, <2>3 DEF Least
    <2> HIDE DEF n
    <2>5. response # ErrorPage
      <3>1. Len(ErrorPage) = 1
        BY DEF ErrorPage
      <3>2. n \in Nat
        BY <2>4
      <3>3. ASSUME response = ErrorPage PROVE FALSE
        <4>1. n < 1 /\ n > 0
          BY <2>4, <3>1, <3>3
        <4> QED BY <3>2, <4>1
      <3> QED BY <3>3
    <2>6. /\ Len(response') = Len(response) - n
          /\ \A i \in 1 .. (Len(response) - n) : response'[i] = response[n + i]
      BY <2>2, <2>3, <2>4, TakeDrop
    <2>7. \A i \in 1 .. Len(response) : response[i].s = "static"
      BY <2>2, <2>5 DEF RejectOK
    <2> QED BY <2>3, <2>4, <2>6, <2>7
  <1>6. CASE CgiOutput \/ finalize_cgi
    BY <1>1, <1>6, TurnFacts DEF CgiOutput, finalize_cgi
  <1>7. CASE AwaitHeaders \/ AwaitBody
    BY <1>7 DEF AwaitHeaders, AwaitBody, RejectOK
  <1>8. CASE RejectRequest
    BY <1>8, LoopFacts DEF RejectRequest, OnlyWriting
  <1>9. CASE AnswerRequest
    <2>1. response' = StaticPage
      BY <1>9 DEF AnswerRequest, RespondWith
    <2>2. Len(StaticPage) = StaticLen
      BY LimitsAssumption DEF StaticPage
    <2> QED BY <2>1, <2>2 DEF StaticPage
  <1>10. CASE DispatchFails \/ dispatch_cgi
    BY <1>10 DEF DispatchFails, dispatch_cgi, IsCgi
  <1> QED
    BY <1>2, <1>3, <1>4, <1>5, <1>6, <1>7, <1>8, <1>9, <1>10, StepKinds

(* The rest of the body of a rejected request is not read, whatever else   *)
(* the loop does until the error page is sent (Server.cpp:1181-1183).      *)
THEOREM RejectAlwaysFinal == Spec => RejectIsFinal
  <1>1. Init => KindOK /\ RejectOK
    BY DEF Init, KindOK, RejectOK
  <1>2. TypeOK /\ ConnInv /\ BodyInv /\ KindOK /\ RejectOK /\ [Next]_vars =>
          KindOK' /\ RejectOK'
    BY KindStep, RejectStep DEF ConnInv, BodyInv
  <1>3. ASSUME TypeOK, ConnInv, BodyInv, KindOK, RejectOK, [Next]_vars, Rejected
        PROVE  taken' = taken
    <2>0. TypeOK /\ EntriesOK
      BY <1>3 DEF ConnInv
    <2>1. ~Active
      BY <1>3 DEF Rejected, KindOK, BodyInv, OnceOK
    <2>2. "IN" \notin revents["client"]
      <3>1. Len(ErrorPage) = 1 /\ ErrorPage # <<>> /\ ErrorPage[1].s # "static"
        BY DEF ErrorPage
      <3>2. "IN" \notin events["client"]
        BY <1>3, <3>1 DEF Rejected, RejectOK
      <3> QED BY <2>0, <3>2 DEF EntriesOK
    <2>3. CASE Quiet
      BY <2>1, <2>3 DEF Quiet
    <2>4. CASE Removed \/ StreamSend \/ ResponseSend \/ CgiOutput \/ finalize_cgi
      BY <2>4 DEF Removed, StreamSend, ResponseSend, CgiOutput, finalize_cgi
    <2>5. CASE AwaitHeaders \/ RejectRequest \/ AwaitBody \/ AnswerRequest
               \/ DispatchFails \/ dispatch_cgi
      BY <2>2, <2>5 DEF AwaitHeaders, RejectRequest, AwaitBody, AnswerRequest,
         DispatchFails, dispatch_cgi, Parsing, BytesArrive, RequestReading, ClientReading
    <2> QED BY <2>0, <1>3, <2>3, <2>4, <2>5, StepKinds
  <1>4. TypeOK /\ ConnInv /\ BodyInv /\ KindOK /\ RejectOK /\ [Next]_vars =>
          [Rejected => taken' = taken]_vars
    BY <1>3
  <1> QED BY <1>1, <1>2, <1>4, TypeCorrect, LoopInvariant, BodyInvariant, PTL
          DEF Spec, RejectIsFinal

-------------------------------------------------------------------------------
(***************************************************************************)
(* What the actions that move the answer do to it, unit by unit.           *)
(***************************************************************************)
CgiUnit(n) == [s |-> "cgi", n |-> n]

(* The sequence c is a with b after it.                                    *)
Joins(c, a, b) ==
  /\ c \in Seq(Unit) /\ a \in Seq(Unit) /\ b \in Seq(Unit)
  /\ Len(a) \in Nat /\ Len(b) \in Nat /\ Len(c) = Len(a) + Len(b)
  /\ \A i \in 1 .. Len(a) : c[i] = a[i]
  /\ \A i \in 1 .. Len(b) : c[Len(a) + i] = b[i]

(* n units leave the queue q for the end of s: what s and q become.        *)
Moves(s, q, n, s1, q1) ==
  /\ s1 \in Seq(Unit) /\ q1 \in Seq(Unit) /\ Len(s) \in Nat /\ Len(q) \in Nat
  /\ Len(s1) = Len(s) + n /\ Len(q1) = Len(q) - n
  /\ \A i \in 1 .. Len(s) : s1[i] = s[i]
  /\ \A i \in 1 .. n : s1[Len(s) + i] = q[i]
  /\ \A i \in 1 .. (Len(q) - n) : q1[i] = q[n + i]

LEMMA ConcatJoins ==
  ASSUME NEW a \in Seq(Unit), NEW b \in Seq(Unit) PROVE Joins(a \o b, a, b)
  <1>1. a \o b \in Seq(Unit) /\ Len(a \o b) = Len(a) + Len(b)
        /\ Len(a) \in Nat /\ Len(b) \in Nat
    BY ConcatProperties
  <1>2. \A i \in 1 .. Len(a) : (a \o b)[i] = a[i]
    BY <1>1
  <1>3. \A i \in 1 .. Len(b) : (a \o b)[Len(a) + i] = b[i]
    BY <1>1
  <1> QED BY <1>1, <1>2, <1>3 DEF Joins

LEMMA TakeMoves ==
  ASSUME NEW s \in Seq(Unit), NEW q \in Seq(Unit), NEW n \in 0 .. Len(q)
  PROVE  Moves(s, q, n, s \o Take(q, n), Drop(q, n))
  <1>1. /\ Take(q, n) \in Seq(Unit) /\ Len(Take(q, n)) = n
        /\ Drop(q, n) \in Seq(Unit) /\ Len(Drop(q, n)) = Len(q) - n
        /\ \A i \in 1 .. n : Take(q, n)[i] = q[i]
        /\ \A i \in 1 .. (Len(q) - n) : Drop(q, n)[i] = q[n + i]
    BY TakeDrop
  <1> DEFINE x == Take(q, n)
  <1> HIDE DEF x
  <1>2. x \in Seq(Unit) /\ Len(x) = n /\ \A i \in 1 .. n : x[i] = q[i]
    BY <1>1 DEF x
  <1>3. Joins(s \o x, s, x)
    BY <1>2, ConcatJoins
  <1>4. /\ s \o x \in Seq(Unit) /\ Len(s \o x) = Len(s) + n
        /\ \A i \in 1 .. Len(s) : (s \o x)[i] = s[i]
        /\ \A i \in 1 .. n : (s \o x)[Len(s) + i] = q[i]
    BY <1>2, <1>3 DEF Joins
  <1>5. Len(s) \in Nat /\ Len(q) \in Nat
    OBVIOUS
  <1> QED BY <1>1, <1>4, <1>5 DEF Moves, x

(* send() of the stream.                                                   *)
LEMMA StreamSendMoves ==
  ASSUME TypeOK, StdoutOK, StreamSend
  PROVE  /\ \E n \in Nat : /\ 0 < n /\ n <= Len(cgi_send_pending)
                           /\ Moves(sent, cgi_send_pending, n, sent', cgi_send_pending')
         /\ Streamed /\ flags' = flags
         /\ UNCHANGED <<req, taken, outRead, childOut, child, cgi_output, response,
                        body, why, fds>>
  <1> DEFINE n == Least(SockRoom, Len(cgi_send_pending))
  <1>1. /\ sent' = sent \o Take(cgi_send_pending, n)
        /\ cgi_send_pending' = Drop(cgi_send_pending, n)
        /\ cgi_send_pending # <<>> /\ SockRoom > 0 /\ flags' = flags
        /\ UNCHANGED <<req, taken, outRead, childOut, child, cgi_output, response,
                       body, why, fds>>
    BY DEF StreamSend
  <1>2. /\ cgi_send_pending \in Seq(Unit) /\ sent \in Seq(Unit) /\ SockRoom \in Nat
    BY StdoutNumbers, RoomTypes
  <1>3. n \in 0 .. Len(cgi_send_pending) /\ n > 0 /\ n \in Nat /\ n <= Len(cgi_send_pending)
    <2>1. Len(cgi_send_pending) \in Nat /\ Len(cgi_send_pending) > 0
      BY <1>1, <1>2, EmptySeq
    <2> QED BY <1>1, <1>2, <2>1 DEF Least
  <1> HIDE DEF n
  <1>4. Moves(sent, cgi_send_pending, n, sent \o Take(cgi_send_pending, n),
              Drop(cgi_send_pending, n))
    <2>1. \A s, q \in Seq(Unit) : \A k \in 0 .. Len(q) :
            Moves(s, q, k, s \o Take(q, k), Drop(q, k))
      BY TakeMoves
    <2> QED BY <1>2, <1>3, <2>1, Zenon
  <1>5. Moves(sent, cgi_send_pending, n, sent', cgi_send_pending')
    BY <1>1, <1>4
  <1>6. Streamed
    BY <1>1 DEF StdoutOK
  <1> QED BY <1>1, <1>3, <1>5, <1>6, Zenon

(* send() of a response, and its end.                                      *)
LEMMA ResponseSendMoves ==
  ASSUME TypeOK, ConnInv, ResponseSend
  PROVE  /\ \E n \in Nat, q \in Seq(Unit) :
              /\ 0 < n /\ n <= Len(response) /\ Moves(sent, response, n, sent', q)
              /\ \/ /\ response' = q /\ fds' = fds /\ flags' = flags
                    /\ n < Len(response)
                    /\ UNCHANGED <<child, cgi_output, cgi_send_pending, body, events, why>>
                 \/ /\ n = Len(response) /\ fds' = {} /\ flags' = {}
                    /\ response' = <<>> /\ cgi_send_pending' = <<>>
                    /\ child' = Reap /\ why' = "done"
         /\ ~Active /\ ~Streamed /\ "client" \in fds
         /\ UNCHANGED <<req, taken, outRead, childOut>>
  <1> DEFINE n == Least(SockRoom, Len(response))
  <1>0. TypeOK /\ EntriesOK
    BY DEF ConnInv
  <1>1. /\ sent' = sent \o Take(response, n) /\ response # <<>> /\ SockRoom > 0
        /\ \/ /\ n # Len(response) /\ response' = Drop(response, n)
              /\ UNCHANGED <<fds, flags, child, cgi_output, cgi_send_pending, body,
                             events, why>>
           \/ /\ n = Len(response) /\ fds' = {} /\ flags' = {}
              /\ response' = <<>> /\ cgi_send_pending' = <<>>
              /\ child' = Reap /\ why' = "done"
        /\ UNCHANGED <<req, taken, outRead, childOut>>
    BY DEF ResponseSend, remove_client
  <1>2. ~Active /\ ~Streamed /\ "client" \in fds
    BY <1>0, TurnFacts DEF ResponseSend, CgiMode, ClientWriting
  <1>3. response \in Seq(Unit) /\ sent \in Seq(Unit) /\ SockRoom \in Nat
    BY RoomTypes DEF TypeOK, ClientTypes
  <1>4. n \in 0 .. Len(response) /\ n > 0 /\ n \in Nat /\ n <= Len(response)
        /\ (n # Len(response) => n < Len(response))
    <2>1. Len(response) \in Nat /\ Len(response) > 0
      BY <1>1, <1>3, EmptySeq
    <2> QED BY <1>1, <1>3, <2>1 DEF Least
  <1> HIDE DEF n
  <1>5. Moves(sent, response, n, sent \o Take(response, n), Drop(response, n))
    <2>1. \A s, q \in Seq(Unit) : \A k \in 0 .. Len(q) :
            Moves(s, q, k, s \o Take(q, k), Drop(q, k))
      BY TakeMoves
    <2> QED BY <1>3, <1>4, <2>1, Zenon
  <1> DEFINE q == Drop(response, n)
  <1>6. q \in Seq(Unit) /\ Moves(sent, response, n, sent', q)
    BY <1>1, <1>5 DEF Moves
  <1>7. response' = q \/ n = Len(response)
    BY <1>1
  <1> HIDE DEF q
  <1>8. /\ 0 < n /\ n <= Len(response) /\ Moves(sent, response, n, sent', q)
        /\ \/ /\ response' = q /\ fds' = fds /\ flags' = flags
              /\ n < Len(response)
              /\ UNCHANGED <<child, cgi_output, cgi_send_pending, body, events, why>>
           \/ /\ n = Len(response) /\ fds' = {} /\ flags' = {}
              /\ response' = <<>> /\ cgi_send_pending' = <<>>
              /\ child' = Reap /\ why' = "done"
    BY <1>1, <1>4, <1>6, <1>7
  <1> QED BY <1>1, <1>2, <1>4, <1>6, <1>8, Zenon

LEMMA CgiUnitsAre ==
  ASSUME NEW a \in Nat, NEW b \in Nat, a <= b
  PROVE  /\ CgiUnits(a, b) \in Seq(Unit) /\ Len(CgiUnits(a, b)) = b - a
         /\ \A i \in 1 .. (b - a) : CgiUnits(a, b)[i] = CgiUnit(a + i)
  BY CgiUnitsType DEF CgiUnits, CgiUnit

(* A read of the script's output.                                          *)
LEMMA CgiOutputMoves ==
  ASSUME TypeOK, ConnInv, CgiOutput
  PROVE  \E n \in Nat, units \in Seq(Unit) :
           /\ 0 < n /\ outRead' = outRead + n /\ outRead' <= childOut
           /\ Len(units) = n /\ \A i \in 1 .. n : units[i] = CgiUnit(outRead + i)
           /\ Active /\ Active' /\ (Started' <=> Started) /\ "client" \in fds /\ fds' = fds
           /\ UNCHANGED <<req, taken, sent, childOut, child, response, body, why>>
           /\ \/ /\ Streamed /\ Streamed'
                 /\ Joins(cgi_send_pending', cgi_send_pending, units)
              \/ /\ ~Streamed /\ Joins(cgi_output', cgi_output, units)
                 /\ \/ /\ ~Streamed' /\ cgi_send_pending' = cgi_send_pending
                    \/ /\ Streamed' /\ 0 < req.hdr /\ req.hdr <= Len(cgi_output')
                       /\ cgi_send_pending' \in Seq(Unit)
                       /\ Len(cgi_send_pending') = 1 + (Len(cgi_output') - req.hdr)
                       /\ cgi_send_pending'[1] = HttpHeader
                       /\ \A i \in 1 .. (Len(cgi_output') - req.hdr) :
                            cgi_send_pending'[1 + i] = cgi_output'[req.hdr + i]
  <1> DEFINE n     == Least(ReadMax, childOut - outRead)
             units == CgiUnits(outRead, outRead + n)
             raw   == cgi_output \o units
  <1>0. TypeOK /\ EntriesOK /\ StdoutOK
    BY DEF ConnInv
  <1>1. /\ outRead < childOut /\ outRead' = outRead + n
        /\ cgi_output' = IF Streamed THEN cgi_output ELSE raw
        /\ cgi_send_pending' = StreamedOutput(units, raw)
        /\ flags' = IF HeaderEnds(raw) THEN flags \cup {"cgi_headers_sent"} ELSE flags
        /\ UNCHANGED <<req, taken, sent, childOut, child, response, body, why>>
        /\ fds' = fds
    BY DEF CgiOutput
  <1>2. Active /\ "client" \in fds
    BY <1>0, TurnFacts DEF CgiOutput
  <1>3. /\ Active' /\ (Started' <=> Started)
        /\ Streamed' <=> Streamed \/ HeaderEnds(raw)
    BY <1>1, <1>2 DEF Active, Started, Streamed
  <1>4. n \in Nat /\ 0 < n /\ outRead + n <= childOut /\ outRead \in Nat /\ childOut \in Nat
    BY <1>1, RequestTypes, LimitsAssumption DEF Least
  <1>5. units \in Seq(Unit) /\ Len(units) = n /\ \A i \in 1 .. n : units[i] = CgiUnit(outRead + i)
    <2> HIDE DEF n
    <2>1. outRead + n \in Nat /\ outRead <= outRead + n /\ (outRead + n) - outRead = n
      BY <1>4
    <2>2. /\ units \in Seq(Unit) /\ Len(units) = (outRead + n) - outRead
          /\ \A i \in 1 .. ((outRead + n) - outRead) : units[i] = CgiUnit(outRead + i)
      <3>1. \A a, b \in Nat : a <= b =>
              /\ CgiUnits(a, b) \in Seq(Unit) /\ Len(CgiUnits(a, b)) = b - a
              /\ \A i \in 1 .. (b - a) : CgiUnits(a, b)[i] = CgiUnit(a + i)
        BY CgiUnitsAre
      <3> QED BY <1>4, <2>1, <3>1, Zenon
    <2> QED BY <2>1, <2>2
  <1> HIDE DEF n, units
  <1>6. cgi_output \in Seq(Unit) /\ cgi_send_pending \in Seq(Unit)
        /\ req.hdr \in Nat
    BY StdoutNumbers
  <1>7. Joins(raw, cgi_output, units) /\ raw \in Seq(Unit) /\ Len(raw) \in Nat
    BY <1>5, <1>6, ConcatJoins DEF Joins
  <1>8. CASE Streamed
    <2>1. cgi_send_pending' = cgi_send_pending \o units
      BY <1>1, <1>8 DEF StreamedOutput
    <2>2. Joins(cgi_send_pending', cgi_send_pending, units)
      BY <1>5, <1>6, <2>1, ConcatJoins
    <2> QED BY <1>1, <1>2, <1>3, <1>4, <1>5, <1>8, <2>2, Zenon
  <1>9. CASE ~Streamed /\ ~HeaderEnds(raw)
    <2>1. cgi_send_pending' = cgi_send_pending
      BY <1>1, <1>9 DEF StreamedOutput
    <2>2. cgi_output' = raw
      BY <1>1, <1>9
    <2>3. Joins(cgi_output', cgi_output, units)
      BY <1>7, <2>2
    <2> QED BY <1>1, <1>2, <1>3, <1>4, <1>5, <1>9, <2>1, <2>3, Zenon
  <1>10. CASE ~Streamed /\ HeaderEnds(raw)
    <2>1. /\ cgi_output' = raw /\ cgi_send_pending = <<>>
          /\ 0 < req.hdr /\ req.hdr <= Len(raw)
          /\ cgi_send_pending' = cgi_send_pending \o <<HttpHeader>> \o Drop(raw, req.hdr)
      BY <1>0, <1>1, <1>6, <1>7, <1>10 DEF StreamedOutput, HeaderEnds, StdoutOK
    <2> HIDE DEF raw
    <2>2. /\ Drop(raw, req.hdr) \in Seq(Unit) /\ Len(Drop(raw, req.hdr)) = Len(raw) - req.hdr
          /\ \A i \in 1 .. (Len(raw) - req.hdr) : Drop(raw, req.hdr)[i] = raw[req.hdr + i]
      <3>1. req.hdr \in 0 .. Len(raw)
        BY <1>6, <1>7, <2>1
      <3>2. \A q \in Seq(Unit) : \A k \in 0 .. Len(q) :
              /\ Drop(q, k) \in Seq(Unit) /\ Len(Drop(q, k)) = Len(q) - k
              /\ \A i \in 1 .. (Len(q) - k) : Drop(q, k)[i] = q[k + i]
        BY TakeDrop
      <3> QED BY <1>7, <3>1, <3>2, Zenon
    <2> DEFINE d == Drop(raw, req.hdr)
    <2>3. <<HttpHeader>> \in Seq(Unit) /\ Len(<<HttpHeader>>) = 1 /\ <<HttpHeader>>[1] = HttpHeader
      BY UnitTypes
    <2>4. cgi_send_pending' = <<HttpHeader>> \o d
      BY <2>1, <2>3, ConcatEmptySeq
    <2>5. d \in Seq(Unit) /\ Len(d) = Len(raw) - req.hdr
          /\ \A i \in 1 .. (Len(raw) - req.hdr) : d[i] = raw[req.hdr + i]
      BY <2>2
    <2> HIDE DEF d
    <2>6. Joins(cgi_send_pending', <<HttpHeader>>, d)
      BY <2>3, <2>4, <2>5, ConcatJoins
    <2> DEFINE h == <<HttpHeader>>
    <2> HIDE DEF h
    <2>7. Joins(cgi_send_pending', h, d) /\ Len(h) = 1 /\ h[1] = HttpHeader
      BY <2>3, <2>6 DEF h
    <2>8. /\ cgi_send_pending' \in Seq(Unit)
          /\ Len(cgi_send_pending') = 1 + (Len(raw) - req.hdr)
          /\ cgi_send_pending'[1] = HttpHeader
          /\ \A i \in 1 .. (Len(raw) - req.hdr) :
               cgi_send_pending'[1 + i] = raw[req.hdr + i]
      BY <2>5, <2>7 DEF Joins
    <2>9. Joins(cgi_output', cgi_output, units)
      BY <1>7, <2>1
    <2>10. /\ Streamed' /\ 0 < req.hdr /\ req.hdr <= Len(cgi_output')
           /\ cgi_send_pending' \in Seq(Unit)
           /\ Len(cgi_send_pending') = 1 + (Len(cgi_output') - req.hdr)
           /\ cgi_send_pending'[1] = HttpHeader
           /\ \A i \in 1 .. (Len(cgi_output') - req.hdr) :
                cgi_send_pending'[1 + i] = cgi_output'[req.hdr + i]
      BY <1>3, <1>10, <2>1, <2>8 DEF raw
    <2> QED BY <1>1, <1>2, <1>3, <1>4, <1>5, <1>10, <2>9, <2>10, Zenon
  <1> QED BY <1>8, <1>9, <1>10

-------------------------------------------------------------------------------
(***************************************************************************)
(* A stream closed as done is complete.                                    *)
(***************************************************************************)
Plain(s) == \A i \in 1 .. Len(s) : s[i].s \in {"static", "error"}

(* Nothing a script wrote is sent before there is a script, nor before its *)
(* header block has been read; a script whose header block came whole has  *)
(* been streamed; and what is streamed is all that was read, in count.     *)
OutputOK ==
  /\ child = "none" => childOut = 0 /\ ~Streamed /\ Plain(sent) /\ Plain(response)
  /\ Active /\ ~Streamed => Len(cgi_output) = outRead /\ Plain(sent)
  /\ "client" \in fds /\ ~Active /\ ~Streamed => ~(0 < req.hdr /\ req.hdr <= childOut)
  /\ Streamed /\ ~Active => outRead = childOut
  /\ "client" \in fds => why = ""

LenOK ==
  Streamed /\ (sent = <<>> \/ sent[1] = HttpHeader) =>
    /\ 0 < req.hdr
    /\ Len(sent) + Len(cgi_send_pending) = 1 + (outRead - req.hdr)
    /\ sent = <<>> => cgi_send_pending # <<>> /\ cgi_send_pending[1] = HttpHeader

DoneInv == OutputOK /\ LenOK /\ DoneIsComplete

LEMMA PlainPages ==
  /\ Plain(<<>>) /\ Plain(ErrorPage) /\ Plain(StaticPage)
  /\ \A s : s # <<>> /\ s \in Seq(Unit) /\ Plain(s) => s[1] # HttpHeader
  <1>1. Plain(<<>>)
    BY EmptySeq DEF Plain
  <1>2. Plain(ErrorPage)
    BY DEF Plain, ErrorPage
  <1>3. Plain(StaticPage)
    <2>1. Len(StaticPage) = StaticLen
      BY LimitsAssumption DEF StaticPage
    <2> QED BY <2>1 DEF Plain, StaticPage
  <1>4. ASSUME NEW s \in Seq(Unit), s # <<>>, Plain(s) PROVE s[1] # HttpHeader
    <2>1. 1 \in 1 .. Len(s)
      BY <1>4, EmptySeq
    <2>2. s[1].s \in {"static", "error"}
      BY <1>4, <2>1 DEF Plain
    <2> QED BY <2>2 DEF HttpHeader
  <1> QED BY <1>1, <1>2, <1>3, <1>4

(* Sending part of a plain queue after plain units.                        *)
LEMMA PlainMoves ==
  ASSUME NEW s \in Seq(Unit), NEW q \in Seq(Unit), NEW n \in Nat, NEW s1, NEW q1,
         n <= Len(q), Moves(s, q, n, s1, q1), Plain(s), Plain(q)
  PROVE  Plain(s1) /\ Plain(q1)
  <1>1. ASSUME NEW i \in 1 .. Len(s1) PROVE s1[i].s \in {"static", "error"}
    <2>0. Len(s) \in Nat /\ Len(s1) = Len(s) + n /\ Len(q) \in Nat
      BY DEF Moves
    <2>1. CASE i \in 1 .. Len(s)
      BY <2>1 DEF Moves, Plain
    <2>2. CASE i \notin 1 .. Len(s)
      <3>1. i - Len(s) \in 1 .. n /\ i - Len(s) \in 1 .. Len(q) /\ i = Len(s) + (i - Len(s))
        BY <2>0, <2>2
      <3>2. s1[Len(s) + (i - Len(s))] = q[i - Len(s)]
        BY <3>1 DEF Moves
      <3> QED BY <3>1, <3>2 DEF Plain
    <2> QED BY <2>1, <2>2
  <1>2. ASSUME NEW i \in 1 .. Len(q1) PROVE q1[i].s \in {"static", "error"}
    <2>0. Len(q1) = Len(q) - n /\ Len(q) \in Nat
      BY DEF Moves
    <2>1. i \in 1 .. (Len(q) - n) /\ n + i \in 1 .. Len(q)
      BY <2>0
    <2> QED BY <2>1 DEF Moves, Plain
  <1> QED BY <1>1, <1>2 DEF Plain

LEMMA OutputStep ==
  ASSUME TypeOK, ConnInv, BufferOK, OnceOK, OutputOK, [Next]_vars PROVE OutputOK'
  <1>0. TypeOK /\ EntriesOK /\ StdoutOK /\ sent \in Seq(Unit) /\ response \in Seq(Unit)
    BY DEF ConnInv, TypeOK, KernelTypes, ClientTypes
  <1>1. CASE Quiet
    <2>1. /\ UNCHANGED <<req, sent, response, outRead, cgi_output, why>>
          /\ Active' = Active /\ Streamed' = Streamed
          /\ "client" \in fds' <=> "client" \in fds
          /\ child' = "none" <=> child = "none"
          /\ childOut' # childOut => child = "run" /\ Active
      BY <1>1 DEF Quiet
    <2>2. Plain(sent)' = Plain(sent) /\ Plain(response)' = Plain(response)
      BY <2>1 DEF Plain
    <2> QED BY <2>1, <2>2 DEF OutputOK
  <1>2. CASE Removed
    <2>1. /\ UNCHANGED <<sent, childOut>> /\ fds' = {} /\ flags' = {} /\ response' = <<>>
          /\ child' = "none" => child = "none"
      BY <1>2 DEF Removed, Reap
    <2>2. Plain(sent)' = Plain(sent) /\ Plain(response)'
      BY <2>1, PlainPages DEF Plain
    <2> QED BY <2>1, <2>2 DEF OutputOK, Active, Streamed
  <1>3. CASE StreamSend
    <2>1. /\ Streamed /\ flags' = flags
          /\ UNCHANGED <<req, outRead, childOut, child, why, fds>>
      BY <1>0, <1>3, StreamSendMoves
    <2>2. child # "none"
      BY <2>1 DEF OutputOK
    <2> QED BY <2>1, <2>2 DEF OutputOK, Active, Streamed
  <1>4. CASE ResponseSend
    <2>1. PICK n \in Nat, q \in Seq(Unit) :
              /\ 0 < n /\ n <= Len(response) /\ Moves(sent, response, n, sent', q)
              /\ \/ /\ response' = q /\ fds' = fds /\ flags' = flags
                    /\ n < Len(response)
                    /\ UNCHANGED <<child, cgi_output, cgi_send_pending, body, events, why>>
                 \/ /\ n = Len(response) /\ fds' = {} /\ flags' = {}
                    /\ response' = <<>> /\ cgi_send_pending' = <<>>
                    /\ child' = Reap /\ why' = "done"
      BY <1>4, ResponseSendMoves, Zenon
    <2>2. ~Active /\ ~Streamed /\ UNCHANGED <<req, taken, outRead, childOut>>
      BY <1>4, ResponseSendMoves
    <2>3. child' = "none" => child = "none"
      BY <2>1 DEF Reap
    <2>4. child = "none" => Plain(sent') /\ Plain(q)
      BY <1>0, <2>1, PlainMoves DEF OutputOK
    <2>5. child = "none" => Plain(response')
      BY <2>1, <2>4, PlainPages
    <2>6. Plain(sent)' = Plain(sent') /\ Plain(response)' = Plain(response')
      BY DEF Plain
    <2> QED BY <2>1, <2>2, <2>3, <2>4, <2>5, <2>6 DEF OutputOK, Active, Streamed
  <1>5. CASE CgiOutput
    <2>1. PICK n \in Nat, units \in Seq(Unit) :
           /\ outRead' = outRead + n /\ Len(units) = n /\ Active /\ Active' /\ fds' = fds
           /\ UNCHANGED <<req, taken, sent, childOut, child, response, body, why>>
           /\ Streamed => Streamed'
           /\ ~Streamed => Joins(cgi_output', cgi_output, units)
      BY <1>5, CgiOutputMoves, Zenon
    <2>2. child # "none"
      BY <2>1 DEF OnceOK
    <2>3. ~Streamed' => Len(cgi_output') = outRead'
      BY <2>1 DEF OutputOK, Joins
    <2>4. Plain(sent)' = Plain(sent)
      BY <2>1 DEF Plain
    <2> QED BY <2>1, <2>2, <2>3, <2>4 DEF OutputOK
  <1>6. CASE finalize_cgi
    <2>1. /\ UNCHANGED <<req, childOut, outRead, sent, why, cgi_output>> /\ outRead = childOut
          /\ Streamed' = Streamed /\ ~Active'
          /\ "client" \in fds' <=> "client" \in fds
          /\ child' = Reap
      BY <1>6 DEF finalize_cgi, Streamed, Active
    <2>2. Active
      BY <1>0, <1>6, TurnFacts DEF finalize_cgi
    <2>3. child # "none" /\ child' # "none"
      BY <2>1, <2>2 DEF OnceOK, Reap
    <2>4. ~Streamed => ~(0 < req.hdr /\ req.hdr <= childOut)
      <3>1. ~Streamed /\ req.hdr > 0 => outRead < req.hdr
        BY <1>0, <2>2 DEF StdoutOK, OutputOK
      <3> QED BY <2>1, <3>1, RequestTypes
    <2> QED BY <2>1, <2>3, <2>4 DEF OutputOK
  <1>7. CASE AwaitHeaders \/ AwaitBody \/ RejectRequest \/ AnswerRequest \/ DispatchFails
    <2>1. /\ UNCHANGED <<req, child, childOut, outRead, sent, why, cgi_output, fds>>
          /\ Active' = Active /\ Streamed' = Streamed /\ ~Active
          /\ response' \in {response, ErrorPage, StaticPage}
      BY <1>7 DEF AwaitHeaders, AwaitBody, RejectRequest, AnswerRequest, DispatchFails,
         RespondWith, Parsing, BytesArrive, RequestReading, Active, Streamed
    <2>2. Plain(response)' = Plain(response') /\ Plain(sent)' = Plain(sent)
      BY <2>1 DEF Plain
    <2>3. child = "none" => Plain(response')
      BY <2>1, PlainPages DEF OutputOK
    <2> QED BY <2>1, <2>2, <2>3 DEF OutputOK
  <1>8. CASE dispatch_cgi
    <2>1. /\ UNCHANGED <<req, sent, why>> /\ child' # "none"
          /\ childOut' = 0 /\ outRead' = 0 /\ cgi_output' = <<>>
      BY <1>8 DEF dispatch_cgi
    <2>2. child = "none"
      BY <1>0, <1>8, DispatchOnce
    <2>3. Plain(sent)' /\ Len(<<>>) = 0
      BY <2>1, <2>2, EmptySeq DEF OutputOK, Plain
    <2>4. Active' /\ ~Streamed'
      BY <1>8 DEF dispatch_cgi, Active, Streamed
    <2>5. "client" \in fds' => "client" \in fds
      BY <1>8 DEF dispatch_cgi
    <2> QED BY <2>1, <2>3, <2>4, <2>5 DEF OutputOK
  <1> QED BY <1>0, <1>1, <1>2, <1>3, <1>4, <1>5, <1>6, <1>7, <1>8, StepKinds

LEMMA LenStep ==
  ASSUME TypeOK, ConnInv, BufferOK, OnceOK, OutputOK, LenOK, [Next]_vars PROVE LenOK'
  <1>0. TypeOK /\ EntriesOK /\ StdoutOK /\ sent \in Seq(Unit) /\ Len(sent) \in Nat
        /\ cgi_send_pending \in Seq(Unit) /\ Len(cgi_send_pending) \in Nat
        /\ outRead \in Nat /\ req.hdr \in Nat
    BY RequestTypes, StdoutNumbers DEF ConnInv, TypeOK, KernelTypes
  <1>1. ASSUME UNCHANGED <<req, sent, outRead, cgi_send_pending>>, Streamed' => Streamed
        PROVE  LenOK'
    BY <1>1 DEF LenOK
  <1>2. CASE Quiet
    BY <1>1, <1>2 DEF Quiet
  <1>3. CASE Removed \/ dispatch_cgi
    <2>1. ~Streamed'
      BY <1>3 DEF Removed, dispatch_cgi, Streamed
    <2> QED BY <2>1 DEF LenOK
  <1>4. CASE StreamSend
    <2>1. PICK n \in Nat : /\ 0 < n /\ n <= Len(cgi_send_pending)
                           /\ Moves(sent, cgi_send_pending, n, sent', cgi_send_pending')
      BY <1>0, <1>4, StreamSendMoves
    <2>2. Streamed /\ UNCHANGED <<req, outRead>>
      BY <1>0, <1>4, StreamSendMoves
    <2>3. /\ Len(sent') = Len(sent) + n
          /\ Len(cgi_send_pending') = Len(cgi_send_pending) - n
          /\ sent' # <<>>
      <3>1. /\ Len(sent') = Len(sent) + n
            /\ Len(cgi_send_pending') = Len(cgi_send_pending) - n
        BY <2>1 DEF Moves
      <3>2. Len(sent') # 0
        BY <1>0, <2>1, <3>1
      <3> QED BY <3>1, <3>2, EmptySeq
    <2>4. sent # <<>> => sent'[1] = sent[1]
      <3>1. sent # <<>> => 1 \in 1 .. Len(sent)
        BY <1>0, EmptySeq
      <3> QED BY <2>1, <3>1 DEF Moves
    <2>5. sent' # <<>> /\ (sent = <<>> \/ sent'[1] = sent[1])
      BY <2>3, <2>4
    <2>6. Len(sent') + Len(cgi_send_pending') = Len(sent) + Len(cgi_send_pending)
      BY <1>0, <2>1, <2>3
    <2> QED BY <2>2, <2>5, <2>6 DEF LenOK
  <1>5. CASE ResponseSend
    <2>1. ~Streamed /\ (flags' = flags \/ flags' = {})
      BY <1>5, ResponseSendMoves
    <2> QED BY <2>1 DEF LenOK, Streamed
  <1>6. CASE CgiOutput
    <2>1. PICK n \in Nat, units \in Seq(Unit) :
           /\ outRead' = outRead + n /\ Len(units) = n
           /\ Active /\ req' = req /\ sent' = sent
           /\ \/ /\ Streamed /\ Streamed'
                 /\ Joins(cgi_send_pending', cgi_send_pending, units)
              \/ /\ ~Streamed /\ Joins(cgi_output', cgi_output, units)
                 /\ \/ /\ ~Streamed' /\ cgi_send_pending' = cgi_send_pending
                    \/ /\ Streamed' /\ 0 < req.hdr /\ req.hdr <= Len(cgi_output')
                       /\ cgi_send_pending' \in Seq(Unit)
                       /\ Len(cgi_send_pending') = 1 + (Len(cgi_output') - req.hdr)
                       /\ cgi_send_pending'[1] = HttpHeader
      BY <1>6, CgiOutputMoves, Zenon
    <2>2. CASE Streamed
      <3>1. /\ Len(cgi_send_pending') = Len(cgi_send_pending) + n
            /\ \A i \in 1 .. Len(cgi_send_pending) : cgi_send_pending'[i] = cgi_send_pending[i]
            /\ cgi_send_pending' \in Seq(Unit)
        BY <2>1, <2>2 DEF Joins
      <3>2. cgi_send_pending # <<>> =>
              cgi_send_pending' # <<>> /\ cgi_send_pending'[1] = cgi_send_pending[1]
        <4>1. cgi_send_pending # <<>> => 1 \in 1 .. Len(cgi_send_pending)
          BY <1>0, EmptySeq
        <4>2. cgi_send_pending # <<>> => Len(cgi_send_pending') # 0
          BY <1>0, <3>1, <4>1
        <4> QED BY <3>1, <4>1, <4>2, EmptySeq
      <3>3. Len(sent) + Len(cgi_send_pending) = 1 + (outRead - req.hdr) =>
              Len(sent) + Len(cgi_send_pending') = 1 + (outRead' - req.hdr)
        <4>1. outRead' = outRead + n /\ n \in Nat
          BY <2>1
        <4>2. Len(cgi_send_pending') = Len(cgi_send_pending) + n
          BY <3>1
        <4> DEFINE Grow(a, b, c, d, h) ==
               a + b = 1 + (c - h) => a + (b + d) = 1 + ((c + d) - h)
        <4>3. \A a, b, c, d, h \in Nat : Grow(a, b, c, d, h)
          OBVIOUS
        <4> HIDE DEF Grow
        <4>4. Grow(Len(sent), Len(cgi_send_pending), outRead, n, req.hdr)
          BY <1>0, <4>1, <4>3, Zenon
        <4> QED BY <4>1, <4>2, <4>4, Zenon DEF Grow
      <3> QED BY <2>1, <2>2, <3>2, <3>3 DEF LenOK
    <2>3. CASE ~Streamed /\ Streamed'
      <3>1. /\ Len(cgi_output') = outRead' /\ Plain(sent)
        BY <2>1, <2>3 DEF OutputOK, Joins
      <3>2. /\ 0 < req.hdr /\ Len(cgi_send_pending') = 1 + (outRead' - req.hdr)
            /\ cgi_send_pending'[1] = HttpHeader /\ req.hdr <= outRead'
        BY <2>1, <2>3, <3>1
      <3>3. sent # <<>> => sent[1] # HttpHeader
        BY <1>0, <3>1, PlainPages
      <3>4. cgi_send_pending' # <<>>
        <4>1. Len(cgi_send_pending') # 0
          BY <1>0, <2>1, <3>2
        <4> QED BY <4>1, EmptySeq
      <3>5. sent = <<>> => Len(sent) + Len(cgi_send_pending') = 1 + (outRead' - req.hdr)
        <4>1. sent = <<>> => Len(sent) = 0
          BY EmptySeq
        <4>2. outRead' \in Nat
          BY <1>0, <2>1
        <4> QED BY <1>0, <3>2, <4>1, <4>2
      <3> QED BY <2>1, <3>2, <3>3, <3>4, <3>5 DEF LenOK
    <2>4. CASE ~Streamed'
      BY <2>4 DEF LenOK
    <2> QED BY <2>2, <2>3, <2>4
  <1>7. CASE finalize_cgi \/ AwaitHeaders \/ AwaitBody \/ RejectRequest \/ AnswerRequest
             \/ DispatchFails
    <2>1. UNCHANGED <<req, sent, outRead, cgi_send_pending>> /\ (Streamed' => Streamed)
      BY <1>7 DEF finalize_cgi, AwaitHeaders, AwaitBody, RejectRequest, AnswerRequest,
         DispatchFails, RespondWith, Streamed
    <2> QED BY <1>1, <2>1
  <1> QED BY <1>0, <1>2, <1>3, <1>4, <1>5, <1>6, <1>7, StepKinds

LEMMA DoneStep ==
  ASSUME TypeOK, ConnInv, OutputOK, LenOK, DoneIsComplete, [Next]_vars
  PROVE  DoneIsComplete'
  <1>0. TypeOK /\ EntriesOK /\ StdoutOK
    BY DEF ConnInv
  <1>1. ASSUME why' # "done" PROVE DoneIsComplete'
    BY <1>1 DEF DoneIsComplete
  <1>2. CASE Quiet
    <2>1. why = "done" => childOut' = childOut
      BY <1>0, <1>2 DEF Quiet, OutputOK, EntriesOK, Active
    <2>2. UNCHANGED <<req, sent, why>>
      BY <1>2 DEF Quiet
    <2> QED BY <2>1, <2>2 DEF DoneIsComplete
  <1>3. CASE Removed
    <2>1. CASE why' \in {"peer", "timeout"}
      BY <1>1, <2>1
    <2>2. CASE ResponseFails
      BY <1>1, <2>2 DEF ResponseFails, remove_client
    <2>3. CASE StreamDone
      <3>1. Streamed /\ ~Active /\ cgi_send_pending = <<>> /\ Len(<<>>) = 0
        BY <2>3, EmptySeq DEF StreamDone, CgiMode
      <3>2. UNCHANGED <<req, sent, childOut>>
        BY <1>3 DEF Removed
      <3>3. outRead = childOut
        BY <3>1 DEF OutputOK
      <3>4. sent # <<>> /\ sent[1] = HttpHeader =>
              Len(sent) + 0 = 1 + (childOut - req.hdr)
        BY <3>1, <3>3 DEF LenOK
      <3>5. Len(sent) \in Nat
        BY RoomTypes
      <3>6. sent # <<>> /\ sent[1] = HttpHeader =>
              Len(sent) = 1 + childOut - req.hdr
        BY <3>4, <3>5, RequestTypes
      <3> QED BY <3>2, <3>6 DEF DoneIsComplete
    <2> QED BY <1>3, <2>1, <2>2, <2>3 DEF Removed
  <1>4. CASE ResponseSend
    <2>1. "client" \in fds /\ ~Active /\ ~Streamed /\ UNCHANGED <<req, childOut>>
      BY <1>4, ResponseSendMoves
    <2>2. ~(0 < req.hdr /\ req.hdr <= childOut)
      BY <2>1 DEF OutputOK
    <2> QED BY <2>1, <2>2 DEF DoneIsComplete
  <1>5. CASE StreamSend \/ CgiOutput \/ finalize_cgi \/ AwaitHeaders \/ RejectRequest
             \/ AwaitBody \/ AnswerRequest \/ DispatchFails \/ dispatch_cgi
    <2>1. "client" \in fds
      BY <1>0, <1>5, TurnFacts DEF StreamSend, CgiOutput, finalize_cgi, AwaitHeaders,
         RejectRequest, AwaitBody, AnswerRequest, DispatchFails, dispatch_cgi,
         Parsing, BytesArrive, RequestReading, ClientReading, ClientWriting
    <2>2. why' = why
      BY <1>5 DEF StreamSend, CgiOutput, finalize_cgi, AwaitHeaders, RejectRequest,
         AwaitBody, AnswerRequest, DispatchFails, RespondWith, dispatch_cgi
    <2> QED BY <1>1, <2>1, <2>2 DEF OutputOK
  <1> QED BY <1>0, <1>2, <1>3, <1>4, <1>5, StepKinds

(* Behind it: how much of the script's output was read, is buffered and    *)
(* was sent adds up in every state, and a connection that is done has none *)
(* left.                                                                   *)
THEOREM DoneInvariant == Spec => []DoneInv
  <1>1. Init => DoneInv
    <2> SUFFICES ASSUME Init PROVE DoneInv
      OBVIOUS
    <2>1. /\ child = "none" /\ childOut = 0 /\ sent = <<>> /\ response = <<>>
          /\ flags = {} /\ why = ""
      BY DEF Init
    <2>2. OutputOK
      <3>1. req.hdr \in Nat
        BY RequestsAssumption DEF Init, Request
      <3>2. ~(0 < req.hdr /\ req.hdr <= childOut)
        <4>1. \A h \in Nat : ~(0 < h /\ h <= 0)
          OBVIOUS
        <4> QED BY <2>1, <3>1, <4>1, Zenon
      <3> QED BY <2>1, <3>2, PlainPages DEF OutputOK, Active, Streamed
    <2>3. LenOK /\ DoneIsComplete
      BY <2>1 DEF LenOK, DoneIsComplete, Streamed
    <2> QED BY <2>2, <2>3 DEF DoneInv
  <1>2. TypeOK /\ ConnInv /\ BodyInv /\ DoneInv /\ [Next]_vars => DoneInv'
    BY OutputStep, LenStep, DoneStep DEF DoneInv, BodyInv
  <1> QED BY <1>1, <1>2, TypeCorrect, LoopInvariant, BodyInvariant, PTL DEF Spec

(* A connection closed as done has sent the header and all of the body the *)
(* script wrote before it closed its stdout: finalize_cgi reads what is    *)
(* left, and handle_poll_output closes only when that is sent too          *)
(* (Server.cpp:1302).                                                      *)
THEOREM DoneAlwaysComplete == Spec => []DoneIsComplete
  <1>1. DoneInv => DoneIsComplete
    BY DEF DoneInv
  <1> QED BY <1>1, DoneInvariant, PTL

-------------------------------------------------------------------------------
(***************************************************************************)
(* One answer, unit by unit.                                               *)
(***************************************************************************)
Meant == WellFramed(req) /\ BodyIsInert(req)

(* s has been sent of the answer a, and q comes next.                      *)
Sends(a, s, q) ==
  /\ Len(s) + Len(q) <= Len(a)
  /\ \A i \in 1 .. Len(s) : s[i] = a[i]
  /\ \A i \in 1 .. Len(q) : q[i] = a[Len(s) + i]

(* How far the request has been read when there is, or is not yet, an      *)
(* answer to it.  Only a request HTTPHandler answers is parsed over        *)
(* several reads.                                                          *)
ReadOK ==
  "client" \in fds =>
    /\ response # <<>> => HeaderAt <= taken
    /\ child = "none" /\ response = <<>> /\ ~Started => taken < HeaderAt
    /\ Started /\ ~Active => /\ req.kind = "static" /\ response = <<>>
                             /\ HeaderAt <= taken /\ taken < Len(req.stream)
                             /\ IsBody(body, HeaderAt, taken)
    /\ Active => response = <<>>

(* The answer that is not streamed: none yet, an error page of which       *)
(* nothing is sent, or an answer after which nothing is left to read.      *)
SendOK ==
  "client" \in fds /\ ~Streamed =>
    \/ response = <<>> /\ sent = <<>>
    \/ response = ErrorPage /\ sent = <<>>
    \/ /\ response # <<>> /\ req.kind = "static" /\ taken = Len(req.stream)
       /\ Sends(StaticPage, sent, response)
    \/ /\ response # <<>> /\ req.kind = "cgi" /\ req.lf > 0 /\ taken = Len(req.stream)
       /\ Sends(LfAnswer(req), sent, response)

(* What is collected is what the script wrote; what is streamed, what it   *)
(* wrote after its header block.                                           *)
StreamOK ==
  /\ Active /\ ~Streamed => \A i \in 1 .. Len(cgi_output) : cgi_output[i] = CgiUnit(i)
  /\ Streamed => /\ req.kind = "cgi" /\ 0 < req.hdr /\ req.hdr <= outRead
                 /\ Len(sent) + Len(cgi_send_pending) = 1 + (outRead - req.hdr)
                 /\ Sends(CgiAnswer(req), sent, cgi_send_pending)

AnswerOK == Meant => OneAnswer /\ ReadOK /\ SendOK /\ StreamOK

(* Sending more of an answer.                                              *)
LEMMA SendsMoves ==
  ASSUME NEW a \in Seq(Unit), NEW s \in Seq(Unit), NEW q \in Seq(Unit), NEW n \in Nat,
         NEW s1, NEW q1, n <= Len(q), Moves(s, q, n, s1, q1), Sends(a, s, q)
  PROVE  Sends(a, s1, q1) /\ StartOf(s1, a)
  <1>0. /\ Len(s) \in Nat /\ Len(q) \in Nat /\ Len(a) \in Nat
        /\ Len(s1) = Len(s) + n /\ Len(q1) = Len(q) - n
        /\ Len(s) + Len(q) <= Len(a)
    BY DEF Moves, Sends
  <1>1. ASSUME NEW i \in 1 .. Len(s1) PROVE s1[i] = a[i]
    <2>1. CASE i \in 1 .. Len(s)
      BY <2>1 DEF Moves, Sends
    <2>2. CASE i \notin 1 .. Len(s)
      <3>1. i - Len(s) \in 1 .. n /\ i - Len(s) \in 1 .. Len(q) /\ i = Len(s) + (i - Len(s))
        BY <1>0, <2>2
      <3>2. s1[Len(s) + (i - Len(s))] = q[i - Len(s)]
        BY <3>1 DEF Moves
      <3>3. q[i - Len(s)] = a[Len(s) + (i - Len(s))]
        BY <3>1 DEF Sends
      <3> QED BY <3>1, <3>2, <3>3
    <2> QED BY <2>1, <2>2
  <1>2. ASSUME NEW i \in 1 .. Len(q1) PROVE q1[i] = a[Len(s1) + i]
    <2>1. i \in 1 .. (Len(q) - n) /\ n + i \in 1 .. Len(q) /\ Len(s1) + i = Len(s) + (n + i)
      BY <1>0
    <2>2. q1[i] = q[n + i]
      BY <2>1 DEF Moves
    <2>3. q[n + i] = a[Len(s) + (n + i)]
      BY <2>1 DEF Sends
    <2> QED BY <2>1, <2>2, <2>3
  <1>3. Len(s1) + Len(q1) <= Len(a) /\ Len(s1) <= Len(a)
    BY <1>0
  <1> QED BY <1>1, <1>2, <1>3 DEF Sends, StartOf

(* The answers, unit by unit.                                              *)
LEMMA ScriptAnswer ==
  ASSUME NEW h \in Nat, NEW o \in Nat, h <= o
  PROVE  LET a == <<HttpHeader>> \o CgiUnits(h, o)
         IN  /\ a \in Seq(Unit) /\ Len(a) = 1 + (o - h) /\ a[1] = HttpHeader
             /\ \A i \in 1 .. (o - h) : a[1 + i] = CgiUnit(h + i)
  <1> DEFINE x == <<HttpHeader>>
             y == CgiUnits(h, o)
  <1>1. x \in Seq(Unit) /\ Len(x) = 1 /\ x[1] = HttpHeader
    BY UnitTypes
  <1>2. y \in Seq(Unit) /\ Len(y) = o - h /\ \A i \in 1 .. (o - h) : y[i] = CgiUnit(h + i)
    BY CgiUnitsAre
  <1> HIDE DEF x, y
  <1>3. Joins(x \o y, x, y)
    BY <1>1, <1>2, ConcatJoins
  <1>4. /\ x \o y \in Seq(Unit) /\ Len(x \o y) = 1 + (o - h) /\ (x \o y)[1] = HttpHeader
        /\ \A i \in 1 .. (o - h) : (x \o y)[1 + i] = CgiUnit(h + i)
    BY <1>1, <1>2, <1>3 DEF Joins
  <1> QED BY <1>4 DEF x, y

LEMMA StillOne ==
  ASSUME req' = req, NEW a \in Answers(req), StartOf(sent', a) PROVE OneAnswer'
  <1>1. a \in Answers(req')
    OBVIOUS
  <1> QED BY <1>1 DEF OneAnswer, StartOf

-------------------------------------------------------------------------------
(***************************************************************************)
(* What the parser says of a request whose body does not read as one.      *)
(***************************************************************************)

(* Once a script has been started the header block has been read.          *)
LEMMA ScriptIsLate ==
  ASSUME TypeOK, OnceOK, WellFramed(req), child # "none" PROVE HeaderAt <= taken
  <1>1. PICK i \in 1 .. taken : req.stream[i] = HeaderToken
    BY DEF OnceOK
  <1>2. HeaderAt \in 1 .. Len(req.stream) /\ req.stream[HeaderAt] = HeaderToken
    BY FramedFacts
  <1>3. i \in 1 .. Len(req.stream) /\ i <= taken
    BY <1>1, RequestTypes
  <1>4. i = HeaderAt
    BY <1>1, <1>2, <1>3, HeaderOnce
  <1> QED BY <1>3, <1>4

(* What comes after the header block has no header block in it.            *)
LEMMA NoHeaderAfter ==
  ASSUME TypeOK, Meant, NEW q \in 1 .. Len(req.stream), HeaderAt < q
  PROVE  req.stream[q].t # "hdr"
  <1>1. /\ HeaderAt \in 1 .. Len(req.stream) /\ BodyLast \in Nat
        /\ BodyIndices(req) = (HeaderAt + 1) .. BodyLast
        /\ Chunked => BodyLast = Len(req.stream) - 1 /\ req.stream[Len(req.stream)].t = "end"
        /\ ~Chunked => BodyLast = Len(req.stream)
    BY FramedFacts DEF Meant
  <1>2. Len(req.stream) \in Nat
    BY RequestTypes
  <1>3. CASE q <= BodyLast
    <2>1. q \in BodyIndices(req)
      BY <1>1, <1>2, <1>3
    <2>2. req.stream[q].t \in ChunkKinds
      BY <2>1 DEF Meant, BodyIsInert
    <2> QED BY <2>2 DEF ChunkKinds
  <1>4. CASE ~(q <= BodyLast)
    <2>1. Chunked /\ q = Len(req.stream)
      BY <1>1, <1>2, <1>4
    <2> QED BY <1>1, <2>1
  <1> QED BY <1>3, <1>4

(* Body bytes after the end of the script are a request that is rejected.  *)
LEMMA LateVerdict ==
  ASSUME TypeOK, BufferOK, Meant, ~Started, HeaderAt <= taken, HasBlankLine(RequestBytes)
  PROVE  Verdict.st = "error"
  <1> DEFINE h == FirstBlank(RequestBytes)
             q == (taken - Len(buffer)) + h
  <1>1. /\ q \in (taken + 1) .. (taken + Len(Chunk)) /\ q \in 1 .. Len(req.stream)
        /\ RequestBytes[h] = req.stream[q]
    BY HeaderRead
  <1>2. HeaderAt \in Nat /\ taken \in Nat /\ Len(Chunk) \in Nat
    BY FramedFacts, RequestTypes, ChunkTokens DEF Meant
  <1> HIDE DEF q
  <1>3. HeaderAt < q
    BY <1>1, <1>2
  <1>4. req.stream[q].t # "hdr"
    BY <1>1, <1>3, NoHeaderAfter
  <1>5. RequestBytes[h].t # "hdr"
    BY <1>1, <1>4
  <1>6. ParseRequest(req, RequestBytes) = Parsed("error", <<>>, <<>>)
    BY <1>5 DEF ParseRequest
  <1> QED BY <1>6 DEF Verdict, Parsed

(* The token that ends the header block is read like any other.            *)
LEMMA HeaderIndex ==
  ASSUME TypeOK, BufferOK, Meant, ~Started, taken < HeaderAt
  PROVE  LET j == HeaderAt - (taken - Len(buffer))
         IN  /\ j \in Nat /\ j > 0
             /\ j <= Len(RequestBytes) <=> HeaderAt <= taken + Len(Chunk)
             /\ j <= Len(RequestBytes) => RequestBytes[j].t \in BlankLine
  <1> DEFINE p == taken - Len(buffer)
             j == HeaderAt - p
  <1>1. /\ RequestBytes \in Seq(Token) /\ Len(RequestBytes) = Len(buffer) + Len(Chunk)
        /\ p \in Nat
        /\ \A i \in 1 .. Len(RequestBytes) : RequestBytes[i] = req.stream[p + i]
    BY BytesTokens
  <1>2. /\ HeaderAt \in Nat /\ taken \in Nat /\ Len(Chunk) \in Nat /\ Len(buffer) \in Nat
        /\ Len(RequestBytes) \in Nat /\ req.stream[HeaderAt] = HeaderToken
    <2>1. HeaderAt \in Nat /\ req.stream[HeaderAt] = HeaderToken
      BY FramedFacts DEF Meant
    <2>2. taken \in Nat /\ Len(Chunk) \in Nat
      BY RequestTypes, ChunkTokens
    <2>3. buffer \in Seq(Token)
      BY DEF TypeOK, ClientTypes
    <2>4. Len(buffer) \in Nat /\ Len(RequestBytes) \in Nat
      BY <1>1, <2>3
    <2> QED BY <2>1, <2>2, <2>4
  <1>3. /\ j \in Nat /\ j > 0 /\ p + j = HeaderAt
        /\ j <= Len(RequestBytes) <=> HeaderAt <= taken + Len(Chunk)
    BY <1>1, <1>2
  <1>4. ASSUME j <= Len(RequestBytes) PROVE RequestBytes[j].t \in BlankLine
    <2>1. j \in 1 .. Len(RequestBytes)
      BY <1>2, <1>3, <1>4
    <2>2. RequestBytes[j] = req.stream[p + j]
      BY <1>1, <2>1
    <2> QED BY <1>2, <1>3, <2>2 DEF HeaderToken, BlankLine
  <1> QED BY <1>3, <1>4

(* The first header block to be read is the one of the request.            *)
LEMMA EarlyVerdict ==
  ASSUME TypeOK, BufferOK, Meant, ~Started, taken < HeaderAt, HasBlankLine(RequestBytes)
  PROVE  IsFirstRequest(RequestBytes)
  <1> DEFINE h == FirstBlank(RequestBytes)
             p == taken - Len(buffer)
             j == HeaderAt - p
  <1>1. /\ h \in 1 .. Len(RequestBytes) /\ h \in Nat
        /\ p + h \in 1 .. Len(req.stream)
        /\ RequestBytes[h] = req.stream[p + h]
        /\ \A i \in 1 .. (h - 1) : RequestBytes[i].t \notin BlankLine
        /\ RequestBytes[h].t \in BlankLine
    BY HeaderRead
  <1>2. /\ j \in Nat /\ j > 0
        /\ j <= Len(RequestBytes) => RequestBytes[j].t \in BlankLine
    BY HeaderIndex
  <1>3. /\ HeaderAt \in Nat /\ p \in Nat /\ req.stream[HeaderAt] = HeaderToken
        /\ Len(RequestBytes) \in Nat
    BY FramedFacts, BytesTokens DEF Meant
  <1>4. ~(p + h < HeaderAt)
    <2> SUFFICES ASSUME p + h < HeaderAt PROVE FALSE
      OBVIOUS
    <2>1. p + h \in 1 .. (FirstBlank(req.stream) - 1)
      BY <1>1, <1>3 DEF HeaderAt
    <2>2. req.stream[p + h].t = "part"
      BY <2>1 DEF Meant, WellFramed
    <2> QED BY <1>1, <2>2 DEF BlankLine
  <1> HIDE DEF h
  <1>5. ~(HeaderAt < p + h)
    <2> SUFFICES ASSUME HeaderAt < p + h PROVE FALSE
      OBVIOUS
    <2>1. j \in 1 .. (h - 1) /\ j <= Len(RequestBytes)
      BY <1>1, <1>2, <1>3
    <2> QED BY <1>1, <1>2, <2>1
  <1>6. p + h = HeaderAt
    BY <1>1, <1>3, <1>4, <1>5
  <1>7. RequestBytes[h] = HeaderToken
    BY <1>1, <1>3, <1>6
  <1> QED BY <1>7 DEF IsFirstRequest, HeaderToken, h

(* The verdict on what is read of a request, and what it is read for.      *)
LEMMA Verdicts ==
  ASSUME TypeOK, EntriesOK, BufferOK, OnceOK, KindOK, OutputOK, Meant, ReadOK, SendOK,
         Parsing
  PROVE  /\ ~Active /\ "client" \in fds /\ taken < Len(req.stream)
         /\ taken' = taken + Len(Chunk) /\ HeaderAt <= taken'
         /\ Verdict.st # "error" =>
              /\ IsBody(Verdict.body, HeaderAt, taken')
              /\ Verdict.st = "done" <=> taken' = Len(req.stream)
              /\ Verdict.st \in {"more", "done"} /\ taken' <= Len(req.stream)
              /\ IsCgi <=> req.kind = "cgi"
              /\ response = <<>> /\ sent = <<>> /\ ~Streamed
  <1>1. /\ ~Active /\ "client" \in fds /\ taken < arrived
        /\ taken' = taken + Len(Chunk) /\ (Started \/ HasBlankLine(RequestBytes))
    BY TurnFacts DEF Parsing, BytesArrive, RequestReading, ClientReading
  <1>2. /\ taken \in Nat /\ Len(Chunk) \in Nat /\ taken < Len(req.stream)
        /\ Len(req.stream) \in Nat /\ taken' \in Nat /\ taken <= taken'
        /\ HeaderAt \in Nat /\ taken' <= Len(req.stream)
    <2>1. /\ taken \in Nat /\ arrived \in Nat /\ arrived <= Len(req.stream)
          /\ Len(req.stream) \in Nat
      BY RequestTypes
    <2>2. Len(Chunk) \in Nat /\ taken + Len(Chunk) <= Len(req.stream)
      BY ChunkTokens
    <2>3. HeaderAt \in Nat
      BY FramedFacts DEF Meant
    <2> QED BY <1>1, <2>1, <2>2, <2>3
  <1>3. CASE Started
    <2>1. /\ req.kind = "static" /\ response = <<>> /\ HeaderAt <= taken
          /\ IsBody(body, HeaderAt, taken)
      BY <1>1, <1>3 DEF ReadOK
    <2>2. child = "none" /\ ~Streamed
      BY <2>1 DEF KindOK, OutputOK
    <2>3. sent = <<>>
      BY <1>1, <2>1, <2>2, PagesNotEmpty DEF SendOK
    <2>4. ~IsCgi
      BY <1>3 DEF IsCgi
    <2>5. Verdict.st # "error" =>
            /\ IsBody(Verdict.body, HeaderAt, taken')
            /\ Verdict.st = "done" <=> taken' = Len(req.stream)
            /\ Verdict.st \in {"more", "done"}
      <3>1. Verdict = ParseBody(req, body, Chunk)
        BY <1>3 DEF Verdict, RequestBytes
      <3>2. /\ Chunk \in Seq(Token) /\ taken + Len(Chunk) <= Len(req.stream)
            /\ \A i \in 1 .. Len(Chunk) : Chunk[i] = req.stream[taken + i]
        BY ChunkTokens
      <3>3. body \in Seq(Token)
        BY DEF TypeOK, ClientTypes
      <3>4. taken <= BodyLast
        <4>1. (Chunked => BodyLast = Len(req.stream) - 1) /\ (~Chunked => BodyLast = Len(req.stream))
          BY FramedFacts DEF Meant
        <4> QED BY <1>2, <4>1
      <3>5. ParseBody(req, body, Chunk).st # "error" =>
              /\ IsBody(ParseBody(req, body, Chunk).body, HeaderAt, taken + Len(Chunk))
              /\ ParseBody(req, body, Chunk).st = "done" <=>
                   taken + Len(Chunk) = Len(req.stream)
              /\ ParseBody(req, body, Chunk).st \in {"more", "done"}
        BY <1>2, <2>1, <3>2, <3>3, <3>4, ParseStretch DEF Meant
      <3> QED BY <1>1, <3>1, <3>5
    <2>6. HeaderAt <= taken'
      BY <1>2, <2>1
    <2> QED BY <1>1, <1>2, <2>1, <2>2, <2>3, <2>4, <2>5, <2>6
  <1>4. CASE ~Started /\ taken < HeaderAt
    <2>1. HasBlankLine(RequestBytes) /\ IsFirstRequest(RequestBytes)
      BY <1>1, <1>4, EarlyVerdict
    <2>2. /\ HeaderAt <= taken'
          /\ Verdict.st # "error" =>
               /\ IsBody(Verdict.body, HeaderAt, taken')
               /\ Verdict.st = "done" <=> taken' = Len(req.stream)
               /\ Verdict.st \in {"more", "done"}
      BY <1>1, <1>4, <2>1, FirstVerdict DEF Meant
    <2>3. response = <<>>
      BY <1>1, <1>2, <1>4 DEF ReadOK
    <2>4. ~Streamed
      <3>1. child = "none"
        BY <1>2, <1>4, ScriptIsLate DEF Meant
      <3> QED BY <3>1 DEF OutputOK
    <2>5. sent = <<>>
      BY <1>1, <2>3, <2>4, PagesNotEmpty DEF SendOK
    <2>6. IsCgi <=> req.kind = "cgi"
      BY <1>4, <2>1 DEF IsCgi
    <2> QED BY <1>1, <1>2, <2>2, <2>3, <2>4, <2>5, <2>6
  <1>5. CASE ~Started /\ ~(taken < HeaderAt)
    <2>1. HeaderAt <= taken /\ HeaderAt <= taken'
      BY <1>2, <1>5
    <2>2. Verdict.st = "error"
      BY <1>1, <1>5, <2>1, LateVerdict
    <2> QED BY <1>1, <1>2, <2>1, <2>2
  <1> QED BY <1>3, <1>4, <1>5

-------------------------------------------------------------------------------
(***************************************************************************)
(* Every step keeps the answer one.                                        *)
(***************************************************************************)

(* The request does not change, so the invariant of the next state can be  *)
(* read off its variables.                                                 *)
LEMMA SameRequest ==
  ASSUME req' = req
  PROVE  /\ Meant' <=> Meant
         /\ HeaderAt' = HeaderAt
         /\ IsBody(body, HeaderAt, taken)' <=> IsBody(body', HeaderAt, taken')
         /\ Sends(StaticPage, sent, response)' <=> Sends(StaticPage, sent', response')
         /\ Sends(LfAnswer(req), sent, response)' <=> Sends(LfAnswer(req), sent', response')
         /\ Sends(CgiAnswer(req), sent, cgi_send_pending)' <=>
              Sends(CgiAnswer(req), sent', cgi_send_pending')
  <1>1. (Meant' <=> Meant) /\ HeaderAt' = HeaderAt
    BY DEF Meant, HeaderAt
  <1>2. IsBody(body, HeaderAt, taken)' <=> IsBody(body', HeaderAt, taken')
    BY DEF IsBody, HeaderAt, BodyLast, Chunked
  <1>3. Sends(StaticPage, sent, response)' <=> Sends(StaticPage, sent', response')
    BY DEF Sends
  <1>4. Sends(LfAnswer(req), sent, response)' <=> Sends(LfAnswer(req), sent', response')
    BY DEF Sends, LfAnswer
  <1>5. Sends(CgiAnswer(req), sent, cgi_send_pending)' <=>
              Sends(CgiAnswer(req), sent', cgi_send_pending')
    BY DEF Sends, CgiAnswer
  <1> QED BY <1>1, <1>2, <1>3, <1>4, <1>5

(* ReadOK of a state in which r is the response, b the body parsed so far, *)
(* and so on, for the request of this state.                               *)
ReadIn(client, r, none, started, active, m, b) ==
  client =>
    /\ r # <<>> => HeaderAt <= m
    /\ none /\ r = <<>> /\ ~started => m < HeaderAt
    /\ started /\ ~active => /\ req.kind = "static" /\ r = <<>>
                             /\ HeaderAt <= m /\ m < Len(req.stream)
                             /\ IsBody(b, HeaderAt, m)
    /\ active => r = <<>>

LEMMA ReadNext ==
  /\ ReadOK <=> ReadIn("client" \in fds, response, child = "none", Started, Active, taken, body)
  /\ req' = req =>
       (ReadOK' <=> ReadIn("client" \in fds', response', child' = "none", Started', Active',
                           taken', body'))
  <1>1. ReadOK <=> ReadIn("client" \in fds, response, child = "none", Started, Active, taken, body)
    BY DEF ReadOK, ReadIn
  <1>2. ASSUME req' = req
        PROVE  ReadOK' <=> ReadIn("client" \in fds', response', child' = "none", Started',
                                  Active', taken', body')
    BY <1>2 DEF ReadOK, ReadIn, IsBody, HeaderAt, BodyLast, Chunked
  <1> QED BY <1>1, <1>2

AnswerParts == OneAnswer /\ ReadOK /\ SendOK /\ StreamOK

LEMMA QuietAnswer ==
  ASSUME TypeOK, EntriesOK, OnceOK, Meant, AnswerParts, Quiet PROVE AnswerParts'
  <1>1. /\ UNCHANGED <<req, sent, outRead, cgi_output, cgi_send_pending, response, body>>
        /\ Active' = Active /\ Streamed' = Streamed /\ Started' = Started
        /\ "client" \in fds' <=> "client" \in fds
        /\ child' = "none" <=> child = "none"
        /\ taken' # taken => Active /\ taken' > taken
    BY DEF Quiet
  <1>3. OneAnswer'
    BY <1>1 DEF AnswerParts, OneAnswer, StartOf, Answers
  <1>4. ReadOK'
    <2>1. child = "none" => ~Active
      BY DEF OnceOK
    <2>2. ReadIn("client" \in fds, response, child = "none", Started, Active, taken, body)
      BY ReadNext DEF AnswerParts
    <2>3. CASE taken' = taken
      BY <1>1, <2>2, <2>3, ReadNext
    <2>4. CASE taken' # taken
      <3>1. Active /\ child # "none" /\ ("client" \in fds => response = <<>>)
        BY <1>1, <2>1, <2>2, <2>4 DEF ReadIn
      <3>2. ReadIn("client" \in fds', response', child' = "none", Started', Active', taken', body')
        BY <1>1, <3>1 DEF ReadIn
      <3> QED BY <1>1, <3>2, ReadNext
    <2> QED BY <2>3, <2>4
  <1>5. SendOK'
    <2> SUFFICES ASSUME "client" \in fds, ~Streamed PROVE SendOK'
      BY <1>1 DEF SendOK
    <2>1. CASE taken' = taken
      BY <1>1, <2>1, SameRequest DEF AnswerParts, SendOK
    <2>2. CASE taken' # taken
      <3>1. response = <<>>
        BY <1>1, <2>2 DEF AnswerParts, ReadOK
      <3>2. sent = <<>>
        BY <3>1, PagesNotEmpty DEF AnswerParts, SendOK
      <3> QED BY <1>1, <3>1, <3>2 DEF SendOK
    <2> QED BY <2>1, <2>2
  <1>6. StreamOK'
    BY <1>1, SameRequest DEF AnswerParts, StreamOK
  <1> QED BY <1>3, <1>4, <1>5, <1>6 DEF AnswerParts

LEMMA RemovedAnswer ==
  ASSUME Meant, AnswerParts, Removed PROVE AnswerParts'
  <1>1. req' = req /\ sent' = sent /\ fds' = {} /\ flags' = {}
    BY DEF Removed
  <1>2. OneAnswer'
    BY <1>1 DEF AnswerParts, OneAnswer, StartOf, Answers
  <1>3. ReadOK' /\ SendOK'
    BY <1>1 DEF ReadOK, SendOK
  <1>4. StreamOK'
    BY <1>1 DEF StreamOK, Active, Streamed
  <1> QED BY <1>2, <1>3, <1>4 DEF AnswerParts

(* The answers a request may get.                                          *)
LEMMA AnswersAre ==
  ASSUME TypeOK
  PROVE  /\ ErrorPage \in Answers(req) /\ ErrorPage \in Seq(Unit) /\ Len(ErrorPage) = 1
         /\ req.kind = "static" => StaticPage \in Answers(req) /\ StaticPage \in Seq(Unit)
         /\ req.kind = "cgi" /\ 0 < req.hdr => CgiAnswer(req) \in Answers(req)
         /\ req.kind = "cgi" /\ req.lf > 0 => LfAnswer(req) \in Answers(req)
  <1>1. Len(ErrorPage) = 1
    BY DEF ErrorPage
  <1>2. req.hdr \in Nat /\ (0 < req.hdr => req.hdr > 0)
    BY RequestTypes
  <1> QED BY <1>1, <1>2, UnitTypes DEF Answers

LEMMA StreamSendAnswer ==
  ASSUME TypeOK, ConnInv, Meant, AnswerParts, StreamSend PROVE AnswerParts'
  <1>0. StdoutOK
    BY DEF ConnInv
  <1>1. PICK n \in Nat : /\ 0 < n /\ n <= Len(cgi_send_pending)
                         /\ Moves(sent, cgi_send_pending, n, sent', cgi_send_pending')
    BY <1>0, StreamSendMoves
  <1>2. /\ Streamed /\ flags' = flags
        /\ UNCHANGED <<req, taken, outRead, child, cgi_output, response, body, fds>>
    BY <1>0, StreamSendMoves
  <1>3. /\ req.kind = "cgi" /\ 0 < req.hdr /\ req.hdr <= outRead
        /\ Len(sent) + Len(cgi_send_pending) = 1 + (outRead - req.hdr)
        /\ Sends(CgiAnswer(req), sent, cgi_send_pending)
    BY <1>2 DEF AnswerParts, StreamOK
  <1>4. sent \in Seq(Unit) /\ cgi_send_pending \in Seq(Unit)
        /\ req.hdr \in Nat /\ req.out \in Nat /\ req.hdr <= req.out
    <2>1. req.hdr \in Nat /\ outRead \in Nat /\ childOut \in Nat /\ req.out \in Nat
          /\ outRead <= childOut /\ childOut <= req.out
      BY RequestTypes DEF TypeOK, KernelTypes
    <2>2. sent \in Seq(Unit) /\ cgi_send_pending \in Seq(Unit)
      BY RoomTypes, StdoutNumbers
    <2> QED BY <1>3, <2>1, <2>2
  <1>5. CgiAnswer(req) \in Seq(Unit)
    BY <1>4, ScriptAnswer DEF CgiAnswer
  <1>6. Sends(CgiAnswer(req), sent', cgi_send_pending') /\ StartOf(sent', CgiAnswer(req))
    BY <1>1, <1>3, <1>4, <1>5, SendsMoves
  <1>7. OneAnswer'
    BY <1>2, <1>3, <1>6, AnswersAre, StillOne
  <1>8. Len(sent') + Len(cgi_send_pending') = 1 + (outRead' - req.hdr)
    <2>1. /\ Len(sent') = Len(sent) + n
          /\ Len(cgi_send_pending') = Len(cgi_send_pending) - n
          /\ Len(sent) \in Nat /\ Len(cgi_send_pending) \in Nat
      BY <1>1 DEF Moves
    <2>2. Len(sent') + Len(cgi_send_pending') = Len(sent) + Len(cgi_send_pending)
      BY <1>1, <2>1
    <2> QED BY <1>2, <1>3, <2>2
  <1>9. StreamOK'
    BY <1>2, <1>3, <1>6, <1>8, SameRequest DEF StreamOK, Streamed
  <1>10. ReadOK'
    BY <1>2, ReadNext DEF AnswerParts, Active, Started
  <1>11. SendOK'
    BY <1>2 DEF SendOK, Streamed
  <1> QED BY <1>7, <1>9, <1>10, <1>11 DEF AnswerParts

LEMMA ResponseSendAnswer ==
  ASSUME TypeOK, ConnInv, Meant, AnswerParts, ResponseSend PROVE AnswerParts'
  <1>1. PICK n \in Nat, q \in Seq(Unit) :
            /\ 0 < n /\ n <= Len(response) /\ Moves(sent, response, n, sent', q)
            /\ \/ /\ response' = q /\ fds' = fds /\ flags' = flags
                  /\ n < Len(response)
                  /\ UNCHANGED <<child, cgi_output, cgi_send_pending, body, events, why>>
               \/ /\ n = Len(response) /\ fds' = {} /\ flags' = {}
                  /\ response' = <<>> /\ cgi_send_pending' = <<>>
                  /\ child' = Reap /\ why' = "done"
    BY ResponseSendMoves, Zenon
  <1>2. /\ ~Active /\ ~Streamed /\ "client" \in fds
        /\ UNCHANGED <<req, taken, outRead>>
    BY ResponseSendMoves
  <1>3. /\ sent \in Seq(Unit) /\ response \in Seq(Unit)
        /\ req.lf \in Nat /\ req.out \in Nat
    BY RoomTypes, RequestTypes DEF TypeOK, ClientTypes
  <1>4. response # <<>> /\ Len(response) \in Nat /\ Len(response) > 0
    <2>1. Len(response) \in Nat /\ Len(response) > 0
      BY <1>1, <1>3
    <2> QED BY <2>1, EmptySeq
  <1>5. ASSUME NEW a \in Answers(req), a \in Seq(Unit), Sends(a, sent, response)
        PROVE  OneAnswer' /\ Sends(a, sent', q)
    <2>1. Sends(a, sent', q) /\ StartOf(sent', a)
      BY <1>1, <1>3, <1>5, SendsMoves
    <2> QED BY <1>2, <1>5, <2>1, StillOne
  <1>6. StreamOK'
    <2>1. ~Active' /\ ~Streamed'
      BY <1>1, <1>2 DEF Active, Streamed
    <2> QED BY <2>1 DEF StreamOK
  <1>7. q # <<>> \/ fds' = {}
    <2>1. CASE n < Len(response)
      <3>1. Len(q) = Len(response) - n
        BY <1>1 DEF Moves
      <3>2. Len(q) # 0
        BY <1>1, <1>4, <2>1, <3>1
      <3> QED BY <3>2, EmptySeq
    <2>2. CASE fds' = {}
      BY <2>2
    <2> QED BY <1>1, <2>1, <2>2
  <1>8. ASSUME fds' # {}
        PROVE  /\ response' = q /\ q # <<>> /\ fds' = fds /\ flags' = flags
               /\ child' = child /\ body' = body /\ n < Len(response)
    BY <1>1, <1>7, <1>8
  <1>9. ReadOK'
    <2>1. CASE fds' = {}
      BY <2>1 DEF ReadOK
    <2>2. CASE fds' # {}
      <3>1. UNCHANGED <<req, taken, fds, flags, child, body>> /\ response' # <<>>
        BY <1>2, <1>8, <2>2
      <3>2. ReadIn("client" \in fds, response, child = "none", Started, Active, taken, body)
        BY ReadNext DEF AnswerParts
      <3>3. ReadIn("client" \in fds, response', child = "none", Started, Active, taken, body)
        BY <1>2, <1>4, <3>1, <3>2 DEF ReadIn
      <3> QED BY <3>1, <3>3, ReadNext DEF Active, Started
    <2> QED BY <2>1, <2>2
  <1>10. CASE response = ErrorPage /\ sent = <<>>
    <2>1. Sends(ErrorPage, sent, response)
      <3>1. Len(sent) = 0 /\ Len(response) = 1
        BY <1>10, AnswersAre, EmptySeq
      <3>2. \A i \in 1 .. Len(response) : 0 + i = i
        BY <3>1
      <3> QED BY <1>10, <3>1, <3>2 DEF Sends
    <2>2. OneAnswer'
      BY <1>5, <2>1, AnswersAre
    <2>3. fds' = {}
      <3>1. ~(n < Len(response))
        <4>1. Len(response) = 1
          BY <1>10, AnswersAre
        <4> QED BY <1>1, <4>1
      <3> QED BY <1>8, <3>1
    <2>4. SendOK'
      BY <2>3 DEF SendOK
    <2> QED BY <1>6, <1>9, <2>2, <2>4 DEF AnswerParts
  <1>11. CASE /\ req.kind = "static" /\ taken = Len(req.stream)
              /\ Sends(StaticPage, sent, response)
    <2>1. OneAnswer' /\ Sends(StaticPage, sent', q)
      BY <1>5, <1>11, AnswersAre
    <2>2. SendOK'
      <3>1. CASE fds' = {}
        BY <3>1 DEF SendOK
      <3>2. CASE fds' # {}
        BY <1>2, <1>8, <1>11, <2>1, <3>2, SameRequest DEF SendOK
      <3> QED BY <3>1, <3>2
    <2> QED BY <1>6, <1>9, <2>1, <2>2 DEF AnswerParts
  <1>12. CASE /\ req.kind = "cgi" /\ req.lf > 0 /\ taken = Len(req.stream)
              /\ Sends(LfAnswer(req), sent, response)
    <2>1. LfAnswer(req) \in Seq(Unit)
      <3>1. <<HttpHeader>> \in Seq(Unit)
        BY UnitTypes
      <3>2. CgiUnits(req.lf, req.out) \in Seq(Unit)
        <4>1. CASE req.lf <= req.out
          BY <1>3, <4>1, CgiUnitsAre
        <4>2. CASE ~(req.lf <= req.out)
          <5>1. 1 .. (req.out - req.lf) = {} /\ 1 .. 0 = {}
            BY <1>3, <4>2
          <5>2. CgiUnits(req.lf, req.out) \in [1 .. 0 -> Unit]
            BY <5>1 DEF CgiUnits
          <5> QED BY <5>2
        <4> QED BY <4>1, <4>2
      <3> QED BY <3>1, <3>2, ConcatJoins DEF LfAnswer, Joins
    <2>2. OneAnswer' /\ Sends(LfAnswer(req), sent', q)
      BY <1>5, <1>12, <2>1, AnswersAre
    <2>3. SendOK'
      <3>1. CASE fds' = {}
        BY <3>1 DEF SendOK
      <3>2. CASE fds' # {}
        BY <1>2, <1>8, <1>12, <2>2, <3>2, SameRequest DEF SendOK
      <3> QED BY <3>1, <3>2
    <2> QED BY <1>6, <1>9, <2>2, <2>3 DEF AnswerParts
  <1> QED BY <1>2, <1>4, <1>10, <1>11, <1>12 DEF AnswerParts, SendOK

LEMMA CgiOutputAnswer ==
  ASSUME TypeOK, ConnInv, OnceOK, KindOK, OutputOK, Meant, AnswerParts, CgiOutput
  PROVE  AnswerParts'
  <1>1. PICK n \in Nat, units \in Seq(Unit) :
           /\ 0 < n /\ outRead' = outRead + n /\ outRead' <= childOut
           /\ Len(units) = n /\ \A i \in 1 .. n : units[i] = CgiUnit(outRead + i)
           /\ Active /\ Active' /\ (Started' <=> Started) /\ "client" \in fds /\ fds' = fds
           /\ UNCHANGED <<req, taken, sent, childOut, child, response, body, why>>
           /\ \/ /\ Streamed /\ Streamed'
                 /\ Joins(cgi_send_pending', cgi_send_pending, units)
              \/ /\ ~Streamed /\ Joins(cgi_output', cgi_output, units)
                 /\ \/ /\ ~Streamed' /\ cgi_send_pending' = cgi_send_pending
                    \/ /\ Streamed' /\ 0 < req.hdr /\ req.hdr <= Len(cgi_output')
                       /\ cgi_send_pending' \in Seq(Unit)
                       /\ Len(cgi_send_pending') = 1 + (Len(cgi_output') - req.hdr)
                       /\ cgi_send_pending'[1] = HttpHeader
                       /\ \A i \in 1 .. (Len(cgi_output') - req.hdr) :
                            cgi_send_pending'[1 + i] = cgi_output'[req.hdr + i]
    BY CgiOutputMoves, Zenon
  <1>2. /\ outRead \in Nat /\ outRead' \in Nat /\ req.hdr \in Nat /\ req.out \in Nat
        /\ outRead' <= req.out /\ Len(sent) \in Nat /\ Len(cgi_output) \in Nat
        /\ Len(cgi_send_pending) \in Nat
    <2>1. /\ outRead \in Nat /\ childOut \in Nat /\ req.hdr \in Nat /\ req.out \in Nat
          /\ childOut <= req.out
      BY RequestTypes DEF TypeOK, KernelTypes
    <2>2. Len(sent) \in Nat /\ Len(cgi_output) \in Nat /\ Len(cgi_send_pending) \in Nat
      BY RoomTypes, StdoutNumbers
    <2> QED BY <1>1, <2>1, <2>2
  <1>3. req.kind = "cgi"
    BY <1>1 DEF OnceOK, KindOK
  <1>4. OneAnswer'
    BY <1>1 DEF AnswerParts, OneAnswer, StartOf, Answers
  <1>5. ReadOK'
    <2>1. UNCHANGED <<req, taken, fds, child, response, body>>
      BY <1>1
    <2>2. ReadIn("client" \in fds, response, child = "none", Started, Active, taken, body)
      BY ReadNext DEF AnswerParts
    <2>3. ReadIn("client" \in fds', response', child' = "none", Started', Active', taken', body')
      BY <1>1, <2>1, <2>2 DEF ReadIn
    <2> QED BY <2>1, <2>3, ReadNext
  <1>6. SendOK'
    BY <1>1, SameRequest DEF AnswerParts, SendOK
  <1>7. CASE Streamed
    <2>1. /\ 0 < req.hdr /\ req.hdr <= outRead
          /\ Len(sent) + Len(cgi_send_pending) = 1 + (outRead - req.hdr)
          /\ Sends(CgiAnswer(req), sent, cgi_send_pending)
      BY <1>7 DEF AnswerParts, StreamOK
    <2>2. /\ Streamed' /\ Joins(cgi_send_pending', cgi_send_pending, units)
      BY <1>1, <1>7
    <2>3. Len(cgi_send_pending') = Len(cgi_send_pending) + n
      BY <1>1, <2>2 DEF Joins
    <2> DEFINE a == CgiAnswer(req)
    <2>4. /\ a \in Seq(Unit) /\ Len(a) = 1 + (req.out - req.hdr)
          /\ \A i \in 1 .. (req.out - req.hdr) : a[1 + i] = CgiUnit(req.hdr + i)
      <3>1. req.hdr <= req.out
        BY <1>1, <1>2, <2>1
      <3> QED BY <1>2, <3>1, ScriptAnswer DEF CgiAnswer
    <2> HIDE DEF a
    <2>5. Len(sent) + Len(cgi_send_pending') = 1 + (outRead' - req.hdr)
      <3> DEFINE Grow(b, c, d, e, h) ==
             b + c = 1 + (d - h) => b + (c + e) = 1 + ((d + e) - h)
      <3>1. \A b, c, d, e, h \in Nat : Grow(b, c, d, e, h)
        OBVIOUS
      <3> HIDE DEF Grow
      <3>2. Grow(Len(sent), Len(cgi_send_pending), outRead, n, req.hdr)
        BY <1>2, <3>1, Zenon
      <3> QED BY <1>1, <2>1, <2>3, <3>2, Zenon DEF Grow
    <2>6. Len(sent) + Len(cgi_send_pending') <= Len(a)
      BY <1>2, <2>4, <2>5
    <2>7. ASSUME NEW i \in 1 .. Len(cgi_send_pending')
          PROVE  cgi_send_pending'[i] = a[Len(sent) + i]
      <3>1. CASE i \in 1 .. Len(cgi_send_pending)
        <4>1. cgi_send_pending'[i] = cgi_send_pending[i]
          BY <2>2, <3>1 DEF Joins
        <4>2. cgi_send_pending[i] = a[Len(sent) + i]
          BY <2>1, <3>1 DEF Sends, a
        <4> QED BY <4>1, <4>2
      <3>2. CASE i \notin 1 .. Len(cgi_send_pending)
        <4> DEFINE j == i - Len(cgi_send_pending)
                   k == (outRead - req.hdr) + j
        <4>1. /\ j \in 1 .. n /\ j \in 1 .. Len(units) /\ i = Len(cgi_send_pending) + j
              /\ j \in Nat
          BY <1>1, <1>2, <2>3, <3>2
        <4>2. cgi_send_pending'[Len(cgi_send_pending) + j] = units[j]
          BY <2>2, <4>1 DEF Joins
        <4>3. units[j] = CgiUnit(outRead + j)
          BY <1>1, <4>1
        <4> HIDE DEF j
        <4>4. /\ k \in 1 .. (req.out - req.hdr) /\ req.hdr + k = outRead + j
              /\ Len(sent) + i = 1 + k
          <5> DEFINE At(b, c, d, h, o, m, x, y) ==
                 (/\ b + c = 1 + (d - h) /\ h <= d /\ d + m <= o /\ y \in 1 .. m /\ x = c + y)
                   => /\ (d - h) + y \in 1 .. (o - h) /\ h + ((d - h) + y) = d + y
                      /\ b + x = 1 + ((d - h) + y)
          <5>1. \A b, c, d, h, o, m, x, y \in Nat : At(b, c, d, h, o, m, x, y)
            OBVIOUS
          <5>2. i \in Nat
            BY <1>2, <4>1
          <5>3. outRead + n <= req.out
            BY <1>1, <1>2
          <5> HIDE DEF At
          <5>4. At(Len(sent), Len(cgi_send_pending), outRead, req.hdr, req.out, n, i, j)
            BY <1>2, <4>1, <5>1, <5>2, Zenon
          <5> QED BY <2>1, <4>1, <5>3, <5>4, Zenon DEF At
        <4>5. a[1 + k] = CgiUnit(req.hdr + k)
          BY <2>4, <4>4
        <4> QED BY <4>1, <4>2, <4>3, <4>4, <4>5
      <3> QED BY <3>1, <3>2
    <2>8. Sends(CgiAnswer(req), sent', cgi_send_pending')
      <3>1. \A i \in 1 .. Len(sent) : sent[i] = a[i]
        BY <2>1 DEF Sends, a
      <3> QED BY <1>1, <2>6, <2>7, <3>1 DEF Sends, a
    <2>9. req.hdr <= outRead'
      BY <1>1, <1>2, <2>1
    <2>10. StreamOK'
      BY <1>1, <1>3, <2>1, <2>2, <2>5, <2>8, <2>9, SameRequest DEF StreamOK
    <2> QED BY <1>4, <1>5, <1>6, <2>10 DEF AnswerParts
  <1>8. CASE ~Streamed
    <2>1. /\ Joins(cgi_output', cgi_output, units) /\ Len(cgi_output) = outRead
          /\ \A i \in 1 .. Len(cgi_output) : cgi_output[i] = CgiUnit(i)
      BY <1>1, <1>8 DEF AnswerParts, StreamOK, OutputOK
    <2>2. /\ Len(cgi_output') = outRead'
          /\ \A i \in 1 .. Len(cgi_output') : cgi_output'[i] = CgiUnit(i)
      <3>1. Len(cgi_output') = outRead'
        BY <1>1, <2>1 DEF Joins
      <3>2. ASSUME NEW i \in 1 .. Len(cgi_output') PROVE cgi_output'[i] = CgiUnit(i)
        <4>1. CASE i \in 1 .. Len(cgi_output)
          BY <2>1, <4>1 DEF Joins
        <4>2. CASE i \notin 1 .. Len(cgi_output)
          <5> DEFINE j == i - Len(cgi_output)
          <5>1. j \in 1 .. n /\ j \in 1 .. Len(units) /\ i = Len(cgi_output) + j
                /\ outRead + j = i
            BY <1>1, <1>2, <2>1, <3>1, <4>2
          <5>2. cgi_output'[Len(cgi_output) + j] = units[j]
            BY <2>1, <5>1 DEF Joins
          <5>3. units[j] = CgiUnit(outRead + j)
            BY <1>1, <5>1
          <5> QED BY <5>1, <5>2, <5>3
        <4> QED BY <4>1, <4>2
      <3> QED BY <3>1, <3>2
    <2>3. CASE ~Streamed'
      <3>1. StreamOK'
        BY <2>2, <2>3 DEF StreamOK
      <3> QED BY <1>4, <1>5, <1>6, <3>1 DEF AnswerParts
    <2>4. CASE Streamed'
      <3>1. /\ 0 < req.hdr /\ req.hdr <= outRead'
            /\ Len(cgi_send_pending') = 1 + (outRead' - req.hdr)
            /\ cgi_send_pending'[1] = HttpHeader
            /\ \A i \in 1 .. (outRead' - req.hdr) :
                 cgi_send_pending'[1 + i] = cgi_output'[req.hdr + i]
        BY <1>1, <1>8, <2>2, <2>4
      <3>2. sent = <<>> /\ Len(sent) = 0
        <4>1. response = <<>>
          BY <1>1 DEF AnswerParts, ReadOK
        <4> QED BY <1>1, <1>8, <4>1, PagesNotEmpty, EmptySeq DEF AnswerParts, SendOK
      <3> DEFINE a == CgiAnswer(req)
      <3>3. /\ a \in Seq(Unit) /\ Len(a) = 1 + (req.out - req.hdr) /\ a[1] = HttpHeader
            /\ \A i \in 1 .. (req.out - req.hdr) : a[1 + i] = CgiUnit(req.hdr + i)
        <4>1. req.hdr <= req.out
          <5>1. req.hdr <= outRead'
            BY <3>1, Zenon
          <5> QED BY <1>2, <5>1
        <4> QED BY <1>2, <4>1, ScriptAnswer DEF CgiAnswer
      <3> HIDE DEF a
      <3>4. ASSUME NEW i \in 1 .. Len(cgi_send_pending')
            PROVE  cgi_send_pending'[i] = a[i]
        <4>1. CASE i = 1
          BY <3>1, <3>3, <4>1
        <4>2. CASE i # 1
          <5> DEFINE k == i - 1
          <5>1. /\ k \in 1 .. (outRead' - req.hdr) /\ k \in 1 .. (req.out - req.hdr)
                /\ i = 1 + k /\ req.hdr + k \in 1 .. outRead'
            <6> DEFINE At(x, d, h, o) ==
                   (/\ x \in 1 .. (1 + (d - h)) /\ x # 1 /\ 0 < h /\ h <= d /\ d <= o)
                     => /\ x - 1 \in 1 .. (d - h) /\ x - 1 \in 1 .. (o - h)
                        /\ x = 1 + (x - 1) /\ h + (x - 1) \in 1 .. d
            <6>1. \A x, d, h, o \in Nat : At(x, d, h, o)
              OBVIOUS
            <6>2. i \in 1 .. (1 + (outRead' - req.hdr))
              BY <3>1
            <6>3. i \in Nat
              BY ONLY <3>4
            <6> HIDE DEF At
            <6>4. At(i, outRead', req.hdr, req.out)
              BY <1>2, <6>1, <6>3, Zenon
            <6> QED BY <1>2, <3>1, <4>2, <6>2, <6>4, Zenon DEF At
          <5> HIDE DEF k
          <5>2. cgi_send_pending'[1 + k] = cgi_output'[req.hdr + k]
            BY <3>1, <5>1
          <5>3. cgi_output'[req.hdr + k] = CgiUnit(req.hdr + k)
            BY <2>2, <5>1
          <5>4. a[1 + k] = CgiUnit(req.hdr + k)
            BY <3>3, <5>1
          <5> QED BY <5>1, <5>2, <5>3, <5>4
        <4> QED BY <4>1, <4>2
      <3>5. Sends(CgiAnswer(req), sent', cgi_send_pending')
        <4>1. Len(cgi_send_pending') <= Len(a) /\ Len(cgi_send_pending') \in Nat
          BY <1>2, <3>1, <3>3
        <4>2. sent' = <<>> /\ Len(sent') = 0 /\ 0 + Len(cgi_send_pending') <= Len(a)
          BY <1>1, <3>2, <4>1
        <4>3. \A i \in 1 .. Len(cgi_send_pending') : cgi_send_pending'[i] = a[0 + i]
          <5>1. \A i \in 1 .. Len(cgi_send_pending') : 0 + i = i
            BY <4>1
          <5> QED BY <3>4, <5>1
        <4> QED BY <4>2, <4>3 DEF Sends, a
      <3>6. Len(sent') + Len(cgi_send_pending') = 1 + (outRead' - req.hdr)
        BY <1>1, <1>2, <3>1, <3>2
      <3>7. StreamOK'
        BY <1>1, <1>3, <2>4, <3>1, <3>5, <3>6, SameRequest DEF StreamOK
      <3> QED BY <1>4, <1>5, <1>6, <3>7 DEF AnswerParts
    <2> QED BY <2>3, <2>4
  <1> QED BY <1>7, <1>8

(* The end of the script's output: the answer made of it starts where the  *)
(* header block ends.                                                      *)
LEMMA FinalAnswer ==
  ASSUME TypeOK, ConnInv, OnceOK, KindOK, OutputOK, Meant, AnswerParts, finalize_cgi
  PROVE  AnswerParts'
  <1>0. TypeOK /\ EntriesOK
    BY DEF ConnInv
  <1>1. Active /\ "client" \in fds
    BY <1>0, TurnFacts DEF finalize_cgi
  <1>2. /\ UNCHANGED <<req, taken, sent, outRead, cgi_output, cgi_send_pending>>
        /\ flags' = flags \ {"cgi_active", "request_started"} /\ child' = Reap
        /\ fds' = fds \ {"out", "in"} /\ outRead = childOut
        /\ response' = IF Streamed THEN response ELSE FinalResponse
    BY DEF finalize_cgi
  <1>3. ~Active' /\ ~Started' /\ (Streamed' <=> Streamed) /\ "client" \in fds'
    BY <1>1, <1>2 DEF Active, Started, Streamed
  <1>4. child # "none" /\ child' # "none" /\ req.kind = "cgi"
    BY <1>1, <1>2 DEF OnceOK, KindOK, Reap
  <1>5. HeaderAt <= taken
    BY <1>4, ScriptIsLate DEF Meant
  <1>6. response = <<>>
    BY <1>1 DEF AnswerParts, ReadOK
  <1>7. OneAnswer'
    BY <1>2 DEF AnswerParts, OneAnswer, StartOf, Answers
  <1>8. ReadOK'
    <2>1. ReadIn("client" \in fds', response', child' = "none", Started', Active', taken', body')
      BY <1>2, <1>3, <1>4, <1>5 DEF ReadIn
    <2> QED BY <1>2, <2>1, ReadNext
  <1>9. StreamOK'
    BY <1>2, <1>3, SameRequest DEF AnswerParts, StreamOK
  <1>10. CASE Streamed
    <2>1. SendOK'
      BY <1>3, <1>10 DEF SendOK
    <2> QED BY <1>7, <1>8, <1>9, <2>1 DEF AnswerParts
  <1>11. CASE ~Streamed /\ FinalResponse = ErrorPage
    <2>1. sent = <<>>
      BY <1>1, <1>6, <1>11, PagesNotEmpty DEF AnswerParts, SendOK
    <2>2. SendOK'
      BY <1>2, <1>11, <2>1 DEF SendOK
    <2> QED BY <1>7, <1>8, <1>9, <2>2 DEF AnswerParts
  <1>12. CASE ~Streamed /\ FinalResponse # ErrorPage
    <2>1. sent = <<>> /\ Len(<<>>) = 0
      BY <1>1, <1>6, <1>12, PagesNotEmpty, EmptySeq DEF AnswerParts, SendOK
    <2>2. /\ req.lf > 0 /\ Len(cgi_output) >= req.lf
          /\ response' = <<HttpHeader>> \o Drop(cgi_output, req.lf)
      BY <1>2, <1>12 DEF FinalResponse
    <2>3. /\ Len(cgi_output) = outRead
          /\ \A i \in 1 .. Len(cgi_output) : cgi_output[i] = CgiUnit(i)
      BY <1>1, <1>12 DEF AnswerParts, StreamOK, OutputOK
    <2>4. /\ req.lf \in Nat /\ req.out \in Nat /\ outRead \in Nat /\ req.lf <= outRead
          /\ outRead <= req.out /\ req.lf <= req.out
          /\ req.lf \in 0 .. Len(cgi_output) /\ cgi_output \in Seq(Unit)
      <3>1. req.lf \in Nat /\ req.out \in Nat /\ outRead \in Nat /\ childOut <= req.out
            /\ cgi_output \in Seq(Unit)
        BY RequestTypes, StdoutNumbers DEF TypeOK, KernelTypes
      <3> QED BY <1>2, <2>2, <2>3, <3>1
    <2> DEFINE a == LfAnswer(req)
               h == <<HttpHeader>>
               d == Drop(cgi_output, req.lf)
    <2>5. /\ a \in Seq(Unit) /\ Len(a) = 1 + (req.out - req.lf) /\ a[1] = HttpHeader
          /\ \A i \in 1 .. (req.out - req.lf) : a[1 + i] = CgiUnit(req.lf + i)
      BY <2>4, ScriptAnswer DEF LfAnswer
    <2>6. /\ d \in Seq(Unit) /\ Len(d) = Len(cgi_output) - req.lf
          /\ \A i \in 1 .. (Len(cgi_output) - req.lf) : d[i] = cgi_output[req.lf + i]
      <3>1. \A q \in Seq(Unit) : \A k \in 0 .. Len(q) :
              /\ Drop(q, k) \in Seq(Unit) /\ Len(Drop(q, k)) = Len(q) - k
              /\ \A i \in 1 .. (Len(q) - k) : Drop(q, k)[i] = q[k + i]
        BY TakeDrop
      <3> QED BY <2>4, <3>1, Zenon
    <2>7. h \in Seq(Unit) /\ Len(h) = 1 /\ h[1] = HttpHeader
      BY UnitTypes
    <2>8. response' = h \o d
      BY <2>2
    <2> HIDE DEF a, h, d
    <2>9. Joins(response', h, d)
      BY <2>6, <2>7, <2>8, ConcatJoins
    <2>10. /\ Len(response') = 1 + (outRead - req.lf) /\ response'[1] = HttpHeader
           /\ \A i \in 1 .. (outRead - req.lf) : response'[1 + i] = cgi_output[req.lf + i]
      BY <2>3, <2>6, <2>7, <2>9 DEF Joins
    <2>11. ASSUME NEW i \in 1 .. Len(response') PROVE response'[i] = a[i]
      <3>1. CASE i = 1
        BY <2>5, <2>10, <3>1
      <3>2. CASE i # 1
        <4> DEFINE k == i - 1
        <4>1. /\ k \in 1 .. (outRead - req.lf) /\ k \in 1 .. (req.out - req.lf)
              /\ i = 1 + k /\ req.lf + k \in 1 .. outRead
          <5> DEFINE At(x, m, l, o) ==
                 (/\ x \in 1 .. (1 + (m - l)) /\ x # 1 /\ l <= m /\ m <= o)
                   => /\ x - 1 \in 1 .. (m - l) /\ x - 1 \in 1 .. (o - l)
                      /\ x = 1 + (x - 1) /\ l + (x - 1) \in 1 .. m
          <5>1. \A x, m, l, o \in Nat : At(x, m, l, o)
            OBVIOUS
          <5>2. i \in 1 .. (1 + (outRead - req.lf))
            BY <2>10
          <5>3. i \in Nat
            BY ONLY <2>11
          <5> HIDE DEF At
          <5>4. At(i, outRead, req.lf, req.out)
            BY <2>4, <5>1, <5>3, Zenon
          <5> QED BY <2>4, <3>2, <5>2, <5>4, Zenon DEF At
        <4> HIDE DEF k
        <4>2. response'[1 + k] = cgi_output[req.lf + k]
          BY <2>10, <4>1
        <4>3. cgi_output[req.lf + k] = CgiUnit(req.lf + k)
          BY <2>3, <4>1
        <4>4. a[1 + k] = CgiUnit(req.lf + k)
          BY <2>5, <4>1
        <4> QED BY <4>1, <4>2, <4>3, <4>4
      <3> QED BY <3>1, <3>2
    <2>12. Sends(LfAnswer(req), sent', response')
      <3>1. Len(response') \in Nat /\ Len(response') <= Len(a)
        <4> DEFINE Fits(m, l, o) ==
               l <= m /\ m <= o => 1 + (m - l) \in Nat /\ 1 + (m - l) <= 1 + (o - l)
        <4>1. \A m, l, o \in Nat : Fits(m, l, o)
          OBVIOUS
        <4> HIDE DEF Fits
        <4>2. Fits(outRead, req.lf, req.out)
          BY <2>4, <4>1, Zenon
        <4> QED BY <2>4, <2>5, <2>10, <4>2, Zenon DEF Fits
      <3>2. sent' = <<>> /\ Len(sent') = 0 /\ 0 + Len(response') <= Len(a)
        BY <1>2, <2>1, <3>1
      <3>3. \A i \in 1 .. Len(response') : response'[i] = a[0 + i]
        <4>1. \A i \in 1 .. Len(response') : 0 + i = i
          BY <3>1
        <4> QED BY <2>11, <4>1
      <3> QED BY <3>2, <3>3 DEF Sends, a
    <2>13. response' # <<>>
      BY <1>2, <1>12, PagesNotEmpty
    <2>14. taken = Len(req.stream)
      <3>1. Len(req.stream) = HeaderAt
        BY <2>2 DEF Meant, BodyIsInert, HeaderAt
      <3>2. taken \in Nat /\ Len(req.stream) \in Nat /\ taken <= Len(req.stream)
        BY RequestTypes
      <3> QED BY <1>5, <3>1, <3>2
    <2>15. SendOK'
      BY <1>2, <1>4, <2>2, <2>12, <2>13, <2>14, SameRequest DEF SendOK
    <2> QED BY <1>7, <1>8, <1>9, <2>15 DEF AnswerParts
  <1> QED BY <1>10, <1>11, <1>12

(* A read while the answer waits to be sent, or before there is one.       *)
LEMMA UnansweredRead ==
  ASSUME TypeOK, "client" \in fds, taken < Len(req.stream), SendOK, ~Streamed
  PROVE  sent = <<>> /\ (response = <<>> \/ response = ErrorPage)
  <1>1. taken # Len(req.stream)
    BY RequestTypes
  <1> QED BY <1>1 DEF SendOK

LEMMA AwaitHeadersAnswer ==
  ASSUME TypeOK, EntriesOK, BufferOK, Meant, AnswerParts, AwaitHeaders
  PROVE  AnswerParts'
  <1>1. /\ UNCHANGED <<req, sent, outRead, child, fds, flags, response, cgi_output,
                       cgi_send_pending, body>>
        /\ ~Active /\ ~Started /\ "client" \in fds /\ taken < arrived
        /\ taken' = taken + Len(Chunk) /\ ~HasBlankLine(RequestBytes)
    BY TurnFacts DEF AwaitHeaders, BytesArrive, RequestReading, ClientReading
  <1>2. /\ taken \in Nat /\ Len(Chunk) \in Nat /\ HeaderAt \in Nat
        /\ taken < Len(req.stream) /\ taken' \in Nat /\ taken <= taken'
    <2>1. taken \in Nat /\ arrived \in Nat /\ arrived <= Len(req.stream) /\ Len(req.stream) \in Nat
      BY RequestTypes
    <2>2. Len(Chunk) \in Nat /\ HeaderAt \in Nat
      BY ChunkTokens, FramedFacts DEF Meant
    <2> QED BY <1>1, <2>1, <2>2
  <1>3. ~Active' /\ ~Started' /\ (Streamed' <=> Streamed) /\ "client" \in fds'
    BY <1>1 DEF Active, Started, Streamed
  <1>4. OneAnswer'
    BY <1>1 DEF AnswerParts, OneAnswer, StartOf, Answers
  <1>5. StreamOK'
    BY <1>1, <1>3, SameRequest DEF AnswerParts, StreamOK
  <1>6. SendOK'
    <2>1. ~Streamed => sent = <<>> /\ (response = <<>> \/ response = ErrorPage)
      BY <1>1, <1>2, UnansweredRead DEF AnswerParts
    <2> QED BY <1>1, <1>3, <2>1 DEF SendOK
  <1>7. taken < HeaderAt => taken' < HeaderAt
    <2> SUFFICES ASSUME taken < HeaderAt, HeaderAt <= taken' PROVE FALSE
      BY <1>2
    <2> DEFINE j == HeaderAt - (taken - Len(buffer))
    <2>1. /\ j \in Nat /\ j > 0
          /\ j <= Len(RequestBytes) <=> HeaderAt <= taken + Len(Chunk)
          /\ j <= Len(RequestBytes) => RequestBytes[j].t \in BlankLine
      BY <1>1, HeaderIndex
    <2> HIDE DEF j
    <2>2. RequestBytes \in Seq(Token) /\ Len(RequestBytes) \in Nat
      BY <1>1, BytesTokens
    <2>3. j \in DOMAIN RequestBytes /\ RequestBytes[j].t \in BlankLine
      BY <1>1, <2>1, <2>2
    <2> QED BY <1>1, <2>3 DEF HasBlankLine
  <1>8. ReadOK'
    <2>1. ReadIn("client" \in fds, response, child = "none", Started, Active, taken, body)
      BY ReadNext DEF AnswerParts
    <2>2. response # <<>> => HeaderAt <= taken'
      BY <1>1, <1>2, <2>1 DEF ReadIn
    <2>3. ReadIn("client" \in fds', response', child' = "none", Started', Active', taken', body')
      BY <1>1, <1>3, <1>7, <2>1, <2>2 DEF ReadIn
    <2> QED BY <1>1, <2>3, ReadNext
  <1> QED BY <1>4, <1>5, <1>6, <1>8 DEF AnswerParts

LEMMA ParsedAnswer ==
  ASSUME TypeOK, EntriesOK, BufferOK, OnceOK, KindOK, OutputOK, Meant, AnswerParts,
         RejectRequest \/ AwaitBody \/ AnswerRequest \/ DispatchFails \/ dispatch_cgi
  PROVE  AnswerParts'
  <1>1. Parsing /\ req' = req /\ sent' = sent
    BY DEF RejectRequest, AwaitBody, AnswerRequest, DispatchFails, RespondWith, dispatch_cgi
  <1>2. /\ ~Active /\ "client" \in fds /\ taken < Len(req.stream)
        /\ taken' = taken + Len(Chunk) /\ HeaderAt <= taken'
        /\ Verdict.st # "error" =>
             /\ IsBody(Verdict.body, HeaderAt, taken')
             /\ Verdict.st = "done" <=> taken' = Len(req.stream)
             /\ Verdict.st \in {"more", "done"} /\ taken' <= Len(req.stream)
             /\ IsCgi <=> req.kind = "cgi"
             /\ response = <<>> /\ sent = <<>> /\ ~Streamed
    BY <1>1, Verdicts DEF AnswerParts
  <1>3. taken' \in Nat /\ Len(req.stream) \in Nat
    <2>1. taken \in Nat /\ Len(Chunk) \in Nat /\ Len(req.stream) \in Nat
      BY RequestTypes, ChunkTokens
    <2> QED BY <1>2, <2>1
  <1>4. OneAnswer'
    BY <1>1 DEF AnswerParts, OneAnswer, StartOf, Answers
  <1>5. req.kind \in {"cgi", "static"}
    BY RequestTypes DEF Meant, WellFramed, Request
  <1>6. CASE RejectRequest
    <2>1. /\ UNCHANGED <<outRead, child, fds, cgi_output, cgi_send_pending>>
          /\ response' = ErrorPage /\ flags' = flags \ {"request_started"}
      BY <1>6 DEF RejectRequest
    <2>2. ~Active' /\ ~Started' /\ (Streamed' <=> Streamed) /\ "client" \in fds'
      BY <1>2, <2>1 DEF Active, Started, Streamed
    <2>3. ~Streamed => sent = <<>>
      BY <1>2, UnansweredRead DEF AnswerParts
    <2>4. SendOK'
      BY <1>1, <2>1, <2>2, <2>3 DEF SendOK
    <2>5. StreamOK'
      BY <1>1, <2>1, <2>2, SameRequest DEF AnswerParts, StreamOK
    <2>6. ReadIn("client" \in fds', response', child' = "none", Started', Active', taken', body')
      BY <1>2, <2>1, <2>2, PagesNotEmpty DEF ReadIn
    <2> QED BY <1>1, <1>4, <2>4, <2>5, <2>6, ReadNext DEF AnswerParts
  <1>7. CASE AwaitBody
    <2>1. /\ UNCHANGED <<outRead, child, fds, cgi_output, cgi_send_pending, response>>
          /\ Verdict.st = "more" /\ ~IsCgi /\ body' = Verdict.body
          /\ flags' = flags \cup {"request_started"}
      BY <1>7 DEF AwaitBody
    <2>2. ~Active' /\ Started' /\ ~Streamed' /\ "client" \in fds'
      BY <1>2, <2>1 DEF Active, Started, Streamed
    <2>3. /\ req.kind = "static" /\ response' = <<>> /\ sent' = <<>>
          /\ taken' < Len(req.stream) /\ IsBody(body', HeaderAt, taken')
      <3>1. /\ IsBody(Verdict.body, HeaderAt, taken') /\ taken' # Len(req.stream)
            /\ taken' <= Len(req.stream) /\ req.kind # "cgi"
            /\ response = <<>> /\ sent = <<>>
        BY <1>2, <2>1
      <3>2. taken' < Len(req.stream)
        BY <1>3, <3>1
      <3> QED BY <1>1, <1>5, <2>1, <3>1, <3>2
    <2>4. SendOK' /\ StreamOK'
      BY <2>2, <2>3 DEF SendOK, StreamOK
    <2>5. ReadIn("client" \in fds', response', child' = "none", Started', Active', taken', body')
      BY <1>2, <2>2, <2>3 DEF ReadIn
    <2> QED BY <1>1, <1>4, <2>4, <2>5, ReadNext DEF AnswerParts
  <1>8. CASE AnswerRequest
    <2>1. /\ UNCHANGED <<outRead, child, fds, cgi_output, cgi_send_pending>>
          /\ Verdict.st = "done" /\ ~IsCgi /\ response' = StaticPage
          /\ flags' = flags \ {"request_started"}
      BY <1>8 DEF AnswerRequest, RespondWith
    <2>2. /\ req.kind = "static" /\ sent' = <<>> /\ taken' = Len(req.stream) /\ ~Streamed
      <3>1. /\ taken' = Len(req.stream) /\ req.kind # "cgi" /\ sent = <<>> /\ ~Streamed
        BY <1>2, <2>1
      <3> QED BY <1>1, <1>5, <3>1
    <2>3. ~Active' /\ ~Started' /\ ~Streamed' /\ "client" \in fds'
      BY <1>2, <2>1, <2>2 DEF Active, Started, Streamed
    <2>4. Sends(StaticPage, sent', response') /\ response' # <<>>
      <3>1. StaticPage \in Seq(Unit) /\ StaticPage # <<>> /\ Len(<<>>) = 0
        BY UnitTypes, PagesNotEmpty, EmptySeq
      <3>2. Len(StaticPage) \in Nat
        BY <3>1
      <3>3. 0 + Len(StaticPage) <= Len(StaticPage)
            /\ \A i \in 1 .. Len(StaticPage) : 0 + i = i
        BY <3>2
      <3> QED BY <2>1, <2>2, <3>1, <3>3 DEF Sends
    <2>5. SendOK'
      BY <1>1, <2>2, <2>4, SameRequest DEF SendOK
    <2>6. StreamOK'
      BY <2>3 DEF StreamOK
    <2>7. ReadIn("client" \in fds', response', child' = "none", Started', Active', taken', body')
      BY <1>2, <2>3, <2>4 DEF ReadIn
    <2> QED BY <1>1, <1>4, <2>5, <2>6, <2>7, ReadNext DEF AnswerParts
  <1>9. CASE DispatchFails
    <2>1. /\ UNCHANGED <<outRead, child, fds, cgi_output, cgi_send_pending>>
          /\ Verdict.st # "error" /\ response' = ErrorPage
          /\ flags' = flags \ {"request_started"}
      BY <1>9 DEF DispatchFails, RespondWith
    <2>2. ~Active' /\ ~Started' /\ ~Streamed' /\ "client" \in fds' /\ sent' = <<>>
      BY <1>1, <1>2, <2>1 DEF Active, Started, Streamed
    <2>3. SendOK' /\ StreamOK'
      BY <2>1, <2>2 DEF SendOK, StreamOK
    <2>4. ReadIn("client" \in fds', response', child' = "none", Started', Active', taken', body')
      BY <1>2, <2>1, <2>2, PagesNotEmpty DEF ReadIn
    <2> QED BY <1>1, <1>4, <2>3, <2>4, ReadNext DEF AnswerParts
  <1>10. CASE dispatch_cgi
    <2>1. /\ response' = response /\ cgi_output' = <<>> /\ child' # "none"
          /\ Verdict.st # "error" /\ Active' /\ Started' /\ ~Streamed'
          /\ "client" \in fds'
      BY <1>2, <1>10 DEF dispatch_cgi, Active, Started, Streamed
    <2>2. response' = <<>> /\ sent' = <<>>
      BY <1>1, <1>2, <2>1
    <2>3. SendOK'
      BY <2>2 DEF SendOK
    <2>4. StreamOK'
      <3>1. 1 .. Len(cgi_output') = {}
        BY <2>1, EmptySeq
      <3> QED BY <2>1, <3>1 DEF StreamOK
    <2>5. ReadIn("client" \in fds', response', child' = "none", Started', Active', taken', body')
      BY <2>1, <2>2 DEF ReadIn
    <2> QED BY <1>1, <1>4, <2>3, <2>4, <2>5, ReadNext DEF AnswerParts
  <1> QED BY <1>6, <1>7, <1>8, <1>9, <1>10

LEMMA IntactStep ==
  ASSUME TypeOK, ConnInv, BodyInv, KindOK, OutputOK, AnswerOK, [Next]_vars
  PROVE  AnswerOK'
  <1>0. TypeOK /\ EntriesOK /\ BufferOK /\ OnceOK
    BY DEF ConnInv, BodyInv
  <1>1. req' = req
    <2>1. CASE dispatch_cgi \/ Poll
      BY <2>1 DEF dispatch_cgi, Poll
    <2>2. CASE ~Poll /\ ~dispatch_cgi
      BY <1>0, <2>2, SettlesStep DEF Settles
    <2> QED BY <2>1, <2>2
  <1>2. ASSUME Meant, AnswerParts PROVE AnswerParts'
    BY <1>0, <1>2, StepKinds, QuietAnswer, RemovedAnswer, StreamSendAnswer,
       ResponseSendAnswer, CgiOutputAnswer, FinalAnswer, AwaitHeadersAnswer, ParsedAnswer
  <1>3. Meant' <=> Meant
    BY <1>1, SameRequest
  <1>4. AnswerOK <=> (Meant => AnswerParts)
    BY DEF AnswerOK, AnswerParts
  <1>5. AnswerOK' <=> (Meant' => AnswerParts')
    BY DEF AnswerOK, AnswerParts
  <1> QED BY <1>2, <1>3, <1>4, <1>5

(* What has been sent is the start of one answer to the request, of every  *)
(* request and for all sizes of the buffers: no unit of the script's       *)
(* output is lost, repeated or moved on its way through cgi_output_ and    *)
(* cgi_send_pending_, and the body bytes that arrive late bring no second  *)
(* answer, as long as they do not read as a request.                       *)
THEOREM AnswerAlwaysIntact == Spec => []AnswerIntact
  <1>1. Init /\ TypeOK => KindOK /\ AnswerOK
    <2> SUFFICES ASSUME Init, TypeOK PROVE KindOK /\ AnswerOK
      OBVIOUS
    <2>1. /\ child = "none" /\ sent = <<>> /\ response = <<>> /\ flags = {} /\ taken = 0
      BY DEF Init
    <2>2. KindOK /\ SendOK /\ StreamOK
      BY <2>1 DEF KindOK, SendOK, StreamOK, Active, Streamed
    <2>3. OneAnswer
      <3>1. Len(<<>>) = 0 /\ Len(ErrorPage) = 1 /\ ErrorPage \in Answers(req)
        BY EmptySeq, AnswersAre
      <3>2. StartOf(<<>>, ErrorPage)
        BY <3>1 DEF StartOf
      <3> QED BY <2>1, <3>1, <3>2 DEF OneAnswer
    <2>4. Meant => ReadOK
      <3>1. Meant => HeaderAt \in Nat /\ 0 < HeaderAt
        BY FramedFacts, RequestTypes DEF Meant
      <3> QED BY <2>1, <3>1 DEF ReadOK, Active, Started
    <2> QED BY <2>2, <2>3, <2>4 DEF AnswerOK
  <1>2. TypeOK /\ ConnInv /\ BodyInv /\ DoneInv /\ KindOK /\ AnswerOK /\ [Next]_vars
          => KindOK' /\ AnswerOK'
    <2> SUFFICES ASSUME TypeOK, ConnInv, BodyInv, DoneInv, KindOK, AnswerOK, [Next]_vars
                 PROVE  KindOK' /\ AnswerOK'
      OBVIOUS
    <2>1. EntriesOK /\ OutputOK
      BY DEF ConnInv, DoneInv
    <2>2. KindOK'
      BY <2>1, KindStep
    <2>3. AnswerOK'
      BY <2>1, IntactStep
    <2> QED BY <2>2, <2>3
  <1>3. AnswerOK => AnswerIntact
    BY DEF AnswerOK, AnswerIntact, Meant
  <1> QED BY <1>1, <1>2, <1>3, TypeCorrect, LoopInvariant, BodyInvariant, DoneInvariant,
             PTL DEF Spec
===============================================================================
