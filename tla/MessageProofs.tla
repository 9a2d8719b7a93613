--------------------------- MODULE MessageProofs ---------------------------
(***************************************************************************)
(* The length that a message announces, and the text that its receiver     *)
(* reads, for any encodings, sizes of the text in them and number of calls *)
(* that set parameters.                                                    *)
(***************************************************************************)
EXTENDS Message, TLAPS

\* What was composed has the fields of a text and of a head, and is converted to
\* nothing or to an encoding, in which the text has a size.
TextInv ==
    /\ text = [enc |-> text.enc, zips |-> text.zips, good |-> text.good, size |-> text.size,
               whole |-> text.whole]
    /\ text.size \in Nat /\ text.zips \in Int

HeadInv ==
    /\ head = [charset |-> head.charset, encoding |-> head.encoding, bare |-> head.bare,
               is304 |-> head.is304, http2 |-> head.http2, length |-> head.length, chunked |-> head.chunked]
    /\ head.length = Unknown /\ head.chunked = FALSE /\ head.bare \in BOOLEAN /\ head.http2 \in BOOLEAN

CodecInv ==
    /\ codec.gzip \in BOOLEAN
    /\ codec.conv # NoConversion => codec.conv[2] \in Encodings

TxInv ==
    /\ tx = [source |-> tx.source, target |-> tx.target, content |-> tx.content,
             prebuffer |-> tx.prebuffer]
    /\ tx.target \in {"Auto", "Off"} /\ tx.content \in BOOLEAN

LengthInv ==
    /\ toServer \in BOOLEAN
    /\ stage = "build" => TxInv
    /\ stage = "configured" =>
          TextInv /\ HeadInv /\ CodecInv /\ (head.is304 => ~toServer /\ head.bare)
    /\ LengthIsTrue

-----------------------------------------------------------------------------
\* What a conversion makes: a text in its target, of any size.
LEMMA ConversionMade ==
    ASSUME NEW t, t.size \in Nat, t.size # 0, NEW conv, conv # NoConversion,
           conv[2] \in Encodings,
           t = [enc |-> t.enc, zips |-> t.zips, good |-> t.good, size |-> t.size,
                whole |-> t.whole],
           NEW sent \in Conversions(t, conv)
    PROVE  \E n \in Nat, kept, whole \in BOOLEAN :
              /\ kept <=> t.good /\ t.zips = 0 /\ t.enc = conv[1]
              /\ sent = [enc |-> conv[2], zips |-> t.zips, good |-> kept, size |-> n,
                         whole |-> whole]
<1>1. PICK kept \in BOOLEAN : kept = (t.good /\ t.zips = 0 /\ t.enc = conv[1])
  OBVIOUS
<1>2. PICK full \in Nat : full = IF kept THEN Sizes[conv[2]] ELSE t.size + 3
  BY MessageAssumption
<1>3. sent \in {[t EXCEPT !.enc = conv[2], !.size = n, !.good = kept,
                         !.whole = t.whole /\ n = full] : n \in 0 .. full}
  BY <1>1, <1>2 DEF Conversions
<1>4. PICK n \in 0 .. full : sent = [t EXCEPT !.enc = conv[2], !.size = n, !.good = kept,
                                             !.whole = t.whole /\ n = full]
  BY <1>3
<1>5. PICK whole \in BOOLEAN : whole = (t.whole /\ n = full)
  OBVIOUS
<1>6. sent = [t EXCEPT !.enc = conv[2], !.size = n, !.good = kept, !.whole = whole]
  BY <1>4, <1>5
<1>7. sent = [enc |-> conv[2], zips |-> t.zips, good |-> kept, size |-> n, whole |-> whole]
  BY <1>6
<1>8. kept <=> t.good /\ t.zips = 0 /\ t.enc = conv[1]
  BY <1>1
<1>9. n \in Nat
  BY <1>2
<1>10. QED
  BY <1>7, <1>8, <1>9

LEMMA OutgoingSize ==
    ASSUME TextInv, CodecInv, NEW sent \in Outgoing(text)
    PROVE  /\ sent.size \in Nat
           /\ ~codec.gzip /\ codec.conv = NoConversion => sent = text
<1>1. PICK t : t = IF codec.gzip THEN Zipped(text) ELSE text
  OBVIOUS
<1>2. /\ t = [enc |-> t.enc, zips |-> t.zips, good |-> t.good, size |-> t.size,
              whole |-> t.whole]
      /\ t.size \in Nat
      /\ ~codec.gzip => t = text
  <2>1. CASE ~codec.gzip
    BY <1>1, <2>1 DEF TextInv
  <2>2. CASE codec.gzip
    <3>1. PICK zips \in Int : zips = text.zips + 1
      BY DEF TextInv
    <3>2. PICK size \in Nat : size = text.size + 1
      BY DEF TextInv
    <3>3. t = [text EXCEPT !.zips = zips, !.size = size]
      BY <1>1, <2>2, <3>1, <3>2 DEF Zipped
    <3>4. t = [enc |-> text.enc, zips |-> zips, good |-> text.good, size |-> size,
               whole |-> text.whole]
      BY <3>3 DEF TextInv
    <3>5. QED
      BY <2>2, <3>2, <3>4
  <2>3. QED
    BY <2>1, <2>2
<1>3. sent \in Conversions(t, codec.conv)
  BY <1>1 DEF Outgoing
<1>4. CASE codec.conv = NoConversion \/ t.size = 0
  <2>1. sent = t
    BY <1>3, <1>4 DEF Conversions
  <2>2. QED
    BY <1>2, <2>1
<1>5. CASE codec.conv # NoConversion /\ t.size # 0
  <2>1. codec.conv[2] \in Encodings
    BY <1>5 DEF CodecInv
  <2>2. PICK n \in Nat, kept, whole \in BOOLEAN :
          sent = [enc |-> codec.conv[2], zips |-> t.zips, good |-> kept, size |-> n,
                  whole |-> whole]
    BY <1>2, <1>3, <1>5, <2>1, ConversionMade
  <2>3. QED
    BY <1>5, <2>2
<1>6. QED
  BY <1>4, <1>5

\* What is sent has the length that the head tells, or is of an unknown one.
LEMMA SendLength ==
    ASSUME TextInv, HeadInv, CodecInv, toServer \in BOOLEAN,
           head.is304 => ~toServer /\ head.bare, NEW buffered \in BOOLEAN, Send(buffered)
    PROVE  LengthIsTrue'
<1>1. PICK sent \in Outgoing(text) :
         /\ head' = Framed(buffered, sent)
         /\ text' = IF ~buffered /\ DefinitelyNone(buffered, sent) THEN text ELSE sent
  BY DEF Send
<1>2. /\ sent.size \in Nat
      /\ ~codec.gzip /\ codec.conv = NoConversion => sent = text
  BY OutgoingSize
<1>3. text.size \in Nat /\ toServer' = toServer
  BY DEF TextInv, Send
<1>4. PICK length : length = EncodedLength(buffered, sent)
  OBVIOUS
<1>5. PICK none \in BOOLEAN : none = DefinitelyNone(buffered, sent)
  BY DEF DefinitelyNone
<1>6. text' = IF ~buffered /\ none THEN text ELSE sent
  BY <1>1, <1>5
<1>7. CASE head.is304
  <2>1. head' = head
    BY <1>1, <1>7 DEF Framed
  <2>2. QED
    BY <1>3, <1>7, <2>1 DEF LengthIsTrue, HeadInv
<1>8. ASSUME ~head.is304 PROVE LengthIsTrue'
  <2>1. PICK wanted \in BOOLEAN : wanted = IF toServer THEN ~none ELSE ~head.bare
    BY DEF HeadInv
  <2>2. PICK announced : announced = IF length > 0 \/ ~head.bare THEN length ELSE head.length
    OBVIOUS
  <2>3. PICK chunked \in BOOLEAN : chunked = (length = Unknown /\ ~head.http2 /\ wanted)
    OBVIOUS
  <2>4. PICK charset :
           charset = IF head.charset = NoCharset /\ body.string THEN Utf8 ELSE head.charset
    OBVIOUS
  <2>5. head' = [head EXCEPT !.length = announced, !.chunked = chunked, !.charset = charset]
    BY <1>1, <1>4, <1>5, <1>8, <2>1, <2>2, <2>3, <2>4 DEF Framed
  <2>6. /\ head'.length = announced /\ head'.chunked = chunked
        /\ head'.bare = head.bare /\ head'.http2 = head.http2
    BY <2>5 DEF HeadInv
  <2>7. CASE buffered
    <3>1. length = sent.size /\ text' = sent
      BY <1>4, <1>6, <2>7 DEF EncodedLength
    <3>2. announced # Unknown => announced = sent.size
      BY <2>2, <3>1 DEF HeadInv
    <3>3. sent.size > 0 => announced # Unknown
      BY <1>2, <2>2, <3>1 DEF Unknown
    <3>4. QED
      BY <2>6, <3>1, <3>2, <3>3 DEF LengthIsTrue
  <2>8. CASE ~buffered /\ ~codec.gzip /\ codec.conv = NoConversion /\ body.known
    <3>1. length = text.size
      BY <1>4, <2>8 DEF EncodedLength, Length
    <3>2. text' = text
      BY <1>2, <1>6, <2>8
    <3>3. announced # Unknown => announced = text.size
      BY <2>2, <3>1 DEF HeadInv
    <3>4. text.size > 0 => announced # Unknown
      BY <1>3, <2>2, <3>1 DEF Unknown
    <3>5. QED
      BY <2>6, <3>2, <3>3, <3>4 DEF LengthIsTrue
  <2>9. CASE ~buffered /\ (codec.gzip \/ codec.conv # NoConversion \/ ~body.known)
    <3>1. length = Unknown /\ (none => text.size = 0)
      BY <1>3, <1>4, <1>5, <2>9 DEF EncodedLength, DefinitelyNone, Length, Unknown
    <3>2. announced = Unknown
      BY <2>2, <3>1 DEF HeadInv
    <3>3. none => text'.size = 0
      BY <1>6, <2>9, <3>1
    <3>4. ~head.http2 /\ (toServer \/ ~head.bare) /\ ~none => chunked
      BY <2>1, <2>3, <3>1
    <3>5. QED
      BY <1>3, <2>6, <3>2, <3>3, <3>4 DEF LengthIsTrue
  <2>10. QED
    BY <2>7, <2>8, <2>9
<1>9. QED
  BY <1>7, <1>8

\* Composing configures an encoding that the text has a size in.
LEMMA ComposeLength ==
    ASSUME TxInv, toServer \in BOOLEAN, Compose
    PROVE  LengthInv'
<1>1. PICK b \in Bodies, h \in Heads :
        /\ head' = h /\ (h.is304 => ~toServer)
        /\ text' = [enc |-> b.enc, zips |-> b.zips, good |-> TRUE, whole |-> TRUE,
                    size |-> IF b.empty THEN 0 ELSE Sizes[b.enc] + b.zips]
        /\ codec' = Configured(Fresh, tx, h, FALSE, Override(b))
  BY DEF Compose
<1>2. stage' = "configured" /\ toServer' = toServer
  BY DEF Compose
<1>3. b.enc \in Encodings \cup {Binary} /\ b.zips \in 0 .. 1
  BY DEF Bodies
<1>4. PICK size \in Nat : size = IF b.empty THEN 0 ELSE Sizes[b.enc] + b.zips
  <2>1. PICK s \in Nat : s = Sizes[b.enc]
    BY <1>3, MessageAssumption
  <2>2. s + b.zips \in Nat
    BY <1>3, <2>1
  <2>3. QED
    BY <2>1, <2>2
<1>5. TextInv'
  <2>1. text' = [enc |-> b.enc, zips |-> b.zips, good |-> TRUE, whole |-> TRUE, size |-> size]
    BY <1>1, <1>4
  <2>2. QED
    BY <1>3, <2>1 DEF TextInv
<1>6. HeadInv' /\ (head'.is304 => ~toServer' /\ head'.bare)
  BY <1>1, <1>2 DEF Heads, HeadInv
<1>7. CodecInv'
  <2>1. PICK conv : conv = Resolve(tx, FALSE, h.charset, Override(b))
    OBVIOUS
  <2>2. conv # NoConversion => conv[2] \in Encodings
    BY <2>1, MessageAssumption DEF Resolve, TxInv, OrDefault, NoConversion, Heads, NoCharset
  <2>3. PICK zip \in BOOLEAN : zip = (tx.content /\ h.encoding = "gzip")
    BY DEF TxInv
  <2>4. codec' = [gzip |-> zip, conv |-> IF conv = NoConversion THEN NoConversion
                                         ELSE IF conv[1] = conv[2] THEN NoConversion ELSE conv]
    BY <1>1, <2>1, <2>3 DEF Configured, Fresh
  <2>5. QED
    BY <2>2, <2>4 DEF CodecInv
<1>8. QED
  BY <1>2, <1>5, <1>6, <1>7 DEF LengthInv, LengthIsTrue

LEMMA LengthInit == MessageInit => LengthInv
  BY DEF MessageInit, LengthInv, LengthIsTrue, TxInv, Defaults

LEMMA LengthNext ==
    LengthInv /\ [MessageNext]_messageVars => LengthInv'
<1> SUFFICES ASSUME LengthInv, [MessageNext]_messageVars PROVE LengthInv'
  OBVIOUS
<1>1. ASSUME NEW on \in BOOLEAN, CharsetEncode(on) \/ ContentEncode(on) \/ PrebufferBody(on)
      PROVE  LengthInv'
  <2>1. TxInv /\ UNCHANGED <<toServer, stage>> /\ stage = "build"
    BY <1>1 DEF LengthInv, CharsetEncode, ContentEncode, PrebufferBody, BySender
  <2>2. TxInv'
    BY <1>1, <2>1 DEF TxInv, CharsetEncode, ContentEncode, PrebufferBody, Toggle
  <2>3. QED
    BY <2>1, <2>2 DEF LengthInv, LengthIsTrue
<1>2. ASSUME NEW label, CharsetEncodeSource(label)
      PROVE  LengthInv'
  <2>1. TxInv /\ UNCHANGED toServer /\ stage' \in {"build", "panic"}
    BY <1>2 DEF LengthInv, CharsetEncodeSource, BySender
  <2>2. TxInv'
    BY <1>2, <2>1 DEF TxInv, CharsetEncodeSource
  <2>3. QED
    BY <2>1, <2>2 DEF LengthInv, LengthIsTrue
<1>3. ASSUME NEW op, NEW params, ByReceiver(op, params)
      PROVE  LengthInv'
  <2>1. UNCHANGED <<toServer, tx, head, text, stage>> /\ stage \in {"received", "build"}
    BY <1>3 DEF ByReceiver
  <2>2. QED
    BY <2>1 DEF LengthInv, LengthIsTrue, TxInv
<1>4. CASE Compose
  <2>1. TxInv /\ toServer \in BOOLEAN
    BY <1>4 DEF Compose, LengthInv
  <2>2. QED
    BY <1>4, <2>1, ComposeLength
<1>5. ASSUME NEW buffered \in BOOLEAN, Send(buffered)
      PROVE  LengthInv'
  <2>1. /\ TextInv /\ HeadInv /\ CodecInv /\ toServer' = toServer /\ stage' = "sent"
        /\ toServer \in BOOLEAN /\ (head.is304 => ~toServer /\ head.bare)
    BY <1>5 DEF LengthInv, Send
  <2>2. LengthIsTrue'
    BY <1>5, <2>1, SendLength
  <2>3. QED
    BY <2>1, <2>2 DEF LengthInv
<1>6. CASE Receive
  BY <1>6 DEF Receive, LengthInv, LengthIsTrue
<1>7. ASSUME NEW string \in BOOLEAN, Read(string)
      PROVE  LengthInv'
  BY <1>7 DEF Read, LengthInv, LengthIsTrue
<1>8. CASE UNCHANGED messageVars
  BY <1>8 DEF messageVars, LengthInv, LengthIsTrue, TxInv, TextInv, HeadInv, CodecInv
<1>9. QED
  BY <1>1, <1>2, <1>3, <1>4, <1>5, <1>6, <1>7, <1>8
     DEF MessageNext, CharsetDecode, ContentDecode, CharsetDecodeTarget

\* A content-length is that of the bytes that are sent, though compression and
\* conversion change it, and on HTTP/1 a body of another kind is chunked.
THEOREM LengthCorrect == MessageSpec => []LengthIsTrue
<1>1. MessageInit => LengthInv
  BY LengthInit
<1>2. LengthInv /\ [MessageNext]_messageVars
        => LengthInv'
  BY LengthNext
<1>3. LengthInv => LengthIsTrue
  BY DEF LengthInv
<1>4. QED
  BY <1>1, <1>2, <1>3, PTL DEF MessageSpec

-----------------------------------------------------------------------------
\* The calls of a receiver.
Calls ==
    [call : {"decode"}, on : BOOLEAN] \cup [call : {"target"}, label : Encodings \cup {Bogus}]
        \cup [call : {"content"}]

\* A call that names a target; those of them that were not forgotten.
Names(op) == op.call = "target" /\ op.label # Bogus

Labels == {i \in Asked : Names(ops[i])}

\* The last of them names it, or the default stands.
TargetIs(label) ==
    IF Labels = {} THEN label = Utf8
    ELSE \E i \in Labels : ops[i].label = label /\ \A j \in Labels : j <= i

\* The settings of the receiver are what its calls ask for.
OpsInv ==
    /\ toServer \in BOOLEAN /\ ops \in Seq(Calls)
    /\ rx = [source |-> rx.source, target |-> rx.target, content |-> rx.content,
             prebuffer |-> rx.prebuffer]
    /\ rx.content \in BOOLEAN
    /\ rx.source \in {"Auto", "Off"} /\ rx.target \in Encodings \cup {"Auto", "Off"}
    /\ toServer => rx.source = "Auto" /\ (rx.target = "Off" <=> DecodingOff)
    /\ ~toServer => rx.target # "Off" /\ (rx.source = "Off" <=> DecodingOff)
    /\ IF rx.target = "Off" THEN Labels = {} ELSE TargetIs(OrDefault(rx.target, Utf8))

-----------------------------------------------------------------------------
LEMMA TargetFound ==
    ASSUME ops \in Seq(Calls), NEW label, TargetIs(label)
    PROVE  Target = label
<1>1. Target = IF Labels = {} THEN Utf8
               ELSE ops[CHOOSE i \in Labels : \A j \in Labels : j <= i].label
  BY DEF Target, Labels, Names
<1>2. CASE Labels = {}
  BY <1>1, <1>2 DEF TargetIs
<1>3. CASE Labels # {}
  <2>1. PICK i \in Labels : ops[i].label = label /\ \A j \in Labels : j <= i
    BY <1>3 DEF TargetIs
  <2>2. Labels \subseteq Nat
    BY DEF Labels, Asked
  <2>3. ASSUME NEW k \in Labels, \A j \in Labels : j <= k PROVE k = i
    BY <2>1, <2>2, <2>3
  <2>4. (CHOOSE k \in Labels : \A j \in Labels : j <= k) = i
    BY <2>1, <2>3
  <2>5. QED
    BY <1>1, <1>3, <2>1, <2>4
<1>4. QED
  BY <1>2, <1>3

\* What one call more changes.
LEMMA OneMore ==
    ASSUME ops \in Seq(Calls), NEW op \in Calls, ops' = Append(ops, op)
    PROVE  /\ ops' \in Seq(Calls)
           /\ Len(ops) \in Nat /\ DOMAIN ops = 1 .. Len(ops)
           /\ Len(ops') = Len(ops) + 1 /\ DOMAIN ops' = 1 .. Len(ops) + 1
           /\ \A i \in DOMAIN ops : ops'[i] = ops[i]
           /\ ops'[Len(ops) + 1] = op
  OBVIOUS

LEMMA AskedMore ==
    ASSUME ops \in Seq(Calls), NEW op \in Calls, ops' = Append(ops, op), toServer \in BOOLEAN,
           toServer' = toServer
    PROVE  /\ ~TurnsOff(op) => Asked' = Asked \cup {Len(ops) + 1}
           /\ TurnsOff(op) => Asked' = IF toServer THEN {} ELSE Asked \cup {Len(ops) + 1}
<1>1. PICK n \in Nat : n = Len(ops) /\ DOMAIN ops = 1 .. n /\ DOMAIN ops' = 1 .. n + 1
        /\ (\A i \in 1 .. n : ops'[i] = ops[i]) /\ ops'[n + 1] = op
  BY OneMore
<1>2. CASE ~toServer
  <2>1. Asked = 1 .. n /\ Asked' = 1 .. n + 1
    BY <1>1, <1>2 DEF Asked
  <2>2. QED
    BY <1>1, <1>2, <2>1
<1>3. CASE toServer
  <2>1. PICK offs : offs = {i \in 1 .. n : TurnsOff(ops[i])}
    OBVIOUS
  <2>2. Asked = {i \in 1 .. n : \A j \in offs : j < i}
    BY <1>1, <1>3, <2>1 DEF Asked
  <2>3. PICK offs1 : offs1 = {i \in 1 .. n + 1 : TurnsOff(ops'[i])}
    OBVIOUS
  <2>4. Asked' = {i \in 1 .. n + 1 : \A j \in offs1 : j < i}
    BY <1>1, <1>3, <2>3 DEF Asked
  <2>5. ASSUME ~TurnsOff(op) PROVE Asked' = Asked \cup {n + 1}
    <3>1. offs1 = offs
      BY <1>1, <2>1, <2>3, <2>5
    <3>2. QED
      BY <1>1, <2>1, <2>2, <2>4, <3>1
  <2>6. ASSUME TurnsOff(op) PROVE Asked' = {}
    <3>1. n + 1 \in offs1
      BY <1>1, <2>3, <2>6
    <3>2. QED
      BY <1>1, <2>4, <3>1
  <2>7. QED
    BY <1>1, <1>3, <2>5, <2>6
<1>4. QED
  BY <1>2, <1>3

LEMMA LabelsMore ==
    ASSUME ops \in Seq(Calls), NEW op \in Calls, ops' = Append(ops, op), toServer \in BOOLEAN,
           toServer' = toServer
    PROVE  Labels' = IF TurnsOff(op) THEN IF toServer THEN {} ELSE Labels
                     ELSE IF Names(op) THEN Labels \cup {Len(ops) + 1} ELSE Labels
<1>1. PICK n \in Nat : n = Len(ops) /\ DOMAIN ops = 1 .. n /\ DOMAIN ops' = 1 .. n + 1
        /\ (\A i \in 1 .. n : ops'[i] = ops[i]) /\ ops'[n + 1] = op
  BY OneMore
<1>2. Asked \subseteq 1 .. n
  BY <1>1 DEF Asked
<1>3. ASSUME Asked' = Asked \cup {n + 1}
      PROVE  Labels' = IF Names(op) THEN Labels \cup {n + 1} ELSE Labels
  <2>1. Labels' = {i \in Asked \cup {n + 1} : Names(ops'[i])}
    BY <1>3 DEF Labels
  <2>2. QED
    BY <1>1, <1>2, <2>1 DEF Labels
<1>4. Asked' = {} => Labels' = {}
  BY DEF Labels
<1>5. TurnsOff(op) => ~Names(op)
  BY DEF TurnsOff, Names
<1>6. QED
  BY <1>1, <1>3, <1>4, <1>5, AskedMore

LEMMA OffMore ==
    ASSUME ops \in Seq(Calls), NEW op \in Calls, ops' = Append(ops, op), toServer \in BOOLEAN,
           toServer' = toServer
    PROVE  DecodingOff' <=> \/ TurnsOff(op)
                            \/ DecodingOff /\ op.call # "decode" /\ ~(toServer /\ Names(op))
<1>1. PICK n \in Nat : n = Len(ops) /\ DOMAIN ops = 1 .. n /\ DOMAIN ops' = 1 .. n + 1
        /\ (\A i \in 1 .. n : ops'[i] = ops[i]) /\ ops'[n + 1] = op /\ Len(ops') = n + 1
  BY OneMore
<1> DEFINE Keeps(o) == o.call # "decode" /\ (toServer => o.call # "target" \/ o.label = Bogus)
<1>2. DecodingOff <=> \E i \in 1 .. n : TurnsOff(ops[i]) /\ \A j \in i + 1 .. n : Keeps(ops[j])
  BY <1>1 DEF DecodingOff
<1>3. DecodingOff' <=>
        \E i \in 1 .. n + 1 : TurnsOff(ops'[i]) /\ \A j \in i + 1 .. n + 1 : Keeps(ops'[j])
  BY <1>1 DEF DecodingOff
<1>4. Keeps(op) <=> op.call # "decode" /\ ~(toServer /\ Names(op))
  BY DEF Names
<1> HIDE DEF Keeps
<1>5. ASSUME TurnsOff(op) PROVE DecodingOff'
  BY <1>1, <1>3, <1>5
<1>6. ASSUME DecodingOff, Keeps(op) PROVE DecodingOff'
  <2>1. PICK i \in 1 .. n : TurnsOff(ops[i]) /\ \A j \in i + 1 .. n : Keeps(ops[j])
    BY <1>2, <1>6
  <2>2. \A j \in i + 1 .. n + 1 : Keeps(ops'[j])
    BY <1>1, <1>6, <2>1
  <2>3. QED
    BY <1>1, <1>3, <2>1, <2>2
<1>7. ASSUME DecodingOff', ~TurnsOff(op) PROVE DecodingOff /\ Keeps(op)
  <2>1. PICK i \in 1 .. n + 1 : TurnsOff(ops'[i]) /\ \A j \in i + 1 .. n + 1 : Keeps(ops'[j])
    BY <1>3, <1>7
  <2>2. i \in 1 .. n
    BY <1>1, <1>7, <2>1
  <2>3. Keeps(ops'[n + 1])
    BY <1>1, <2>1, <2>2
  <2>4. TurnsOff(ops[i]) /\ \A j \in i + 1 .. n : Keeps(ops[j])
    BY <1>1, <2>1, <2>2
  <2>5. QED
    BY <1>1, <1>2, <2>2, <2>3, <2>4
<1>8. QED
  BY <1>4, <1>5, <1>6, <1>7

LEMMA NamesNone ==
    /\ Utf8 \in Encodings /\ Binary \notin Encodings
    /\ "Auto" \notin Encodings /\ "Off" \notin Encodings
    /\ NoCharset \notin Encodings /\ "none" \notin Encodings /\ Bogus \notin Encodings
  BY MessageAssumption DEF NoCharset, Bogus

\* A call that changes nothing of what is asked.
LEMMA OpsStay ==
    ASSUME OpsInv, UNCHANGED <<ops, rx, toServer>>
    PROVE  OpsInv'
<1>1. UNCHANGED <<Asked, DecodingOff>>
  BY DEF Asked, DecodingOff
<1>2. UNCHANGED Labels
  BY <1>1 DEF Labels
<1>3. \A l : TargetIs(l)' <=> TargetIs(l)
  BY <1>2 DEF TargetIs
<1>4. QED
  BY <1>1, <1>2, <1>3 DEF OpsInv

\* Settings of the receiver after a call, with the fields that it may change.
RxSet(source, target, content) ==
    [source |-> source, target |-> target, content |-> content, prebuffer |-> rx.prebuffer]

\* It names no target, and switches nothing off.
LEMMA NeutralOps ==
    ASSUME OpsInv, NEW op \in Calls, ops' = Append(ops, op), toServer' = toServer,
           ~TurnsOff(op), ~Names(op), DecodingOff' => DecodingOff,
           NEW source, NEW target, NEW content \in BOOLEAN, rx' = RxSet(source, target, content),
           IF DecodingOff' \/ ~DecodingOff THEN source = rx.source /\ target = rx.target
           ELSE IF toServer THEN source = rx.source /\ target = "Auto"
           ELSE source = "Auto" /\ target = rx.target
    PROVE  OpsInv'
<1>1. toServer \in BOOLEAN /\ ops \in Seq(Calls) /\ ops' \in Seq(Calls)
  BY OneMore DEF OpsInv
<1>2. Labels' = Labels
  BY <1>1, LabelsMore
<1>3. PICK n \in Nat : n = Len(ops) /\ DOMAIN ops = 1 .. n /\ (\A i \in 1 .. n : ops'[i] = ops[i])
  BY <1>1, OneMore
<1>4. Labels \subseteq 1 .. n
  BY <1>3 DEF Labels, Asked
<1>5. \A l : TargetIs(l) => TargetIs(l)'
  BY <1>2, <1>3, <1>4 DEF TargetIs
<1>6. rx'.source = source /\ rx'.target = target /\ rx'.content = content
  BY DEF RxSet
<1>7. rx' = [source |-> rx'.source, target |-> rx'.target, content |-> rx'.content,
             prebuffer |-> rx'.prebuffer]
  BY DEF RxSet
<1>8. IF target = "Off" THEN Labels' = {} ELSE TargetIs(OrDefault(target, Utf8))'
  <2>1. CASE target = rx.target
    BY <1>2, <1>5, <2>1 DEF OpsInv
  <2>2. CASE target # rx.target
    <3>1. toServer /\ DecodingOff /\ target = "Auto"
      BY <1>1, <2>2
    <3>2. Labels' = {}
      BY <1>2, <3>1 DEF OpsInv
    <3>3. TargetIs(Utf8)'
      BY <3>2 DEF TargetIs
    <3>4. OrDefault(target, Utf8) = Utf8
      BY <3>1 DEF OrDefault
    <3>5. QED
      BY <3>1, <3>3, <3>4
  <2>3. QED
    BY <2>1, <2>2
<1>9. QED
  BY <1>1, <1>6, <1>7, <1>8 DEF OpsInv

\* It switches decoding off, which a server forgets its target for.
LEMMA OffOps ==
    ASSUME OpsInv, NEW op \in Calls, ops' = Append(ops, op), toServer' = toServer,
           TurnsOff(op), NEW source, NEW target,
           rx' = RxSet(source, target, rx.content),
           IF toServer THEN source = rx.source /\ target = "Off"
                       ELSE source = "Off" /\ target = rx.target
    PROVE  OpsInv'
<1>1. toServer \in BOOLEAN /\ ops \in Seq(Calls) /\ ops' \in Seq(Calls)
  BY OneMore DEF OpsInv
<1>2. Labels' = IF toServer THEN {} ELSE Labels
  BY <1>1, LabelsMore
<1>3. PICK n \in Nat : n = Len(ops) /\ DOMAIN ops = 1 .. n /\ (\A i \in 1 .. n : ops'[i] = ops[i])
  BY <1>1, OneMore
<1>4. Labels \subseteq 1 .. n
  BY <1>3 DEF Labels, Asked
<1>5. ~toServer => \A l : TargetIs(l) => TargetIs(l)'
  BY <1>2, <1>3, <1>4 DEF TargetIs
<1>6. rx'.source = source /\ rx'.target = target /\ rx'.content = rx.content
      /\ rx' = [source |-> rx'.source, target |-> rx'.target, content |-> rx'.content,
                prebuffer |-> rx'.prebuffer]
  BY DEF RxSet
<1>7. DecodingOff'
  BY <1>1, OffMore
<1>8. IF target = "Off" THEN Labels' = {} ELSE TargetIs(OrDefault(target, Utf8))'
  BY <1>2, <1>5 DEF OpsInv
<1>9. QED
  BY <1>1, <1>6, <1>7, <1>8 DEF OpsInv

\* It names a target, which also switches decoding on again at a server.
LEMMA TargetOps ==
    ASSUME OpsInv, NEW op \in Calls, ops' = Append(ops, op), toServer' = toServer,
           Names(op), op.label \in Encodings, rx' = RxSet(rx.source, op.label, rx.content)
    PROVE  OpsInv'
<1>1. toServer \in BOOLEAN /\ ops \in Seq(Calls) /\ ops' \in Seq(Calls)
  BY OneMore DEF OpsInv
<1>2. ~TurnsOff(op) /\ op.call = "target"
  BY DEF TurnsOff, Names
<1>3. PICK n \in Nat : n = Len(ops) /\ DOMAIN ops = 1 .. n /\ ops'[n + 1] = op
  BY <1>1, OneMore
<1>4. Labels' = Labels \cup {n + 1}
  BY <1>1, <1>2, <1>3, LabelsMore
<1>5. Labels \subseteq 1 .. n
  BY <1>3 DEF Labels, Asked
<1>6. TargetIs(op.label)'
  BY <1>3, <1>4, <1>5 DEF TargetIs
<1>7. rx'.source = rx.source /\ rx'.target = op.label /\ rx'.content = rx.content
      /\ rx' = [source |-> rx'.source, target |-> rx'.target, content |-> rx'.content,
                prebuffer |-> rx'.prebuffer]
  BY DEF RxSet
<1>8. DecodingOff' <=> DecodingOff /\ ~toServer
  BY <1>1, <1>2, OffMore
<1>9. OrDefault(op.label, Utf8) = op.label /\ op.label # "Off"
  BY NamesNone DEF OrDefault
<1>10. TargetIs(OrDefault(rx.target, Utf8))'
  <2>1. OrDefault(rx.target, Utf8)' = op.label
    BY <1>7, <1>9
  <2>2. QED
    BY <1>6, <2>1 DEF TargetIs
<1>11. QED
  BY <1>1, <1>7, <1>8, <1>9, <1>10 DEF OpsInv

\* The calls.
LEMMA ReceiverOps ==
    ASSUME OpsInv, NEW on \in BOOLEAN, NEW label \in Encodings \cup {Bogus},
           CharsetDecode(on) \/ CharsetDecodeTarget(label) \/ ContentDecode(on)
    PROVE  OpsInv'
<1>1. toServer \in BOOLEAN /\ ops \in Seq(Calls) /\ toServer' = toServer
      /\ rx = RxSet(rx.source, rx.target, rx.content)
  BY DEF CharsetDecode, CharsetDecodeTarget, ContentDecode, ByReceiver, OpsInv, RxSet
<1>2. ASSUME CharsetDecode(on) PROVE OpsInv'
  <2>1. PICK op : op = [call |-> "decode", on |-> on]
    OBVIOUS
  <2>2. op \in Calls /\ ~Names(op) /\ op.call = "decode" /\ (TurnsOff(op) <=> ~on)
    BY <2>1 DEF Calls, Names, TurnsOff
  <2>3. ops' = Append(ops, op)
    BY <1>2, <2>1 DEF CharsetDecode, ByReceiver
  <2>4. rx' = IF toServer THEN RxSet(rx.source, Toggle(rx.target, on), rx.content)
                          ELSE RxSet(Toggle(rx.source, on), rx.target, rx.content)
    BY <1>1, <1>2 DEF CharsetDecode, ByReceiver, RxSet
  <2>5. DecodingOff' <=> ~on
    BY <1>1, <2>2, <2>3, OffMore
  <2>6. CASE ~on
    <3>1. Toggle(rx.target, on) = "Off" /\ Toggle(rx.source, on) = "Off"
      BY <2>6 DEF Toggle
    <3>2. QED
      BY <1>1, <2>2, <2>3, <2>4, <2>6, <3>1, OffOps
  <2>7. CASE on
    <3>1. \A s : Toggle(s, on) = IF s = "Off" THEN "Auto" ELSE s
      BY <2>7 DEF Toggle
    <3>2. PICK source, target : /\ source = IF toServer THEN rx.source ELSE Toggle(rx.source, on)
                                /\ target = IF toServer THEN Toggle(rx.target, on) ELSE rx.target
      OBVIOUS
    <3>3. rx' = RxSet(source, target, rx.content)
      BY <2>4, <3>2
    <3>4. ~DecodingOff => source = rx.source /\ target = rx.target
      BY <1>1, <3>1, <3>2 DEF OpsInv
    <3>5. DecodingOff => IF toServer THEN source = rx.source /\ target = "Auto"
                                     ELSE source = "Auto" /\ target = rx.target
      BY <1>1, <3>1, <3>2 DEF OpsInv
    <3>6. rx.content \in BOOLEAN
      BY DEF OpsInv
    <3>7. QED
      BY <1>1, <2>2, <2>3, <2>5, <2>7, <3>3, <3>4, <3>5, <3>6, NeutralOps
  <2>8. QED
    BY <2>6, <2>7
<1>3. ASSUME CharsetDecodeTarget(label) PROVE OpsInv'
  <2>1. PICK op : op = [call |-> "target", label |-> label]
    OBVIOUS
  <2>2. op \in Calls /\ op.label = label /\ ~TurnsOff(op) /\ (Names(op) <=> label \in Encodings)
        /\ op.call = "target"
    BY <2>1, NamesNone DEF Calls, Names, TurnsOff
  <2>3. ops' = Append(ops, op)
    BY <1>3, <2>1 DEF CharsetDecodeTarget, ByReceiver
  <2>4. CASE label \in Encodings
    <3>1. rx' = RxSet(rx.source, op.label, rx.content)
      BY <1>1, <1>3, <2>2, <2>4 DEF CharsetDecodeTarget, ByReceiver, RxSet
    <3>2. QED
      BY <1>1, <2>2, <2>3, <2>4, <3>1, TargetOps
  <2>5. CASE label \notin Encodings
    <3>1. rx' = RxSet(rx.source, rx.target, rx.content)
      BY <1>1, <1>3, <2>5 DEF CharsetDecodeTarget, ByReceiver
    <3>2. DecodingOff' <=> DecodingOff
      BY <1>1, <2>2, <2>3, <2>5, OffMore
    <3>3. rx.content \in BOOLEAN
      BY DEF OpsInv
    <3>4. QED
      BY <1>1, <2>2, <2>3, <2>5, <3>1, <3>2, <3>3, NeutralOps
  <2>6. QED
    BY <2>4, <2>5
<1>4. ASSUME ContentDecode(on) PROVE OpsInv'
  <2>1. PICK op : op = [call |-> "content"]
    OBVIOUS
  <2>2. op \in Calls /\ op.call = "content" /\ ~TurnsOff(op) /\ ~Names(op)
    BY <2>1 DEF Calls, Names, TurnsOff
  <2>3. ops' = Append(ops, op)
    BY <1>4, <2>1 DEF ContentDecode, ByReceiver
  <2>4. rx' = RxSet(rx.source, rx.target, on)
    BY <1>1, <1>4 DEF ContentDecode, ByReceiver, RxSet
  <2>5. DecodingOff' <=> DecodingOff
    BY <1>1, <2>2, <2>3, OffMore
  <2>6. QED
    BY <1>1, <2>2, <2>3, <2>4, <2>5, NeutralOps
<1>5. QED
  BY <1>2, <1>3, <1>4

-----------------------------------------------------------------------------
\* A text, with all its fields.
IsText(t) ==
    /\ t = [enc |-> t.enc, zips |-> t.zips, good |-> t.good, size |-> t.size, whole |-> t.whole]
    /\ t.size \in Nat /\ t.zips \in Nat /\ t.whole \in BOOLEAN
    /\ t.enc \in Encodings \cup {Binary}

SenderInv ==
    /\ tx = [source |-> tx.source, target |-> tx.target, content |-> tx.content,
             prebuffer |-> tx.prebuffer]
    /\ tx.source \in Encodings \cup {"Auto"} /\ tx.target \in {"Auto", "Off"}
    /\ tx.content \in BOOLEAN

\* What was composed.
ComposedInv ==
    /\ body.enc \in Encodings \cup {Binary} /\ body.zips \in 0 .. 1
    /\ body.string => body.enc = Utf8
    /\ body.empty => body.enc = Utf8 /\ body.zips = 0 /\ body.known
    /\ body.zips = 1 => head.encoding = "gzip"
    /\ head.charset \in Encodings \cup {NoCharset}
    /\ head = [charset |-> head.charset, encoding |-> head.encoding, bare |-> head.bare,
               is304 |-> head.is304, http2 |-> head.http2, length |-> head.length, chunked |-> head.chunked]

\* The sender is honest, and converts no text that is compressed or none.
SenderOK ==
    Honest /\ (SenderConverts => head.encoding # "gzip" /\ body.enc # Binary)

\* A text as a receiver should get it.
Arriving(t) ==
    /\ t.good /\ t.zips = IF head.encoding = "gzip" THEN 1 ELSE 0
    /\ IF body.empty THEN t.size = t.zips /\ t.enc = Utf8
       ELSE t.zips < t.size /\ t.enc = IF body.enc = Binary THEN Binary ELSE Named

\* A conversion, or none, and what it takes and makes.
ConvTo(conv) == conv = NoConversion \/ (Len(conv) = 2 /\ conv[2] \in Encodings)

Becomes(t, conv, sent) ==
    /\ IsText(sent) /\ sent.zips = t.zips
    /\ conv = NoConversion \/ t.size = 0 => sent = t
    /\ conv # NoConversion /\ t.good /\ t.zips = 0 /\ t.enc = conv[1] /\ t.size > 0 =>
          sent.good /\ sent.enc = conv[2]

LEMMA ConvertedText ==
    ASSUME NEW t, IsText(t), NEW conv, ConvTo(conv), NEW sent \in Conversions(t, conv)
    PROVE  Becomes(t, conv, sent)
<1> USE DEF Becomes
<1>1. CASE conv = NoConversion \/ t.size = 0
  <2>1. sent = t
    BY <1>1 DEF Conversions
  <2>2. ~(conv # NoConversion /\ t.size > 0)
    BY <1>1
  <2>3. QED
    BY <2>1, <2>2
<1>2. CASE conv # NoConversion /\ t.size # 0
  <2>1. PICK to \in Encodings : to = conv[2]
    BY <1>2 DEF ConvTo
  <2>2. PICK n \in Nat, kept, whole \in BOOLEAN :
           /\ kept <=> t.good /\ t.zips = 0 /\ t.enc = conv[1]
           /\ sent = [enc |-> conv[2], zips |-> t.zips, good |-> kept, size |-> n,
                      whole |-> whole]
    BY <1>2, <2>1, ConversionMade DEF IsText
  <2>3. IsText(sent) /\ sent.zips = t.zips /\ sent.enc = to /\ sent.good = kept
    BY <2>1, <2>2 DEF IsText
  <2>4. QED
    BY <1>2, <2>1, <2>2, <2>3
<1>3. QED
  BY <1>1, <1>2 DEF IsText

LEMMA ZippedText ==
    ASSUME NEW t, IsText(t)
    PROVE  /\ IsText(Zipped(t)) /\ Zipped(t).zips = t.zips + 1 /\ Zipped(t).size = t.size + 1
           /\ Zipped(t).enc = t.enc /\ Zipped(t).good = t.good /\ Zipped(t).whole = t.whole
<1>1. PICK zips \in Nat : zips = t.zips + 1
  BY DEF IsText
<1>2. PICK size \in Nat : size = t.size + 1
  BY DEF IsText
<1>3. Zipped(t) = [t EXCEPT !.zips = zips, !.size = size]
  BY <1>1, <1>2 DEF Zipped
<1>4. Zipped(t) = [enc |-> t.enc, zips |-> zips, good |-> t.good, size |-> size,
                   whole |-> t.whole]
  BY <1>3 DEF IsText
<1>5. QED
  BY <1>1, <1>2, <1>4 DEF IsText

LEMMA UnzippedText ==
    ASSUME NEW t, IsText(t), t.size > 0
    PROVE  /\ IsText(Unzipped(t)) /\ Unzipped(t).enc = t.enc /\ Unzipped(t).whole = t.whole
           /\ t.zips > 0 => /\ Unzipped(t).zips = t.zips - 1 /\ Unzipped(t).size = t.size - 1
                            /\ Unzipped(t).good = t.good
<1>1. CASE t.zips > 0
  <2>1. PICK zips \in Nat : zips = t.zips - 1
    BY <1>1 DEF IsText
  <2>2. PICK size \in Nat : size = t.size - 1
    BY DEF IsText
  <2>3. Unzipped(t) = [t EXCEPT !.zips = zips, !.size = size]
    BY <1>1, <2>1, <2>2 DEF Unzipped
  <2>4. Unzipped(t) = [enc |-> t.enc, zips |-> zips, good |-> t.good, size |-> size,
                       whole |-> t.whole]
    BY <2>3 DEF IsText
  <2>5. QED
    BY <2>1, <2>2, <2>4 DEF IsText
<1>2. CASE ~(t.zips > 0)
  <2>1. Unzipped(t) = [enc |-> t.enc, zips |-> t.zips, good |-> FALSE, size |-> t.size,
                       whole |-> t.whole]
    BY <1>2 DEF Unzipped, IsText
  <2>2. IsText(Unzipped(t)) /\ Unzipped(t).enc = t.enc /\ Unzipped(t).whole = t.whole
    BY <2>1 DEF IsText
  <2>3. QED
    BY <1>2, <2>2
<1>3. QED
  BY <1>1, <1>2

\* The conversion of a sender is from what it says the text is in to what the
\* head says; what is not converted is in both.
LEMMA SenderConv ==
    ASSUME SenderInv, ComposedInv, NEW old, NEW conv,
           conv = Configured(Fresh, tx, head, FALSE, Override(body)).conv
    PROVE  /\ ConvTo(conv)
           /\ conv # NoConversion => SenderConverts /\ conv[2] = Named
           /\ Honest /\ body.enc # Binary =>
                body.enc = IF conv = NoConversion THEN Named ELSE conv[1]
<1>1. PICK r : r = Resolve(tx, FALSE, head.charset, Override(body))
  OBVIOUS
<1>2. conv = IF r = NoConversion THEN NoConversion ELSE IF r[1] = r[2] THEN NoConversion ELSE r
  BY <1>1 DEF Configured, Fresh
<1>3. SenderConverts <=> r # NoConversion /\ r[1] # r[2]
  BY <1>1 DEF SenderConverts
<1>4. Named \in Encodings
  BY NamesNone DEF ComposedInv, Named
<1>5. PICK from : from = IF body.string THEN Utf8 ELSE OrDefault(tx.source, Utf8)
  OBVIOUS
<1>6. tx.source # "Off"
  BY NamesNone DEF SenderInv
<1>7. tx.target = "Auto" => OrDefault(tx.target, Named) = Named
  BY DEF OrDefault
<1>8. Utf8 # "none"
  BY NamesNone
<1>9. r = IF tx.target = "Off" THEN NoConversion ELSE <<from, Named>>
  BY <1>1, <1>5, <1>6, <1>7, <1>8 DEF SenderInv, Resolve, Override, Named
<1>10. <<from, Named>> # NoConversion /\ Len(<<from, Named>>) = 2
  BY DEF NoConversion
<1>11. Honest /\ body.enc # Binary => body.enc = IF tx.target = "Off" THEN Named ELSE from
  BY <1>5 DEF Honest
<1>12. CASE tx.target = "Off" \/ from = Named
  <2>1. conv = NoConversion
    BY <1>2, <1>9, <1>12
  <2>2. QED
    BY <1>11, <1>12, <2>1 DEF ConvTo
<1>13. CASE tx.target # "Off" /\ from # Named
  <2>1. conv = <<from, Named>> /\ conv # NoConversion /\ SenderConverts
    BY <1>2, <1>3, <1>9, <1>10, <1>13
  <2>2. conv[1] = from /\ conv[2] = Named
    <3>1. PICK to : to = Named
      OBVIOUS
    <3>2. PICK c : c = <<from, to>>
      OBVIOUS
    <3>3. c[1] = from /\ c[2] = to
      BY <3>2
    <3>4. QED
      BY <2>1, <3>1, <3>2, <3>3
  <2>3. ConvTo(conv)
    BY <1>4, <1>10, <2>1, <2>2 DEF ConvTo
  <2>4. QED
    BY <1>11, <1>13, <2>1, <2>2, <2>3
<1>14. QED
  BY <1>12, <1>13

SenderConfigured ==
    SenderInv /\ ComposedInv /\ codec = Configured(Fresh, tx, head, FALSE, Override(body))

LEMMA SenderConvTo == SenderConfigured => ConvTo(codec.conv)
  BY SenderConv DEF SenderConfigured

\* What is sent: honest text arrives as it should be.
LEMMA OutgoingArrives ==
    ASSUME SenderInv, ComposedInv, IsText(text), text.enc = body.enc, text.zips = body.zips,
           text.good, text.whole,
           text.size = (IF body.empty THEN 0 ELSE Sizes[body.enc] + body.zips),
           codec = Configured(Fresh, tx, head, FALSE, Override(body)),
           NEW sent \in Outgoing(text)
    PROVE  /\ IsText(sent)
           /\ SenderOK /\ sent.size > 0 => Arriving(sent)
           /\ sent.whole \/ SenderConverts
           /\ codec.gzip => head.encoding = "gzip"
<1>1. PICK conv : conv = codec.conv
  OBVIOUS
<1>2. /\ ConvTo(conv) /\ (conv # NoConversion => SenderConverts /\ conv[2] = Named)
      /\ Honest /\ body.enc # Binary => body.enc = IF conv = NoConversion THEN Named ELSE conv[1]
  BY <1>1, SenderConv
<1>3. PICK zip \in BOOLEAN :
         codec.gzip = zip /\ (zip <=> tx.content /\ head.encoding = "gzip")
  BY DEF Configured, SenderInv
<1>4. PICK t : t = IF zip THEN Zipped(text) ELSE text
  OBVIOUS
<1>5. sent \in Conversions(t, conv)
  BY <1>1, <1>3, <1>4 DEF Outgoing
<1>6. /\ IsText(t) /\ t.enc = text.enc /\ t.good = text.good /\ t.whole
      /\ zip => t.zips = text.zips + 1 /\ t.size = text.size + 1
      /\ ~zip => t = text
  <2>1. CASE zip
    BY <1>4, <2>1, ZippedText
  <2>2. CASE ~zip
    BY <1>4, <2>2
  <2>3. QED
    BY <2>1, <2>2
<1>7. Becomes(t, conv, sent)
  BY <1>2, <1>5, <1>6, ConvertedText
<1>8. PICK size \in Nat : size = Sizes[body.enc] /\ size > 0
  BY MessageAssumption DEF ComposedInv
<1>9. sent.whole \/ SenderConverts
  BY <1>2, <1>6, <1>7 DEF Becomes
<1>10. ASSUME SenderOK, sent.size > 0 PROVE Arriving(sent)
  <2>1. t.zips = IF head.encoding = "gzip" THEN 1 ELSE 0
    <3>1. CASE head.encoding # "gzip"
      <4>1. ~zip /\ body.zips = 0
        <5>1. body.zips \in {0, 1}
          BY DEF ComposedInv
        <5>2. QED
          BY <1>3, <3>1, <5>1 DEF ComposedInv
      <4>2. QED
        BY <1>6, <3>1, <4>1
    <3>2. CASE head.encoding = "gzip"
      <4>1. tx.content <=> body.zips = 0
        BY <1>10, <3>2 DEF SenderOK, Honest
      <4>2. body.zips = 0 \/ body.zips = 1
        BY DEF ComposedInv
      <4>3. QED
        BY <1>3, <1>6, <3>2, <4>1, <4>2
    <3>3. QED
      BY <3>1, <3>2
  <2>2. t.size > 0 /\ IF body.empty THEN t.size = t.zips ELSE t.zips < t.size
    <3>1. t.size > 0
      BY <1>6, <1>7, <1>10 DEF Becomes, IsText
    <3>2. PICK zips \in Nat : zips = body.zips
      BY DEF ComposedInv
    <3>3. CASE body.empty
      <4>1. text.size = 0 /\ text.zips = 0
        BY <3>3 DEF ComposedInv
      <4>2. QED
        BY <1>6, <3>1, <3>3, <4>1
    <3>4. CASE ~body.empty
      <4>1. text.size = size + zips /\ text.zips = zips
        BY <1>8, <3>2, <3>4
      <4>2. QED
        <5>1. size + zips > zips
          BY <1>8, <3>2
        <5>2. zip => t.size = (size + zips) + 1 /\ t.zips = zips + 1
          BY <1>6, <4>1
        <5>3. ~zip => t.size = size + zips /\ t.zips = zips
          BY <1>6, <4>1
        <5>4. QED
          BY <1>8, <3>1, <3>2, <3>4, <5>1, <5>2, <5>3
    <3>5. QED
      BY <3>3, <3>4
  <2>3. CASE conv = NoConversion
    <3>1. sent = t
      BY <1>7, <2>3 DEF Becomes
    <3>2. t.enc = IF body.enc = Binary THEN Binary ELSE Named
      BY <1>2, <1>6, <1>10, <2>3 DEF SenderOK
    <3>3. body.empty => t.enc = Utf8
      BY <1>6 DEF ComposedInv
    <3>4. QED
      BY <1>6, <2>1, <2>2, <3>1, <3>2, <3>3 DEF Arriving
  <2>4. CASE conv # NoConversion
    <3>1. head.encoding # "gzip" /\ body.enc # Binary /\ t.zips = 0
      BY <1>2, <1>10, <2>1, <2>4 DEF SenderOK
    <3>2. t.enc = conv[1]
      BY <1>2, <1>6, <1>10, <2>4, <3>1 DEF SenderOK
    <3>3. sent.good /\ sent.enc = Named /\ sent.size > 0 /\ sent.zips = 0
      BY <1>2, <1>6, <1>7, <1>10, <2>2, <2>4, <3>1, <3>2 DEF Becomes
    <3>4. ~body.empty
      <4>1. ASSUME body.empty PROVE FALSE
        BY <2>2, <3>1, <4>1
      <4>2. QED
        BY <4>1
    <3>5. QED
      BY <3>1, <3>3, <3>4 DEF Arriving
  <2>5. QED
    BY <2>3, <2>4
<1>11. QED
  BY <1>3, <1>5, <1>7, <1>9, <1>10 DEF Becomes

\* What a receiver converts is from what the head says to what it asked for.
LEMMA ReceiverConv ==
    ASSUME OpsInv, ComposedInv, NEW conv, conv = Configured(Fresh, rx, head, TRUE, "none").conv
    PROVE  /\ ConvTo(conv)
           /\ conv = NoConversion <=> DecodingOff \/ Target = Named
           /\ conv # NoConversion => conv[1] = Named /\ conv[2] = Target
<1>1. PICK r : r = Resolve(rx, TRUE, head.charset, "none")
  OBVIOUS
<1>2. conv = IF r = NoConversion THEN NoConversion ELSE IF r[1] = r[2] THEN NoConversion ELSE r
  BY <1>1 DEF Configured, Fresh
<1>3. Named \in Encodings
  BY NamesNone DEF ComposedInv, Named
<1>4. rx.source = "Off" \/ rx.target = "Off" <=> DecodingOff
  BY DEF OpsInv
<1>5. rx.target # "Off" => Target = OrDefault(rx.target, Utf8) /\ Target \in Encodings
  <2>1. ASSUME rx.target # "Off" PROVE Target = OrDefault(rx.target, Utf8)
    BY <2>1, TargetFound DEF OpsInv
  <2>2. rx.target # "Off" => OrDefault(rx.target, Utf8) \in Encodings
    BY NamesNone DEF OpsInv, OrDefault
  <2>3. QED
    BY <2>1, <2>2
<1>6. rx.source # "Off" => OrDefault(rx.source, Named) = Named
  BY DEF OpsInv, OrDefault
<1>7. PICK from, to : from = Named /\ to = Target
  OBVIOUS
<1>8. r = IF DecodingOff THEN NoConversion ELSE <<from, to>>
  BY <1>1, <1>4, <1>5, <1>6, <1>7 DEF Resolve, Named
<1>9. PICK pair : pair = <<from, to>>
  OBVIOUS
<1>10. pair # NoConversion /\ Len(pair) = 2 /\ pair[1] = from /\ pair[2] = to
  BY <1>9 DEF NoConversion
<1>11. CASE DecodingOff \/ to = from
  <2>1. conv = NoConversion
    BY <1>2, <1>8, <1>9, <1>10, <1>11
  <2>2. QED
    BY <1>7, <1>11, <2>1 DEF ConvTo
<1>12. CASE ~DecodingOff /\ to # from
  <2>1. conv = pair
    BY <1>2, <1>8, <1>9, <1>10, <1>12
  <2>2. to \in Encodings
    BY <1>4, <1>5, <1>7, <1>12
  <2>3. QED
    BY <1>7, <1>10, <1>12, <2>1, <2>2 DEF ConvTo
<1>13. QED
  BY <1>11, <1>12

ReceiverConfigured ==
    OpsInv /\ ComposedInv /\ codec = Configured(Fresh, rx, head, TRUE, "none")

\* What a program should get of it.
ReadRight(got, string) ==
    /\ got.good
    /\ got.zips = 0 \/ ~rx.content
    /\ ~string /\ ~body.empty =>
          got.enc = IF body.enc = Binary THEN Binary
                    ELSE IF DecodingOff THEN Named ELSE Target
    /\ string /\ ~Valid(got) =>
          \/ got.zips > 0 \/ body.enc = Binary
          \/ Named # Utf8 /\ (DecodingOff \/ Target = Named)

LEMMA ReceiverConvTo == ReceiverConfigured => ConvTo(codec.conv)
  BY ReceiverConv DEF ReceiverConfigured

\* What is read of a text that arrived as it should.
LEMMA IncomingText ==
    ASSUME OpsInv, ComposedInv, IsText(text), text.size > 0,
           codec = Configured(Fresh, rx, head, TRUE, "none"),
           NEW string \in BOOLEAN, NEW conv,
           conv = IF string /\ codec.conv # NoConversion THEN <<codec.conv[1], Utf8>> ELSE codec.conv,
           NEW got \in Incoming(text, conv)
    PROVE  /\ IsText(got)
           /\ text.whole => got.whole \/ codec.conv # NoConversion
           /\ SenderOK /\ ConvertsText /\ Arriving(text) => ReadRight(got, string)
<1>1. /\ ConvTo(codec.conv)
      /\ codec.conv = NoConversion <=> DecodingOff \/ Target = Named
      /\ codec.conv # NoConversion => codec.conv[1] = Named /\ codec.conv[2] = Target
  BY ReceiverConv
<1>2. PICK zip \in BOOLEAN :
         codec.gzip = zip /\ (zip <=> rx.content /\ head.encoding = "gzip")
  BY DEF Configured, OpsInv
<1>3. PICK t : t = IF zip THEN Unzipped(text) ELSE text
  OBVIOUS
<1>4. got \in Conversions(t, conv)
  BY <1>2, <1>3 DEF Incoming
<1>5. /\ IsText(t) /\ t.enc = text.enc /\ t.whole = text.whole
      /\ zip /\ text.zips > 0 => /\ t.zips = text.zips - 1 /\ t.size = text.size - 1
                                /\ t.good = text.good
      /\ ~zip => t = text
  <2>1. CASE zip
    BY <1>3, <2>1, UnzippedText
  <2>2. CASE ~zip
    BY <1>3, <2>2
  <2>3. QED
    BY <2>1, <2>2
<1>6. /\ ConvTo(conv) /\ (conv = NoConversion <=> codec.conv = NoConversion)
      /\ conv # NoConversion => conv[1] = Named /\ conv[2] = IF string THEN Utf8 ELSE Target
  <2>1. CASE string /\ codec.conv # NoConversion
    <3>1. PICK from : from = codec.conv[1] /\ from = Named
      BY <1>1, <2>1
    <3>2. PICK pair : pair = <<from, Utf8>>
      OBVIOUS
    <3>3. pair # NoConversion /\ Len(pair) = 2 /\ pair[1] = from /\ pair[2] = Utf8
      BY <3>2 DEF NoConversion
    <3>4. conv = pair
      BY <2>1, <3>1, <3>2
    <3>5. QED
      BY <2>1, <3>1, <3>3, <3>4, NamesNone DEF ConvTo
  <2>2. CASE ~(string /\ codec.conv # NoConversion)
    <3>1. conv = codec.conv
      BY <2>2
    <3>2. QED
      BY <1>1, <2>2, <3>1
  <2>3. QED
    BY <2>1, <2>2
<1>7. Becomes(t, conv, got)
  BY <1>4, <1>5, <1>6, ConvertedText
<1>8. ASSUME SenderOK, ConvertsText, Arriving(text)
      PROVE  ReadRight(got, string)
  <2>1. t.good /\ (t.zips = 0 \/ (~rx.content /\ head.encoding = "gzip"))
    <3>1. text.good /\ text.zips = IF head.encoding = "gzip" THEN 1 ELSE 0
      BY <1>8 DEF Arriving
    <3>2. CASE zip
      <4>1. text.zips = 1
        BY <1>2, <3>1, <3>2
      <4>2. t.zips = 1 - 1 /\ t.good = text.good
        BY <1>5, <3>2, <4>1
      <4>3. QED
        BY <3>1, <4>2
    <3>3. CASE ~zip
      <4>1. t = text /\ (head.encoding = "gzip" => ~rx.content)
        BY <1>2, <1>5, <3>3
      <4>2. QED
        BY <3>1, <4>1
    <3>4. QED
      BY <3>2, <3>3
  <2>2. ~body.empty => t.size > 0 /\ t.enc = IF body.enc = Binary THEN Binary ELSE Named
    <3>1. ~body.empty =>
            text.zips < text.size /\ text.enc = IF body.enc = Binary THEN Binary ELSE Named
      BY <1>8 DEF Arriving
    <3>2. CASE zip
      <4>1. text.zips = 1
        BY <1>2, <1>8, <3>2 DEF Arriving
      <4>2. PICK size \in Nat : size = text.size /\ t.size = size - 1
        BY <1>5, <3>2, <4>1 DEF IsText
      <4>3. QED
        BY <1>5, <3>1, <4>1, <4>2
    <3>3. CASE ~zip
      <4>1. t = text
        BY <1>5, <3>3
      <4>2. QED
        BY <3>1, <4>1 DEF IsText
    <3>4. QED
      BY <3>2, <3>3
  <2>3. body.empty => t.enc = Utf8
    BY <1>5, <1>8 DEF Arriving
  <2>4. t.zips \in Nat
    BY <1>5 DEF IsText
  <2>5. CASE conv = NoConversion
    <3>1. got = t /\ codec.conv = NoConversion
      BY <1>6, <1>7, <2>5 DEF Becomes
    <3>2. ~body.empty => got.enc = IF body.enc = Binary THEN Binary
                                   ELSE IF DecodingOff THEN Named ELSE Target
      BY <1>1, <2>2, <3>1
    <3>3. ~Valid(got) => got.zips > 0 \/ got.enc # Utf8
      <4>1. PICK zips \in Nat : zips = got.zips
        BY <2>4, <3>1
      <4>2. got.zips # 0 => got.zips > 0
        BY <4>1
      <4>3. QED
        BY <3>1, <4>2, Zenon DEF Valid
    <3>4. got.enc # Utf8 => body.enc = Binary \/ Named # Utf8
      BY <2>2, <2>3, <3>1
    <3>5. QED
      BY <1>1, <2>1, <3>1, <3>2, <3>3, <3>4 DEF ReadRight
  <2>6. CASE conv # NoConversion
    <3>1. t.zips = 0 /\ body.enc # Binary /\ codec.conv # NoConversion
      BY <1>6, <1>8, <2>1, <2>6 DEF ConvertsText
    <3>2. Valid(got)
      BY <3>1 DEF Valid
    <3>3. CASE ~body.empty
      <4>1. got.good /\ got.zips = 0 /\ got.enc = IF string THEN Utf8 ELSE Target
        BY <1>6, <1>7, <2>1, <2>2, <2>6, <3>1, <3>3 DEF Becomes
      <4>2. QED
        BY <1>1, <3>1, <3>2, <3>3, <4>1 DEF ReadRight
    <3>4. CASE body.empty
      <4>1. text.size = text.zips
        BY <1>8, <3>4 DEF Arriving
      <4>2. t.size = 0
        BY <1>2, <1>5, <3>1, <4>1 DEF IsText
      <4>3. got = t
        BY <1>7, <4>2 DEF Becomes
      <4>4. QED
        BY <2>1, <3>1, <3>2, <3>4, <4>3 DEF ReadRight
    <3>5. QED
      BY <3>3, <3>4
  <2>7. QED
    BY <2>5, <2>6
<1>9. text.whole => got.whole \/ codec.conv # NoConversion
  BY <1>5, <1>6, <1>7 DEF Becomes
<1>10. QED
  BY <1>7, <1>8, <1>9 DEF Becomes

ArrivesInv ==
    /\ OpsInv /\ SenderInv /\ IsText(text)
    /\ stage \in {"build", "panic", "configured", "sent", "received", "bytes", "string", "failed"}
    /\ codec.gzip \in BOOLEAN /\ ConvTo(codec.conv)
    /\ stage \notin {"build", "panic"} => ComposedInv
    /\ stage = "configured" =>
          /\ text.enc = body.enc /\ text.zips = body.zips /\ text.good /\ text.whole
          /\ text.size = IF body.empty THEN 0 ELSE Sizes[body.enc] + body.zips
          /\ codec = Configured(Fresh, tx, head, FALSE, Override(body))
    /\ stage \in {"sent", "received"} /\ SenderOK /\ text.size > 0 => Arriving(text)
    /\ stage \in {"sent", "received"} => text.whole \/ SenderConverts
    /\ stage \in {"received", "bytes", "string", "failed"} =>
          codec = Configured(Fresh, rx, head, TRUE, "none")
    /\ TextArrives

LEMMA ArrivesInit == MessageInit => ArrivesInv
<1> SUFFICES ASSUME MessageInit PROVE ArrivesInv
  OBVIOUS
<1>1. ops = <<>> /\ toServer \in BOOLEAN /\ stage = "build" /\ tx = Defaults /\ rx = Defaults
      /\ codec = Fresh
      /\ text = [enc |-> Utf8, zips |-> 0, size |-> 0, good |-> TRUE, whole |-> TRUE]
  BY DEF MessageInit
<1>2. OpsInv
  <2>1. Labels = {} /\ ~DecodingOff
    BY <1>1 DEF Labels, Asked, DecodingOff
  <2>2. TargetIs(OrDefault(rx.target, Utf8))
    BY <1>1, <2>1 DEF TargetIs, OrDefault, Defaults
  <2>3. QED
    BY <1>1, <2>1, <2>2 DEF OpsInv, Defaults
<1>3. SenderInv
  BY <1>1 DEF SenderInv, Defaults
<1>4. IsText(text)
  BY <1>1, NamesNone DEF IsText
<1>5. codec.gzip \in BOOLEAN /\ ConvTo(codec.conv)
  BY <1>1 DEF Fresh, ConvTo
<1>6. QED
  BY <1>1, <1>2, <1>3, <1>4, <1>5 DEF ArrivesInv, TextArrives

\* The sender sets its parameters.
LEMMA SenderArrives ==
    ASSUME ArrivesInv, NEW on \in BOOLEAN, NEW label \in Encodings \cup {Bogus},
           \/ CharsetEncode(on) \/ ContentEncode(on) \/ PrebufferBody(on)
           \/ CharsetEncodeSource(label)
    PROVE  ArrivesInv'
<1>1. UNCHANGED <<toServer, rx, ops, text, codec>> /\ stage' \in {"build", "panic"}
  BY DEF CharsetEncode, ContentEncode, PrebufferBody, CharsetEncodeSource, BySender
<1>2. SenderInv'
  <2>1. \A t \in {"Auto", "Off"} : Toggle(t, on) \in {"Auto", "Off"}
    BY DEF Toggle
  <2>2. QED
    BY <2>1 DEF ArrivesInv, SenderInv, CharsetEncode, ContentEncode, PrebufferBody,
                CharsetEncodeSource
<1>3. OpsInv'
  BY <1>1, OpsStay DEF ArrivesInv
<1>4. QED
  BY <1>1, <1>2, <1>3 DEF ArrivesInv, TextArrives, IsText

\* The receiver does.
LEMMA ReceiverArrives ==
    ASSUME ArrivesInv, NEW on \in BOOLEAN, NEW label \in Encodings \cup {Bogus},
           CharsetDecode(on) \/ CharsetDecodeTarget(label) \/ ContentDecode(on)
    PROVE  ArrivesInv'
<1>1. OpsInv'
  BY ReceiverOps DEF ArrivesInv
<1>2. /\ UNCHANGED <<toServer, tx, body, head, text, stage>>
      /\ IF toServer THEN /\ stage = "received"
                          /\ codec' = Configured(Unconfigured(codec), rx', head, TRUE, "none")
                     ELSE stage = "build" /\ UNCHANGED codec
  BY DEF CharsetDecode, CharsetDecodeTarget, ContentDecode, ByReceiver
<1>3. SenderInv' /\ IsText(text)' /\ stage' \notin {"bytes", "string", "failed"}
  BY <1>2 DEF ArrivesInv, SenderInv, IsText
<1>4. TextArrives'
  BY <1>3 DEF TextArrives
<1>5. CASE ~toServer
  BY <1>1, <1>2, <1>3, <1>4, <1>5 DEF ArrivesInv
<1>6. CASE toServer
  <2>1. ComposedInv' /\ (SenderOK' <=> SenderOK) /\ (Arriving(text)' <=> Arriving(text))
        /\ (SenderConverts' <=> SenderConverts)
    BY <1>2, <1>6 DEF ArrivesInv, ComposedInv, SenderOK, Honest, SenderConverts, Arriving, Named
  <2>2. codec' = Configured(Fresh, rx, head, TRUE, "none")'
    BY <1>2, <1>6 DEF Unconfigured, Configured, Fresh, NoConversion
  <2>3. codec'.gzip \in BOOLEAN
    BY <1>1, <2>2 DEF Configured, OpsInv
  <2>4. ConvTo(codec.conv)'
    <3>1. ReceiverConfigured'
      BY <1>1, <2>1, <2>2 DEF ReceiverConfigured
    <3>2. QED
      BY <3>1, ReceiverConvTo, PTL
  <2>5. QED
    BY <1>1, <1>2, <1>3, <1>4, <1>6, <2>1, <2>2, <2>3, <2>4 DEF ArrivesInv
<1>7. QED
  BY <1>5, <1>6

LEMMA ComposeArrives == ASSUME ArrivesInv, Compose PROVE ArrivesInv'
<1>1. PICK b \in Bodies, h \in Heads :
        /\ b.zips = 1 => h.encoding = "gzip"
        /\ body' = b /\ head' = h
        /\ text' = [enc |-> b.enc, zips |-> b.zips, good |-> TRUE, whole |-> TRUE,
                    size |-> IF b.empty THEN 0 ELSE Sizes[b.enc] + b.zips]
        /\ codec' = Configured(Fresh, tx, h, FALSE, Override(b))
  BY DEF Compose
<1>2. stage' = "configured" /\ UNCHANGED <<toServer, tx, rx, ops>>
  BY DEF Compose
<1>3. OpsInv' /\ SenderInv'
  BY <1>2, OpsStay DEF ArrivesInv, SenderInv
<1>4. /\ b.enc \in Encodings \cup {Binary} /\ b.zips \in 0 .. 1
      /\ b.string => b.enc = Utf8
      /\ b.empty => b.enc = Utf8 /\ b.zips = 0 /\ b.known
  BY DEF Bodies
<1>5. /\ h.charset \in Encodings \cup {NoCharset}
      /\ h = [charset |-> h.charset, encoding |-> h.encoding, bare |-> h.bare,
              is304 |-> h.is304, http2 |-> h.http2, length |-> h.length, chunked |-> h.chunked]
  BY DEF Heads
<1>6. ComposedInv'
  BY <1>1, <1>4, <1>5 DEF ComposedInv
<1>7. PICK size0 \in Nat : size0 = Sizes[b.enc] /\ size0 > 0
  BY <1>4, MessageAssumption
<1>8. PICK size \in Nat :
        size = (IF b.empty THEN 0 ELSE Sizes[b.enc] + b.zips) /\ b.zips <= size
  <2>1. PICK zips \in Nat : zips = b.zips
    BY <1>4
  <2>2. CASE b.empty
    BY <1>4, <2>2
  <2>3. CASE ~b.empty
    BY <1>7, <2>1, <2>3
  <2>4. QED
    BY <2>2, <2>3
<1>9. text' = [enc |-> b.enc, zips |-> b.zips, good |-> TRUE, whole |-> TRUE, size |-> size]
  BY <1>1, <1>8
<1>10. IsText(text)'
  BY <1>4, <1>8, <1>9 DEF IsText
<1>11. codec' = Configured(Fresh, tx, head, FALSE, Override(body))'
  BY <1>1, <1>2 DEF Configured, Override, Fresh, NoConversion, Resolve
<1>12. codec'.gzip \in BOOLEAN
  BY <1>3, <1>11 DEF Configured, SenderInv
<1>13. ConvTo(codec.conv)'
  <2>1. SenderConfigured'
    BY <1>3, <1>6, <1>11 DEF SenderConfigured
  <2>2. QED
    BY <2>1, SenderConvTo, PTL
<1>14. text'.enc = body'.enc /\ text'.zips = body'.zips /\ text'.good /\ text'.whole
       /\ text'.size = IF body'.empty THEN 0 ELSE Sizes[body'.enc] + body'.zips
  BY <1>1, <1>8, <1>9
<1>15. QED
  BY <1>2, <1>3, <1>6, <1>10, <1>11, <1>12, <1>13, <1>14 DEF ArrivesInv, TextArrives

\* The head that is sent says of the text what the one that was composed did.
LEMMA FramedSame ==
    ASSUME ComposedInv, SenderInv, NEW buffered \in BOOLEAN, Send(buffered)
    PROVE  /\ ComposedInv' /\ SenderInv'
           /\ (SenderOK' => SenderOK) /\ SenderConverts' = SenderConverts
           /\ Named' = Named /\ head'.encoding = head.encoding
<1>1. PICK length, chunked, charset :
        /\ head' = [head EXCEPT !.length = length, !.chunked = chunked, !.charset = charset]
        /\ charset = head.charset
             \/ (head.charset = NoCharset /\ body.string /\ charset = Utf8)
  <2>1. PICK sent : head' = Framed(buffered, sent)
    BY DEF Send
  <2>2. CASE head.is304
    <3>1. head' = [head EXCEPT !.length = head.length, !.chunked = head.chunked,
                               !.charset = head.charset]
      BY <2>1, <2>2 DEF Framed, ComposedInv
    <3>2. QED
      BY <3>1
  <2>3. CASE ~head.is304
    BY <2>1, <2>3 DEF Framed
  <2>4. QED
    BY <2>2, <2>3
<1>2. head' = [charset |-> charset, encoding |-> head.encoding, bare |-> head.bare,
               is304 |-> head.is304, http2 |-> head.http2, length |-> length,
               chunked |-> chunked]
  BY <1>1 DEF ComposedInv
<1>3. head'.charset = charset /\ head'.encoding = head.encoding
      /\ UNCHANGED <<body, tx, toServer>>
  BY <1>2 DEF Send
<1>4. charset \in Encodings \cup {NoCharset}
  BY <1>1, NamesNone DEF ComposedInv
<1>5. head' = [charset |-> head'.charset, encoding |-> head'.encoding, bare |-> head'.bare,
               is304 |-> head'.is304, http2 |-> head'.http2, length |-> head'.length,
               chunked |-> head'.chunked]
  BY <1>2
<1>6. ComposedInv' /\ SenderInv'
  BY <1>3, <1>4, <1>5 DEF ComposedInv, SenderInv
<1>7. Named' = Named
  BY <1>1, <1>3, NamesNone DEF Named
<1>8. Resolve(tx, FALSE, head.charset, Override(body))' = Resolve(tx, FALSE, head.charset, Override(body))
  BY <1>3, <1>7 DEF Resolve, Named, Override, NoConversion
<1>9. SenderConverts' = SenderConverts
  BY <1>8 DEF SenderConverts, NoConversion
<1>10. SenderOK' => SenderOK
  BY <1>3, <1>7, <1>9 DEF SenderOK, Honest
<1>11. QED
  BY <1>3, <1>6, <1>7, <1>9, <1>10

LEMMA SendArrives ==
    ASSUME ArrivesInv, NEW buffered \in BOOLEAN, Send(buffered)
    PROVE  ArrivesInv'
<1>1. /\ SenderInv /\ ComposedInv /\ IsText(text) /\ text.enc = body.enc
      /\ text.zips = body.zips /\ text.good /\ text.whole
      /\ text.size = (IF body.empty THEN 0 ELSE Sizes[body.enc] + body.zips)
      /\ codec = Configured(Fresh, tx, head, FALSE, Override(body))
      /\ stage' = "sent" /\ codec' = Fresh /\ UNCHANGED <<toServer, tx, rx, ops, body>>
  BY DEF ArrivesInv, Send
<1>2. OpsInv'
  BY <1>1, OpsStay DEF ArrivesInv
<1>3. ComposedInv' /\ SenderInv' /\ (SenderOK' => SenderOK) /\ Named' = Named
      /\ head'.encoding = head.encoding /\ SenderConverts' = SenderConverts
  BY <1>1, FramedSame
<1>4. PICK sent \in Outgoing(text) :
         text' = IF ~buffered /\ DefinitelyNone(buffered, sent) THEN text ELSE sent
  BY DEF Send
<1>5. /\ IsText(sent) /\ (SenderOK /\ sent.size > 0 => Arriving(sent))
      /\ sent.whole \/ SenderConverts
  BY <1>1, OutgoingArrives
<1>6. text' = sent \/ (text' = text /\ text.size = 0)
  <2>1. ~buffered /\ DefinitelyNone(buffered, sent) => Length = 0
    BY DEF DefinitelyNone
  <2>2. Length = 0 => text.size = 0
    BY DEF Length, Unknown
  <2>3. QED
    BY <1>4, <2>1, <2>2
<1>7. IsText(text)' /\ (text.whole \/ SenderConverts)'
  BY <1>1, <1>3, <1>5, <1>6 DEF IsText
<1>8. ASSUME SenderOK', text'.size > 0 PROVE Arriving(text)'
  <2>1. text' = sent
    BY <1>1, <1>6, <1>8 DEF IsText
  <2>2. Arriving(sent)
    BY <1>3, <1>5, <1>8, <2>1
  <2>3. QED
    BY <1>1, <1>3, <2>1, <2>2 DEF Arriving
<1>9. QED
  BY <1>1, <1>2, <1>3, <1>7, <1>8 DEF ArrivesInv, TextArrives, Fresh, ConvTo

LEMMA ReceiveArrives == ASSUME ArrivesInv, Receive PROVE ArrivesInv'
<1>1. /\ stage = "sent" /\ stage' = "received"
      /\ UNCHANGED <<toServer, tx, rx, ops, setting, body, head, text>>
      /\ codec' = Configured(Fresh, rx, head, TRUE, "none")
  BY DEF Receive
<1>2. OpsInv'
  BY <1>1, OpsStay DEF ArrivesInv
<1>3. ComposedInv' /\ SenderInv' /\ (SenderOK' <=> SenderOK) /\ (Arriving(text)' <=> Arriving(text))
      /\ IsText(text)' /\ (SenderConverts' <=> SenderConverts)
  BY <1>1 DEF ArrivesInv, ComposedInv, SenderInv, SenderOK, Honest, SenderConverts, Arriving,
              Named, IsText
<1>4. codec' = Configured(Fresh, rx, head, TRUE, "none")'
  BY <1>1 DEF Configured, Fresh, NoConversion
<1>5. codec'.gzip \in BOOLEAN
  BY <1>2, <1>4 DEF Configured, OpsInv
<1>6. ConvTo(codec.conv)'
  <2>1. ReceiverConfigured'
    BY <1>2, <1>3, <1>4 DEF ReceiverConfigured
  <2>2. QED
    BY <2>1, ReceiverConvTo, PTL
<1>7. QED
  BY <1>1, <1>2, <1>3, <1>4, <1>5, <1>6 DEF ArrivesInv, TextArrives

LEMMA ReadArrives ==
    ASSUME ArrivesInv, NEW string \in BOOLEAN, Read(string)
    PROVE  ArrivesInv'
<1>1. /\ stage = "received" /\ text.size > 0
      /\ UNCHANGED <<toServer, tx, rx, ops, setting, body, head, codec>>
  BY DEF Read
<1>2. /\ OpsInv /\ SenderInv /\ ComposedInv /\ IsText(text)
      /\ codec = Configured(Fresh, rx, head, TRUE, "none")
      /\ SenderOK => Arriving(text)
      /\ text.whole \/ SenderConverts
      /\ codec.gzip \in BOOLEAN /\ ConvTo(codec.conv)
  BY <1>1 DEF ArrivesInv
<1>3. PICK conv : conv = IF string /\ codec.conv # NoConversion THEN <<codec.conv[1], Utf8>>
                                                                ELSE codec.conv
  OBVIOUS
<1>4. PICK got \in Incoming(text, conv) :
         /\ text' = got
         /\ stage' = IF ~string THEN "bytes" ELSE IF Valid(got) THEN "string" ELSE "failed"
  BY <1>3 DEF Read
<1>5. /\ IsText(got)
      /\ text.whole => got.whole \/ codec.conv # NoConversion
      /\ SenderOK /\ ConvertsText /\ Arriving(text) => ReadRight(got, string)
  BY <1>1, <1>2, <1>3, <1>4, IncomingText
<1>6. OpsInv'
  BY <1>1, <1>2, OpsStay
<1>7. UNCHANGED <<Asked, DecodingOff, Named, Honest, ConvertsText, SenderConverts>>
  BY <1>1 DEF Asked, DecodingOff, Named, Honest, ConvertsText, SenderConverts
<1>8. Target' = Target
  BY <1>1, <1>7 DEF Target
<1>9. Honest /\ ConvertsText => SenderOK
  BY DEF SenderOK, ConvertsText
<1>10. TextArrives'
  BY <1>1, <1>2, <1>4, <1>5, <1>7, <1>8, <1>9 DEF TextArrives, ReadRight
<1>11. ComposedInv' /\ SenderInv' /\ IsText(text)'
  BY <1>1, <1>2, <1>4, <1>5 DEF ComposedInv, SenderInv, IsText
<1>12. codec' = Configured(Fresh, rx, head, TRUE, "none")'
  BY <1>1, <1>2 DEF Configured, Fresh, NoConversion
<1>13. QED
  BY <1>1, <1>2, <1>4, <1>6, <1>10, <1>11, <1>12 DEF ArrivesInv, ConvTo

LEMMA ArrivesNext == ArrivesInv /\ [MessageNext]_messageVars => ArrivesInv'
<1> SUFFICES ASSUME ArrivesInv, [MessageNext]_messageVars PROVE ArrivesInv'
  OBVIOUS
<1>1. Bogus \in Encodings \cup {Bogus} /\ TRUE \in BOOLEAN
  OBVIOUS
<1>2. ASSUME NEW on \in BOOLEAN, CharsetEncode(on) \/ ContentEncode(on) \/ PrebufferBody(on)
      PROVE  ArrivesInv'
  BY <1>1, <1>2, SenderArrives
<1>3. ASSUME NEW label \in Encodings \cup {Bogus}, CharsetEncodeSource(label)
      PROVE  ArrivesInv'
  BY <1>1, <1>3, SenderArrives
<1>4. ASSUME NEW label \in Encodings \cup {Bogus}, CharsetDecodeTarget(label)
      PROVE  ArrivesInv'
  BY <1>1, <1>4, ReceiverArrives
<1>5. ASSUME NEW on \in BOOLEAN, CharsetDecode(on) \/ ContentDecode(on)
      PROVE  ArrivesInv'
  BY <1>1, <1>5, ReceiverArrives
<1>6. CASE UNCHANGED messageVars
  <2>1. UNCHANGED <<Asked, DecodingOff, Named, Honest, ConvertsText, SenderConverts>>
    BY <1>6 DEF messageVars, Asked, DecodingOff, Named, Honest, ConvertsText, SenderConverts
  <2>2. Target' = Target
    BY <1>6, <2>1 DEF messageVars, Target
  <2>3. OpsInv'
    BY <1>6, OpsStay DEF messageVars, ArrivesInv
  <2>4. TextArrives'
    BY <1>6, <2>1, <2>2 DEF messageVars, ArrivesInv, TextArrives
  <2>5. SenderInv' /\ ComposedInv' = ComposedInv /\ IsText(text)' /\ SenderOK' = SenderOK
        /\ Arriving(text)' = Arriving(text) /\ ConvTo(codec.conv)'
    BY <1>6, <2>1 DEF messageVars, ArrivesInv, SenderInv, ComposedInv, IsText, SenderOK,
                      Arriving, ConvTo
  <2>6. Configured(Fresh, rx, head, TRUE, "none")' = Configured(Fresh, rx, head, TRUE, "none")
        /\ Configured(Fresh, tx, head, FALSE, Override(body))'
             = Configured(Fresh, tx, head, FALSE, Override(body))
    BY <1>6 DEF messageVars, Configured, Fresh, NoConversion, Override
  <2>7. QED
    BY <1>6, <2>1, <2>3, <2>4, <2>5, <2>6 DEF messageVars, ArrivesInv
<1>7. QED
  BY <1>2, <1>3, <1>4, <1>5, <1>6, ComposeArrives, SendArrives, ReceiveArrives, ReadArrives
     DEF MessageNext

\* Whatever both sides set, in whatever order, the invariant of text holds.
THEOREM ArrivesCorrect == MessageSpec => []ArrivesInv
<1>1. QED
  BY ArrivesInit, ArrivesNext, PTL DEF MessageSpec

\* The receiver reads what was sent, in the encoding that its calls ask for.
THEOREM TextArrivesCorrect == MessageSpec => []TextArrives
<1>1. ArrivesInv => TextArrives
  BY DEF ArrivesInv
<1>2. QED
  BY <1>1, ArrivesCorrect, PTL

\* Types.
THEOREM MessageTypes == MessageSpec => []MessageTypeOK
<1>1. ArrivesInv => MessageTypeOK
  <2>1. ConvTo(codec.conv) => Len(codec.conv) \in {0, 2}
    BY DEF ConvTo, NoConversion
  <2>2. QED
    BY <2>1 DEF ArrivesInv, OpsInv, SenderInv, IsText, MessageTypeOK
<1>2. QED
  BY <1>1, ArrivesCorrect, PTL
=============================================================================
