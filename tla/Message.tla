------------------------------ MODULE Message ------------------------------
(***************************************************************************)
(* One message with a body from its sender to its receiver: what the       *)
(* parameters of both (params.rs, client/reqb_ext.rs, server/resb_ext.rs,  *)
(* server/serv_req_ext.rs) make of its text, its compression and its       *)
(* length (Body::configure(), configure_request(), configure_response()).  *)
(* The same steps, twice each, are Server::handle().                       *)
(*                                                                         *)
(* A text is what it is encoded in, how often it is compressed, its size,  *)
(* whether it is still what it was, and whether the end of it is still     *)
(* there.  Texts are empty, or such that no two encodings agree on them or *)
(* on a part of them; of what is compressed or other data no part is in an *)
(* encoding.                                                               *)
(***************************************************************************)
EXTENDS Integers, Sequences, FiniteSets

CONSTANTS
    Encodings,  \* encodings that Encoding::for_label() knows
    Utf8,       \* the one that is the default
    Binary,     \* what is in no encoding
    Sizes,      \* the size of the text in each of them
    MaxSettings      \* bound: calls that set parameters

ASSUME MessageAssumption ==
    /\ Utf8 \in Encodings /\ Binary \notin Encodings /\ MaxSettings \in Nat
    /\ Encodings \cap {"Auto", "Off", "none", "bogus"} = {}
    /\ Sizes \in [Encodings \cup {Binary} -> Nat \ {0}]

VARIABLES
    toServer,  \* a request; otherwise a response
    tx,        \* parameters of the sender
    rx,        \* parameters of the receiver
    ops,       \* history: the calls of the receiver that set parameters
    setting,   \* how many calls set parameters
    body,      \* what is sent
    head,      \* the head of the message
    codec,     \* codecs of the body where it is, at the sender or the receiver
    text,      \* the text where it is
    stage

messageVars == <<toServer, tx, rx, ops, setting, body, head, codec, text, stage>>
-----------------------------------------------------------------------------
NoCharset == "none"
Bogus == "bogus"
Unknown == -1
NoConversion == <<>>
Fresh == [gzip |-> FALSE, conv |-> NoConversion]

\* CharsetConfig::toggle_source(), toggle_target()
Toggle(setting0, on) ==
    IF on = (setting0 # "Off") THEN setting0 ELSE IF on THEN "Auto" ELSE "Off"

\* AutoCharset::resolve()
OrDefault(setting0, default) == IF setting0 = "Auto" THEN default ELSE setting0

\* As if the header named the source in both directions.
ResolveSourceFirst(config, incoming, charset, override) ==
    LET named == IF charset = NoCharset THEN Utf8 ELSE charset
    IN  IF (config.source = "Off" /\ override = "none") \/ config.target = "Off" THEN NoConversion
        ELSE <<IF override # "none" THEN override ELSE OrDefault(config.source, named),
               OrDefault(config.target, Utf8)>>

\* CharsetConfig::resolve(), charset_from_headers(): the header names the source
\* of what comes in, and the target of what goes out.
Resolve(config, incoming, charset, override) ==
    LET named == IF charset = NoCharset THEN Utf8 ELSE charset
    IN  IF (config.source = "Off" /\ override = "none") \/ config.target = "Off" THEN NoConversion
        ELSE <<IF override # "none" THEN override
               ELSE OrDefault(config.source, IF incoming THEN named ELSE Utf8),
               OrDefault(config.target, IF incoming THEN Utf8 ELSE named)>>

\* Body::configure(): nothing takes away a conversion that is there.
Configured(old, params, h, incoming, override) ==
    LET conv == Resolve(params, incoming, h.charset, override)
    IN  [gzip |-> params.content /\ h.encoding = "gzip",
         conv |-> IF conv = NoConversion THEN old.conv
                  ELSE IF conv[1] = conv[2] THEN old.conv ELSE conv]

\* As if only the compression were undone.
UnconfiguredZipOnly(old) == [old EXCEPT !.gzip = FALSE]

\* Body::unconfigure()
Unconfigured(old) == Fresh

(***************************************************************************)
(* CharCodec, read until it returns no bytes.  It does before the end when *)
(* it has part of a character and the source has no more at hand: then the *)
(* rest of the text is lost (read_to_end(), and whoever sends the body).   *)
(* What is not in the source encoding comes out as replacements.           *)
(***************************************************************************)
Conversions(t, conv) ==
    IF conv = NoConversion \/ t.size = 0 THEN {t}
    ELSE LET kept == t.good /\ t.zips = 0 /\ t.enc = conv[1]
             full == IF kept THEN Sizes[conv[2]] ELSE t.size + 3
         IN  {[t EXCEPT !.enc = conv[2], !.size = n, !.good = kept, !.whole = @ /\ n = full] :
                n \in 0 .. full}

\* GzipEncoder, also of nothing; GzipDecoder fails on what is not compressed.
Zipped(t) == [t EXCEPT !.zips = @ + 1, !.size = @ + 1]

Unzipped(t) == IF t.zips > 0 THEN [t EXCEPT !.zips = @ - 1, !.size = @ - 1]
                             ELSE [t EXCEPT !.good = FALSE]

(***************************************************************************)
(* Body::poll_read(): the conversion reads from the other codec, also of   *)
(* what goes out, which is compressed then.                                *)
(***************************************************************************)
Outgoing(t) == Conversions(IF codec.gzip THEN Zipped(t) ELSE t, codec.conv)

Incoming(t, conv) == Conversions(IF codec.gzip THEN Unzipped(t) ELSE t, conv)
-----------------------------------------------------------------------------
Defaults == [source |-> "Auto", target |-> "Auto", content |-> TRUE, prebuffer |-> TRUE]

Bodies ==
    {b \in [enc : Encodings \cup {Binary}, string : BOOLEAN, known : BOOLEAN,
            zips : 0 .. 1, empty : BOOLEAN] :
        /\ b.string => b.enc = Utf8 /\ b.known /\ b.zips = 0
        /\ ~b.known => b.zips = 0
        /\ b.empty => b.enc = Utf8 /\ b.zips = 0 /\ b.known}

\* The head as the program gives it, without a length or a transfer-encoding of
\* its own; bare is a method that indicates no body, or a status that redirects,
\* taken here with HTTP/1 only, 304 among these.
Heads ==
    {h \in [charset : Encodings \cup {NoCharset}, encoding : {"none", "gzip"},
            bare : BOOLEAN, is304 : BOOLEAN, http2 : BOOLEAN, length : {Unknown},
            chunked : {FALSE}] :
        /\ h.bare => ~h.http2
        /\ h.is304 => h.bare}

MessageInit ==
    /\ toServer \in BOOLEAN
    /\ tx = Defaults /\ rx = Defaults /\ ops = <<>> /\ setting = 0
    /\ body = [enc |-> Utf8, string |-> FALSE, known |-> TRUE, zips |-> 0, empty |-> TRUE]
    /\ head \in {h \in Heads : h.charset = NoCharset /\ h.encoding = "none" /\ ~h.bare
                               /\ ~h.http2}
    /\ codec = Fresh
    /\ text = [enc |-> Utf8, zips |-> 0, size |-> 0, good |-> TRUE, whole |-> TRUE]
    /\ stage = "build"

Sets == setting < MaxSettings /\ setting' = setting + 1

BySender ==
    /\ stage = "build" /\ Sets
    /\ UNCHANGED <<toServer, rx, ops, body, head, codec, text>>

CharsetEncode(on) ==
    BySender /\ tx' = [tx EXCEPT !.target = Toggle(@, on)] /\ UNCHANGED stage

\* A label that is not known is ignored in a request, and panics in a response.
CharsetEncodeSource(label) ==
    /\ BySender
    /\ tx' = IF label \in Encodings THEN [tx EXCEPT !.source = label] ELSE tx
    /\ stage' = IF label \in Encodings \/ toServer THEN stage ELSE "panic"

ContentEncode(on) == BySender /\ tx' = [tx EXCEPT !.content = on] /\ UNCHANGED stage

PrebufferBody(on) == BySender /\ tx' = [tx EXCEPT !.prebuffer = on] /\ UNCHANGED stage

(***************************************************************************)
(* A client sets how it reads the response in its request, before there is *)
(* one.  A server does when it has the request, and with each call the     *)
(* codecs of its body are made anew.                                       *)
(***************************************************************************)
ByReceiver(op, params) ==
    /\ Sets
    /\ rx' = params
    /\ ops' = Append(ops, op)
    /\ IF toServer THEN /\ stage = "received"
                        /\ codec' = Configured(Unconfigured(codec), params, head, TRUE, "none")
                   ELSE stage = "build" /\ UNCHANGED codec
    /\ UNCHANGED <<toServer, tx, body, head, text, stage>>

\* The client switches the source off and on, the server the target.
CharsetDecode(on) ==
    ByReceiver([call |-> "decode", on |-> on],
               IF toServer THEN [rx EXCEPT !.target = Toggle(@, on)]
                           ELSE [rx EXCEPT !.source = Toggle(@, on)])

CharsetDecodeTarget(label) ==
    ByReceiver([call |-> "target", label |-> label],
               IF label \in Encodings THEN [rx EXCEPT !.target = label] ELSE rx)

ContentDecode(on) == ByReceiver([call |-> "content"], [rx EXCEPT !.content = on])
-----------------------------------------------------------------------------
Override(b) == IF b.string THEN Utf8 ELSE "none"

\* The message is complete: send_request(), handle_response() configure its body.
Compose ==
    /\ stage = "build"
    /\ \E b \in Bodies, h \in Heads :
          /\ b.zips = 1 => h.encoding = "gzip"
          /\ b.enc = Binary => h.charset = NoCharset
          /\ h.is304 => ~toServer
          /\ body' = b /\ head' = h
          /\ text' = [enc |-> b.enc, zips |-> b.zips, good |-> TRUE, whole |-> TRUE,
                      size |-> IF b.empty THEN 0 ELSE Sizes[b.enc] + b.zips]
          /\ codec' = Configured(Fresh, tx, h, FALSE, Override(b))
    /\ stage' = "configured"
    /\ UNCHANGED <<toServer, tx, rx, ops, setting>>

\* What Body.length says, before the body is prebuffered.
Length == IF body.known THEN text.size ELSE Unknown

\* As if the length of the source were that of the body.
EncodedLengthOfSource(buffered, sent) == Length

\* content_encoded_length(), and attempt_prebuffer() when it has it all.
EncodedLength(buffered, sent) ==
    IF buffered THEN sent.size
    ELSE IF codec.gzip \/ codec.conv # NoConversion THEN Unknown ELSE Length

\* is_definitely_no_body()
DefinitelyNone(buffered, sent) == (IF buffered THEN sent.size ELSE Length) = 0

\* configure_request(), configure_response(), which adds nothing to a 304.
Framed(buffered, sent) ==
    LET length == EncodedLength(buffered, sent)
        wanted == IF toServer THEN ~DefinitelyNone(buffered, sent) ELSE ~head.bare
    IN  IF head.is304 THEN head
        ELSE [head EXCEPT
                !.length = IF length > 0 \/ ~head.bare THEN length ELSE @,
                !.chunked = length = Unknown /\ ~head.http2 /\ wanted,
                !.charset = IF head.charset = NoCharset /\ body.string THEN Utf8 ELSE @]

\* The whole body fits the prebuffer, or it does not; head and body are sent.
Send(buffered) ==
    /\ stage = "configured"
    /\ buffered => tx.prebuffer
    /\ body.empty => buffered = tx.prebuffer
    /\ \E sent \in Outgoing(text) :
          /\ head' = Framed(buffered, sent)
          /\ text' = IF ~buffered /\ DefinitelyNone(buffered, sent) THEN text ELSE sent
    /\ codec' = Fresh
    /\ stage' = "sent"
    /\ UNCHANGED <<toServer, tx, rx, ops, setting, body>>

\* configure() of what comes in.
Receive ==
    /\ stage = "sent"
    /\ codec' = Configured(Fresh, rx, head, TRUE, "none")
    /\ stage' = "received"
    /\ UNCHANGED <<toServer, tx, rx, ops, setting, body, head, text>>

\* String::from_utf8(): all that a conversion makes is valid, and of the rest UTF-8.
Valid(t) == codec.conv # NoConversion \/ (t.enc = Utf8 /\ t.zips = 0)

\* read_to_vec(), or read_to_string(), which removes the encoder.
Read(string) ==
    /\ stage = "received"
    /\ text.size > 0
    /\ text' \in Incoming(text, IF string /\ codec.conv # NoConversion
                                   THEN <<codec.conv[1], Utf8>> ELSE codec.conv)
    /\ stage' = IF ~string THEN "bytes" ELSE IF Valid(text') THEN "string" ELSE "failed"
    /\ UNCHANGED <<toServer, tx, rx, ops, setting, body, head, codec>>

MessageNext ==
    \/ \E on \in BOOLEAN : CharsetEncode(on) \/ ContentEncode(on) \/ PrebufferBody(on)
    \/ \E label \in Encodings \cup {Bogus} : CharsetEncodeSource(label) \/ CharsetDecodeTarget(label)
    \/ \E on \in BOOLEAN : CharsetDecode(on) \/ ContentDecode(on)
    \/ Compose
    \/ \E buffered \in BOOLEAN : Send(buffered)
    \/ Receive
    \/ \E string \in BOOLEAN : Read(string)

MessageSpec == MessageInit /\ [][MessageNext]_messageVars
-----------------------------------------------------------------------------
\* Types.
MessageTypeOK ==
    /\ tx.target \in {"Auto", "Off"} /\ tx.source \in Encodings \cup {"Auto"}
    /\ rx.target \in Encodings \cup {"Auto", "Off"} /\ rx.source \in {"Auto", "Off"}
    /\ codec.gzip \in BOOLEAN /\ Len(codec.conv) \in {0, 2}
    /\ text.size \in Nat /\ text.enc \in Encodings \cup {Binary} /\ text.whole \in BOOLEAN

\* What the calls of the receiver ask for, read off the calls: a server that
\* switches decoding off forgets its target, and a target switches it on again.
TurnsOff(op) == op.call = "decode" /\ ~op.on

Asked ==
    LET offs == {i \in DOMAIN ops : TurnsOff(ops[i])}
    IN  IF toServer THEN {i \in DOMAIN ops : \A j \in offs : j < i} ELSE DOMAIN ops

DecodingOff ==
    \E i \in DOMAIN ops :
        /\ TurnsOff(ops[i])
        /\ \A j \in i + 1 .. Len(ops) :
              /\ ops[j].call # "decode"
              /\ toServer => ops[j].call # "target" \/ ops[j].label = Bogus

Target ==
    LET labels == {i \in Asked : ops[i].call = "target" /\ ops[i].label # Bogus}
    IN  IF labels = {} THEN Utf8
        ELSE ops[CHOOSE i \in labels : \A j \in labels : j <= i].label

Named == IF head.charset = NoCharset THEN Utf8 ELSE head.charset

\* The program tells the truth: the text is encoded as it says or as the default
\* is, and a body that is said to be compressed is, by it or by the sender.
Honest ==
    /\ body.enc \in {Binary, IF tx.target = "Off" THEN Named
                             ELSE IF body.string THEN Utf8 ELSE OrDefault(tx.source, Utf8)}
    /\ head.encoding = "gzip" => (tx.content <=> body.zips = 0)

SenderConverts ==
    LET conv == Resolve(tx, FALSE, head.charset, Override(body))
    IN  conv # NoConversion /\ conv[1] # conv[2]

\* No conversion takes something for text that is none: compressed text, which
\* conversions come after at the sender and, with content_decode(false), at the
\* receiver; or other data, which they leave alone only while both encodings are
\* the default.
ConvertsText ==
    /\ SenderConverts => head.encoding = "none" /\ body.enc # Binary
    /\ codec.conv # NoConversion =>
          (head.encoding = "gzip" => rx.content) /\ body.enc # Binary

\* The receiver reads what was sent: bytes in the encoding that its calls ask for
\* whatever their order ("Setting this to `false` disables" it), and a string
\* unless nothing is converted of what is not UTF-8 (params.rs:66-96,
\* body.rs:486-491).  Of what no conversion touches no end is lost either.
TextArrives ==
    stage \in {"bytes", "string", "failed"} /\ Honest /\ ConvertsText =>
        /\ text.good
        /\ text.zips = 0 \/ ~rx.content
        /\ text.whole \/ SenderConverts \/ codec.conv # NoConversion
        /\ stage = "bytes" /\ ~body.empty =>
              text.enc = IF body.enc = Binary THEN Binary
                         ELSE IF DecodingOff THEN Named ELSE Target
        /\ stage = "failed" => \/ text.zips > 0 \/ body.enc = Binary
                               \/ Named # Utf8 /\ (DecodingOff \/ Target = Named)

\* A content-length is that of the bytes that are sent, though compression and
\* conversion change it, and on HTTP/1 a body has one or is chunked, unless it
\* is of unknown length in a redirect (body.rs:464-473, client/conn.rs:137-153,
\* server/conn.rs:268-284).
LengthIsTrue ==
    stage = "sent" =>
        /\ head.length # Unknown => head.length = text.size
        /\ text.size > 0 /\ ~head.http2 /\ (toServer \/ ~head.bare) =>
              (head.length # Unknown \/ head.chunked)
=============================================================================
