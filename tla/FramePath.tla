------------------------------ MODULE FramePath ------------------------------
(***************************************************************************)
(* The way of a sensor frame: the encoders (cookie_frame_to_json, and      *)
(* build_frame of the RIOT and Contiki-NG ports), the gateway that prints  *)
(* the payload, and cookie_frame_from_json, which reads a printed line     *)
(* back.  Text is a sequence of JSON tokens; of the bytes only their       *)
(* number is kept, because the buffers are counted in them.  A reading is  *)
(* named by its key; the two unsigned 32-bit counters are numbers.         *)
(***************************************************************************)
EXTENDS Integers, Sequences, FiniteSets

CONSTANTS BufSizes,    \* CONFIG_COOKIE_PROTO_FRAME_BUF_SIZE of the builds
          PadLens,     \* CONFIG_NODE_PAYLOAD_PAD_BYTES, PAYLOAD_PAD
          Extras,      \* bytes the numbers of a piece take beyond the fewest
          MaxPayload,  \* MAX_PAYLOAD of the gateway
          LongMax,     \* LONG_MAX; a uint32_t goes to 2 * LongMax + 1
          UInt         \* the values of the frame's two uint32_t counters

ASSUME SizesAssumption ==
    /\ BufSizes \subseteq Nat \ {0, 1} /\ PadLens \subseteq Nat
    /\ Extras \subseteq Nat /\ MaxPayload \in Nat
    /\ LongMax \in Nat /\ UInt \subseteq 0..(2 * LongMax + 1)

VARIABLES
    stage,    \* the step the frame waits for, or what became of it
    frame,    \* the frame on its way
    next,     \* pieces of it the encoder has appended
    padLeft,  \* left
    off,      \* bytes in the encoder's buffer
    text,     \* tokens in it
    line,     \* tokens the gateway printed
    p,        \* the decoder's place in the line
    out       \* the fields it has set, and to what

vars == <<stage, frame, next, padLeft, off, text, line, p, out>>
encoder == <<next, padLeft, off, text>>
decoder == <<line, p, out>>

-----------------------------------------------------------------------------
(* The frame.  A driver returns all its fields or none.                    *)

Roles == {"", "CHILD", "DISABLED", "SED"}
Groups == {"env", "imu", "power"}
\* What a build fixes, and what changes from frame to frame.
Builds == [node : {"zephyr"}, buf : BufSizes, pad : PadLens]
          \cup [node : {"riot", "contiki"}, buf : {0}, pad : PadLens]
Contents(node) ==
    IF node = "zephyr"
    THEN [role : Roles \ {"SED"}, ts : UInt, active : {0}, has : SUBSET Groups, extra : Extras]
         \cup [role : {"SED"}, ts : UInt, active : UInt, has : SUBSET Groups, extra : Extras]
    ELSE [role : {"SED"}, ts : UInt, active : UInt, has : SUBSET {"env", "imu"}, extra : Extras]
Filled(b, c) == [node |-> b.node, buf |-> b.buf, pad |-> b.pad, role |-> c.role, ts |-> c.ts,
                 active |-> c.active, has |-> c.has, extra |-> c.extra]

LongKeys == {"ts", "t_active_ms"}
ArrayKeys == {"accel_g", "gyro_dps"}
StringKeys == {"src", "role"}
NumberKeys == LongKeys \cup {"rssi", "hops", "vbat_mv", "temp_c", "humid_pct",
                             "i_avg_ma", "i_pk_ma"}
KnownKeys == NumberKeys \cup StringKeys \cup ArrayKeys

-----------------------------------------------------------------------------
(* The text.  A piece is what one snprintf appends: its tokens, and the     *)
(* fewest and the most bytes its numbers may take.                         *)

Punct(c) == [t |-> c, v |-> c]
Str(s) == [t |-> "str", v |-> s]
Num(n) == [t |-> "num", v |-> n]
Member(key, value) == <<Punct("comma"), Str(key), Punct("colon")>> \o value
Reading(key) == Member(key, <<Num(key)>>)
Axes(key) == Member(key, <<Punct("bracket"), Num(<<key, 1>>), Punct("comma"), Num(<<key, 2>>),
                           Punct("comma"), Num(<<key, 3>>), Punct("endbracket")>>)
Piece(least, most, tokens) == [least |-> least, most |-> most, tokens |-> tokens]
If(cond, piece) == IF cond THEN <<piece>> ELSE <<>>

\* The first snprintf of every encoder.
Start(f, role, least, most) ==
    <<Piece(least, most,
            <<Punct("brace"), Str("ts"), Punct("colon"), Num(f.ts)>> \o Member("src", <<Str("src")>>)
            \o Member("role", <<Str(role)>>) \o Reading("rssi") \o Reading("hops"))>>
ActiveTime(f) == Member("t_active_ms", <<Num(f.active)>>)

\* cookie_frame_to_json up to the padding.  Only the SED loop sets t_active_ms.
ZephyrPieces(f) ==
    Start(f, IF f.role = "" THEN "DETACHED" ELSE f.role, 51, 70)
    \o If("env" \in f.has, Piece(14, 16, Reading("temp_c")))
    \o If("env" \in f.has, Piece(17, 19, Reading("humid_pct")))
    \o If(f.role = "SED", Piece(16, 25, ActiveTime(f)))
    \o If("imu" \in f.has, Piece(30, 36, Axes("accel_g")))
    \o If("imu" \in f.has, Piece(28, 40, Axes("gyro_dps")))
    \o If("power" \in f.has, Piece(17, 20, Reading("i_avg_ma")))
    \o If("power" \in f.has, Piece(16, 19, Reading("i_pk_ma")))
    \o If("power" \in f.has, Piece(12, 16, Reading("vbat_mv")))

\* build_frame of the RIOT node.
RiotPieces(f) ==
    Start(f, "SED", 51, 60)
    \o If("env" \in f.has, Piece(31, 35, Reading("temp_c") \o Reading("humid_pct")))
    \o If("imu" \in f.has, Piece(30, 33, Axes("accel_g")))
    \o <<Piece(28, 37, ActiveTime(f) \o Member("os", <<Str("riot")>>))>>

\* build_frame of the Contiki-NG node.
ContikiPieces(f) ==
    Start(f, "SED", 51, 60)
    \o If("env" \in f.has, Piece(31, 35, Reading("temp_c") \o Reading("humid_pct")))
    \o If("imu" \in f.has, Piece(30, 33, Axes("accel_g")))
    \o <<Piece(18, 18, Member("os", <<Str("contiki-ng")>>))>>

Pieces(f) == CASE f.node = "zephyr" -> ZephyrPieces(f)
               [] f.node = "riot" -> RiotPieces(f)
               [] f.node = "contiki" -> ContikiPieces(f)

\* The buffer: char json[...] of the push, of the RIOT and of the Contiki-NG node.
BufLen(f) == CASE f.node = "zephyr" -> f.buf
               [] f.node = "riot" -> 224 + f.pad
               [] f.node = "contiki" -> 192 + f.pad

Bytes(f, piece) == IF piece.least + f.extra < piece.most THEN piece.least + f.extra
                   ELSE piece.most

-----------------------------------------------------------------------------
Init == /\ \E b \in Builds : \E c \in Contents(b.node) : frame = Filled(b, c)
        /\ stage = "idle"
        /\ next = 0 /\ padLeft = 0 /\ off = 0 /\ text = <<>>
        /\ line = <<>> /\ p = 1 /\ out = <<>>

\* The node has its next frame to send.
Report ==
    /\ stage \in {"nospace", "ok", "einval"}
    /\ \E c \in Contents(frame.node) : frame' = Filled(frame, c)
    /\ stage' = "idle"
    /\ next' = 0 /\ padLeft' = 0 /\ off' = 0 /\ text' = <<>>
    /\ line' = <<>> /\ p' = 1 /\ out' = <<>>

\* APPEND where the terminating NUL is not counted.
AppendNoNul(bytes, tokens, done) ==
    /\ IF bytes > BufLen(frame) - off
       THEN stage' = "nospace" /\ UNCHANGED <<off, text>>
       ELSE stage' = done /\ off' = off + bytes /\ text' = text \o tokens
    /\ UNCHANGED <<frame, decoder>>

\* APPEND: snprintf into what is left of the buffer; the frame is given up when
\* the text and its NUL do not fit.  done is the stage that follows.
AppendText(bytes, tokens, done) ==
    /\ IF bytes >= BufLen(frame) - off
       THEN stage' = "nospace" /\ UNCHANGED <<off, text>>
       ELSE stage' = done /\ off' = off + bytes /\ text' = text \o tokens
    /\ UNCHANGED <<frame, decoder>>

\* The head and the optional fields, in their order.
EncodePiece ==
    /\ stage = "idle" /\ next < Len(Pieces(frame))
    /\ LET piece == Pieces(frame)[next + 1]
       IN  AppendText(Bytes(frame, piece), piece.tokens, "idle")
    /\ next' = next + 1
    /\ UNCHANGED padLeft

PadOpen ==
    /\ stage = "idle" /\ next = Len(Pieces(frame)) /\ frame.pad > 0
    /\ AppendText(8, <<Punct("comma"), Str("pad"), Punct("colon")>>, "pad")
    /\ padLeft' = frame.pad
    /\ UNCHANGED next

\* The filler of cookie_frame_to_json goes out 32 bytes at a time.
PadChunk ==
    /\ stage = "pad" /\ padLeft > 0 /\ frame.node = "zephyr"
    /\ LET chunk == IF padLeft < 32 THEN padLeft ELSE 32
       IN  AppendText(chunk, <<>>, "pad") /\ padLeft' = padLeft - chunk
    /\ UNCHANGED next

\* The ports write it byte by byte, and keep three bytes free.
PortPad ==
    /\ stage = "pad" /\ padLeft > 0 /\ frame.node # "zephyr"
    /\ IF off + padLeft - 1 >= BufLen(frame) - 3
       THEN stage' = "nospace" /\ UNCHANGED <<off, padLeft>>
       ELSE off' = off + padLeft /\ padLeft' = 0 /\ UNCHANGED stage
    /\ UNCHANGED <<frame, next, text, decoder>>

PadClose ==
    /\ stage = "pad" /\ padLeft = 0
    /\ AppendText(1, <<Str("x")>>, "close")
    /\ UNCHANGED <<next, padLeft>>

Padded == \/ stage = "close"
          \/ stage = "idle" /\ next = Len(Pieces(frame)) /\ frame.pad = 0

\* The last brace; the ports want two more bytes for it.
EncodeEnd ==
    /\ Padded
    /\ AppendText(IF frame.node = "zephyr" THEN 1 ELSE 2, <<Punct("endbrace")>>, "sent")
    /\ UNCHANGED <<next, padLeft>>

-----------------------------------------------------------------------------
\* sensors_post_handler copies at most MaxPayload bytes and prints them; a cut
\* falls somewhere before the last brace.
PrintPayload ==
    /\ stage = "sent" /\ frame.node = "zephyr"
    /\ IF off <= MaxPayload
       THEN line' = text
       ELSE \E n \in 1..(Len(text) - 1) : line' = SubSeq(text, 1, n)
    /\ stage' = "open"
    /\ UNCHANGED <<frame, encoder, p, out>>

\* A port's node prints the frame on its own console before it sends it, and
\* its gateway prints the payload where it lies, behind a tag.
PortPrints ==
    /\ stage = "sent" /\ frame.node # "zephyr"
    /\ line' = text
    /\ stage' = "open"
    /\ UNCHANGED <<frame, encoder, p, out>>

PortGatewayPrints ==
    /\ stage = "sent" /\ frame.node # "zephyr"
    /\ line' = <<Punct("RX")>> \o text
    /\ stage' = "open"
    /\ UNCHANGED <<frame, encoder, p, out>>

-----------------------------------------------------------------------------
(* cookie_frame_from_json, one turn of its loop in two steps: the member,   *)
(* and what follows it.                                                    *)

T(q) == IF q <= Len(line) THEN line[q].t ELSE "end"
V(q) == line[q].v

\* role_intern: a role it does not know is called UNKNOWN.
Intern(role) == IF role \in {"LEADER", "ROUTER", "REED", "CHILD", "DETACHED", "SED"}
                THEN role ELSE "UNKNOWN"

\* strtol saturates; the other numbers stay far from its limits.
ParseLong(n) == IF n > LongMax THEN LongMax ELSE n

\* How deep in brackets and braces place r is, seen from q.
Count(q, r, S) == Cardinality({i \in q..(r - 1) : T(i) \in S})
Depth(q, r) == Count(q, r, {"bracket", "brace"}) - Count(q, r, {"endbracket", "endbrace"})

\* Skipping an unknown key's value up to the next comma, however deep.
SkipToComma(q) ==
    CHOOSE r \in q..(Len(line) + 1) :
        /\ r > Len(line) \/ T(r) = "comma"
        /\ \A s \in q..(r - 1) : T(s) # "comma"

\* The value of an unknown key ends at a comma, bracket or brace of its depth.
SkipValue(q) ==
    LET Ends(r) == r > Len(line) \/ (T(r) \in {"comma", "endbracket", "endbrace"} /\ Depth(q, r) = 0)
    IN  CHOOSE r \in q..(Len(line) + 1) : Ends(r) /\ \A s \in q..(r - 1) : ~Ends(s)

IsArray(q) == /\ T(q) = "bracket" /\ T(q + 6) = "endbracket"
              /\ \A i \in {1, 3, 5} : T(q + i) = "num"
              /\ \A i \in {2, 4} : T(q + i) = "comma"

\* The place after the value of this key, 0 if the value is malformed.
ValueEnd(key, q) ==
    CASE key \in NumberKeys -> IF T(q) = "num" THEN q + 1 ELSE 0
      [] key \in StringKeys -> IF T(q) = "str" THEN q + 1 ELSE 0
      [] key \in ArrayKeys -> IF IsArray(q) THEN q + 7 ELSE 0
      [] OTHER -> IF T(q) = "end" THEN 0 ELSE SkipValue(q)

\* What the decoder makes of the value of a key it knows.
FieldValue(key, q) ==
    CASE key = "role" -> Intern(V(q))
      [] key \in LongKeys -> ParseLong(V(q))
      [] key \in ArrayKeys -> <<V(q + 1), V(q + 3), V(q + 5)>>
      [] OTHER -> V(q)

DecodeOpen ==
    /\ stage = "open" /\ T(1) = "brace"
    /\ p' = 2
    /\ stage' = "member"
    /\ UNCHANGED <<frame, encoder, line, out>>

WellFormed == T(p) = "str" /\ T(p + 1) = "colon" /\ ValueEnd(V(p), p + 2) # 0

DecodeMember ==
    /\ stage = "member" /\ WellFormed
    /\ out' = IF V(p) \in KnownKeys
              THEN [k \in DOMAIN out \cup {V(p)} |->
                       IF k = V(p) THEN FieldValue(V(p), p + 2) ELSE out[k]]
              ELSE out
    /\ p' = ValueEnd(V(p), p + 2)
    /\ stage' = "next"
    /\ UNCHANGED <<frame, encoder, line>>

DecodeComma ==
    /\ stage = "next" /\ T(p) = "comma"
    /\ p' = p + 1
    /\ stage' = "member"
    /\ UNCHANGED <<frame, encoder, line, out>>

DecodeEnd ==
    /\ stage \in {"member", "next"} /\ T(p) = "endbrace"
    /\ stage' = "ok"
    /\ UNCHANGED <<frame, encoder, decoder>>

\* A decoder that is content with a text that ends after a member.
DecodeErrorUnlessEnd ==
    /\ \/ stage = "open" /\ T(1) # "brace"
       \/ stage = "member" /\ T(p) # "endbrace" /\ ~WellFormed
       \/ stage = "next" /\ T(p) \notin {"comma", "endbrace"}
    /\ stage' = IF stage = "next" /\ T(p) = "end" THEN "ok" ELSE "einval"
    /\ UNCHANGED <<frame, encoder, decoder>>

DecodeError ==
    /\ \/ stage = "open" /\ T(1) # "brace"
       \/ stage = "member" /\ T(p) # "endbrace" /\ ~WellFormed
       \/ stage = "next" /\ T(p) \notin {"comma", "endbrace"}
    /\ stage' = "einval"
    /\ UNCHANGED <<frame, encoder, decoder>>

-----------------------------------------------------------------------------
Encode == EncodePiece \/ PadOpen \/ PadChunk \/ PortPad \/ PadClose \/ EncodeEnd
Decode == DecodeOpen \/ DecodeMember \/ DecodeComma \/ DecodeEnd \/ DecodeError
Next == Report \/ Encode \/ PrintPayload \/ PortPrints \/ PortGatewayPrints \/ Decode

Spec == Init /\ [][Next]_vars

-----------------------------------------------------------------------------
\* The bytes of the first n pieces, and of the whole text of the Zephyr encoder.
Total(f, n) == LET total[i \in 0..Len(Pieces(f))] ==
                       IF i = 0 THEN 0 ELSE total[i - 1] + Bytes(f, Pieces(f)[i])
               IN  total[n]
Sum(f) == Total(f, Len(Pieces(f))) + (IF f.pad > 0 THEN f.pad + 9 ELSE 0) + 1

\* An encoder never writes past its buffer, and it gives up a frame exactly when
\* the text with its NUL is longer than the buffer, at whatever piece, chunk or
\* brace the end falls; the ports never give up one.
FitsOrFails ==
    /\ off < BufLen(frame)
    /\ frame.node = "zephyr" /\ stage \notin {"idle", "pad", "close"} =>
           (stage = "nospace") = (Sum(frame) >= BufLen(frame))
    /\ frame.node # "zephyr" => stage # "nospace"

Complete == line = text

\* The keys the encoder wrote, and what was measured under each.
KeysOf(tokens) == {k \in KnownKeys : \E i \in 1..Len(tokens) : tokens[i] = Str(k)}
Keys(f) == UNION {KeysOf(Pieces(f)[i].tokens) : i \in 1..Len(Pieces(f))}
Measured(f, k) ==
    LET Saturated(n) == IF n > LongMax THEN LongMax ELSE n
    IN  CASE k = "ts" -> Saturated(f.ts)
          [] k = "t_active_ms" -> Saturated(f.active)
          [] k = "role" -> CASE f.role = "" -> "DETACHED"
                             [] f.role = "DISABLED" -> "UNKNOWN"
                             [] OTHER -> f.role
          [] k \in ArrayKeys -> <<<<k, 1>>, <<k, 2>>, <<k, 3>>>>
          [] OTHER -> k

\* What is printed whole is read back as it was measured, with the padding and
\* the tags of the ports skipped: the fields, each with its own value.  The role
\* is one the decoder knows, and a counter is at most LONG_MAX.
RoundTrip ==
    /\ Complete => stage # "einval"
    /\ stage = "ok" => out = [k \in Keys(frame) |-> Measured(frame, k)]

\* A line that lost its end, or has a tag before it, is never taken for a frame,
\* wherever it was cut.
CutIsRejected == stage = "ok" => Complete

-----------------------------------------------------------------------------
\* "Appends a "pad" field of this many bytes to every reported frame" for the
\* campaign of 0 / 64 / 256 / 512 bytes (apps/sensor_node/Kconfig:49), whose
\* "payload bytes verbatim" the gateway prints (usb_print.c:4).
PrintedVerbatim == stage = "open" /\ frame.node = "zephyr" => Complete

\* "The wire format is identical to apps/sensor_node so the OS-agnostic PC tool
\* ingests RIOT frames unchanged" (ports/riot/sensor_node/main.c:6): no line of
\* theirs is refused, neither by this decoder nor, at the same first character,
\* by parse_line (frames.py:90).
PortFramesIngested == frame.node # "zephyr" => stage # "einval"

\* "Numbers are parsed with strtoul" (frame_json.c:107-108).
CountersKept == stage = "ok" => out["ts"] = frame.ts
=============================================================================
