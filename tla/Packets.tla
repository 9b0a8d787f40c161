------------------------------- MODULE Packets -------------------------------
(***************************************************************************)
(* Packets (net/packet.h, net/marshall.h): an Encoder that marshals        *)
(* messages into a buffer of at most 64K and writes a header in front, and *)
(* a Decoder that reads the header and the message back.                   *)
(*                                                                         *)
(* An Encoder is used again and again: serialize may throw half way, and   *)
(* may be called again with or without clear.  A Decoder is given as many  *)
(* bytes of the packet as have arrived, with anything behind them in the   *)
(* memory, and a message object to fill: a new one, or one that was filled *)
(* before.                                                                 *)
(*                                                                         *)
(* The value of a number is the sequence of its bytes (on x86 XHTONS and   *)
(* the like change nothing), of a string its bytes, of a vector or a set   *)
(* (of uint16_t) its elements, of a map (from uint16_t to uint8_t) the     *)
(* function.                                                               *)
(***************************************************************************)
EXTENDS Integers, Sequences, FiniteSets, SequencesExt

CONSTANTS
    Max64K,     \* 2^16: the range of m_length, and the size of a PackBuffer
    Cmds,       \* sub-protocol numbers; each is of one type of message
    Fields,     \* [Cmds -> Seq(Types)]: the fields the message marshals
    Messages,   \* [cmd, vals]: the messages that are sent, by type
    Leftovers,  \* what may lie in the memory behind the bytes received
    MaxThrows   \* bound: times serialize throws between two clears

Types == {"bool", "uint8", "uint16", "uint32", "uint64", "int64", "double",
          "string", "string32", "vector", "set", "map"}
Containers == {"vector", "set", "map"}

(* The width of a number in bytes. *)
Width(type) ==
    CASE type \in {"bool", "uint8"} -> 1
      [] type = "uint16" -> 2
      [] type = "uint32" -> 4
      [] type \in {"uint64", "int64", "double"} -> 8

Octets == 0..255
Sized(w) == [1..w -> Octets]

HasType(type, val) ==
    /\ type = "bool" => val \in {<<0>>, <<1>>}
    /\ type \in {"string", "string32"} => val \in Seq(Octets)
    /\ type = "vector" => val \in Seq(Sized(2))
    /\ type = "set" => val \subseteq Sized(2) /\ IsFiniteSet(val)
    /\ type = "map" => /\ DOMAIN val \subseteq Sized(2) /\ IsFiniteSet(DOMAIN val)
                       /\ val \in [DOMAIN val -> Sized(1)]
    /\ type \notin Containers \cup {"string", "string32"}
          => val \in Sized(Width(type))

HeaderSize == 12    \* MAIN_PROTO_HEADER_SIZE + SUB_PROTO_HEADER_SIZE
NoCmd == 0

MAX_PACKET_SIZE == Max64K - 1

ASSUME PacketAssumption ==
    /\ Max64K \in Nat /\ Max64K > HeaderSize /\ Max64K <= 65536
    /\ Fields \in [Cmds -> Seq(Types)]
    /\ \A m \in Messages :
          /\ m.cmd \in Cmds
          /\ m.vals = [i \in DOMAIN Fields[m.cmd] |-> m.vals[i]]
          /\ \A i \in DOMAIN m.vals : HasType(Fields[m.cmd][i], m.vals[i])
    /\ Leftovers \subseteq Seq(Octets)
    /\ NoCmd \notin Cmds
    /\ MaxThrows \in Nat

VARIABLES
    m_packetHeader,  \* the Encoder's header object
    head,            \* the header bytes of its buffer, as a header
    body,            \* the bytes of its buffer after the header
    packed,          \* the messages serialized since the last clear
    throws,          \* times serialize threw since the last clear
    given,           \* the bytes of the packet a Decoder has, or NoBytes
    memory,          \* what it finds behind the header, those bytes first
    decoded,         \* what it did
    object           \* the message object that was filled last, if any

encoder == <<m_packetHeader, head, body, packed, throws>>
decoder == <<given, memory, decoded>>
vars == <<encoder, decoder, object>>

(* The main protocol's m_cmd and m_seq are set and copied like the others.  *)
Header(length, cmd, check) ==
    [length |-> length, subCmd |-> cmd, checkCode |-> check]

ClearHeader == Header(HeaderSize, NoCmd, 0)   \* PacketHeader::clear
ZeroHeader == Header(0, NoCmd, 0)             \* what resize fills in

NoBytes == -1
NotDecoded == [at |-> -1]
NoObject == [cmd |-> NoCmd, vals |-> <<>>]

(* Encoder::Encoder *)
Init ==
    /\ m_packetHeader = ClearHeader
    /\ head = ZeroHeader
    /\ body = <<>>
    /\ packed = <<>>
    /\ throws = 0
    /\ given = NoBytes
    /\ memory = <<>>
    /\ decoded = NotDecoded
    /\ object = NoObject

(* Encoder::size() *)
size == HeaderSize + Len(body)

(* Wrong: a length is not cut to 16 bits. *)
uint16_Wide(n) == n

uint16(n) == n % Max64K

-----------------------------------------------------------------------------
(* Pack: what each field appends to the buffer, push by push. *)

(* The w bytes of a number, the lowest first, and the number of bytes.      *)
Place == <<1, 256, 65536, 16777216>>
Bytes(n, w) == [i \in 1..w |-> (n \div Place[i]) % 256]
Below(n, b) == 256 * n + b
Number(bytes) == FoldLeft(Below, 0, Reverse(bytes))

(* The widths of what one element of a container is made of: a pair is its  *)
(* first and its second.                                                    *)
Parts(type) == IF type = "map" THEN <<2, 1>> ELSE <<2>>

(* Sets and maps are iterated in the order of their elements or keys.       *)
InOrder(S) ==
    CHOOSE q \in [1..Cardinality(S) -> S] :
       \A i, j \in DOMAIN q : i < j => Number(q[i]) < Number(q[j])

push_varstr(s, w) == <<Bytes(Len(s), w), s>>
push_vector(v) == <<Bytes(Len(v), 4)>> \o v
push_set(c) == push_vector(InOrder(c))
push_map(c) ==
    LET keys == InOrder(DOMAIN c) IN
    <<Bytes(Len(keys), 4)>>
        \o FlattenSeq([i \in DOMAIN keys |-> <<keys[i], c[keys[i]]>>])

PushField(type, val) ==
    CASE type = "string" -> push_varstr(val, 2)
      [] type = "string32" -> push_varstr(val, 4)
      [] type = "vector" -> push_vector(val)
      [] type = "set" -> push_set(val)
      [] type = "map" -> push_map(val)
      [] OTHER -> <<val>>

marshal(m) ==
    FlattenSeq([i \in DOMAIN m.vals |-> PushField(Fields[m.cmd][i], m.vals[i])])

Fits(bytes) == HeaderSize + Len(bytes) <= Max64K

-----------------------------------------------------------------------------
(* The Encoder. *)

(* The application's check_code_func: some function of all of the body.     *)
Added(c, b) == (c + b) % 2
Check(bytes) == FoldLeft(Added, 0, bytes)

(* Wrong: the length is taken before the message is in the buffer. *)
WriteHeader_TooEarly(cmd) ==
    /\ m_packetHeader' = Header(uint16(size), cmd, Check(body'))
    /\ head' = m_packetHeader'

WriteHeader(cmd) ==
    /\ m_packetHeader' = Header(uint16(size'), cmd, Check(body'))
    /\ head' = m_packetHeader'

(* The Decoders of the packet as it was are gone. *)
Rewritten ==
    /\ given' = NoBytes
    /\ memory' = <<>>
    /\ decoded' = NotDecoded

serialize(m) ==
    LET all == body \o FlattenSeq(marshal(m)) IN
    /\ Fits(all)
    /\ body' = all
    /\ WriteHeader(m.cmd)
    /\ packed' = Append(packed, m)
    /\ Rewritten
    /\ UNCHANGED <<throws, object>>

(* One of the pushes throws, because the buffer is full or for want of      *)
(* memory: those before it have been done, and the header is not written.   *)
serializeThrows(m) ==
    /\ throws < MaxThrows
    /\ \E k \in DOMAIN marshal(m) :
          LET some == body \o FlattenSeq(SubSeq(marshal(m), 1, k - 1)) IN
          /\ Fits(some)
          /\ marshal(m)[k] # <<>>
          /\ body' = some
          /\ throws' = throws + 1
          /\ Rewritten
          /\ UNCHANGED <<m_packetHeader, head, packed, object>>

(* Wrong: clears the header object only. *)
clear_HeaderOnly ==
    /\ m_packetHeader' = ClearHeader
    /\ packed' = <<>>
    /\ throws' = 0
    /\ Rewritten
    /\ UNCHANGED <<head, body, object>>

(* The header bytes in the buffer stay what they were. *)
clear ==
    /\ body' = <<>>
    /\ m_packetHeader' = ClearHeader
    /\ packed' = <<>>
    /\ throws' = 0
    /\ Rewritten
    /\ UNCHANGED <<head, object>>

-----------------------------------------------------------------------------
(* Unpack: a reader has passed at bytes, believes that there are left more, *)
(* has last as its latest bytes, and has got the values so far; a pop that  *)
(* throws makes ok false and ends it.                                       *)

Reader(n) == [at |-> 0, left |-> uint16(n), last |-> <<>>, got |-> <<>>,
              ok |-> TRUE]

(* The i-th byte from the beginning of the packet. *)
Byte(i) == IF i - HeaderSize \in DOMAIN memory THEN memory[i - HeaderSize] ELSE 0

Throw(r) == [r EXCEPT !.ok = FALSE]
Passed(r, w) == [r EXCEPT !.at = @ + w,
                          !.last = [i \in 1..w |-> Byte(r.at + i)]]

(* Wrong: does not look whether there are w bytes. *)
pop_Unchecked(r, w) ==
    IF r.ok THEN [Passed(r, w) EXCEPT !.left = @ - w] ELSE r

pop(r, w) ==
    IF ~ r.ok THEN r
    ELSE IF r.left < w THEN Throw(r)
    ELSE [Passed(r, w) EXCEPT !.left = @ - w]

(* pop_double leaves m_size as it is: whatever is popped after it may be    *)
(* read from behind the bytes received.                                     *)
pop_double(r) ==
    IF ~ r.ok THEN r
    ELSE IF r.left < Width("double") THEN Throw(r)
    ELSE Passed(r, Width("double"))

Got(r, val) == IF r.ok THEN [r EXCEPT !.got = Append(@, val)] ELSE r

pop_varstr(r, w) ==
    LET n == pop(r, w)
        s == IF n.ok THEN pop(n, Number(n.last)) ELSE n
    IN  Got(s, s.last)

(* Elements are popped until there are count or a part of one is missing,   *)
(* which is after more elements than there are bytes at the latest.         *)
pop_element(r, parts) == FoldLeft(pop, r, parts)

pop_elements(n, count, type) ==
    LET most == IF count <= n.left THEN count ELSE n.left + 1 IN
    FoldLeft(pop_element, n, [i \in 1..most |-> Parts(type)])

(* Of the elements, w bytes each, between n and r: the part of p bytes that *)
(* begins at byte from.                                                     *)
Elements(n, r, p, w, from) ==
    [i \in 1..((r.at - n.at) \div w) |->
        [b \in 1..p |-> Byte(n.at + w * (i - 1) + from + b)]]

First(keys, k) ==
    CHOOSE i \in DOMAIN keys : keys[i] = k /\ \A j \in 1..(i - 1) : keys[j] # k

(* Wrong: the value of a key that is there already is assigned to. *)
Inserted_Overwrites(was, keys, vals) ==
    [k \in DOMAIN was \cup ToSet(keys) |->
        IF k \in ToSet(keys) THEN vals[First(keys, k)] ELSE was[k]]

(* A key that is there already keeps its value. *)
Inserted(was, keys, vals) ==
    [k \in DOMAIN was \cup ToSet(keys) |->
        IF k \in DOMAIN was THEN was[k] ELSE vals[First(keys, k)]]

(* A vector is resized, if there are elements; sets and maps are inserted   *)
(* into.                                                                    *)
Fill(type, was, n, r) ==
    CASE type = "vector" ->
            IF r.at = n.at THEN was ELSE Elements(n, r, 2, 2, 0)
      [] type = "set" -> was \cup ToSet(Elements(n, r, 2, 2, 0))
      [] type = "map" -> Inserted(was, Elements(n, r, 2, 3, 0),
                                  Elements(n, r, 1, 3, 2))

pop_container(r, type, was) ==
    LET n == pop(r, 4)
        c == IF n.ok THEN pop_elements(n, Number(n.last), type) ELSE n
    IN  IF c.ok THEN Got(c, Fill(type, was, n, c)) ELSE c

pop_bool(r) ==
    LET u == pop(r, 1) IN Got(u, IF u.last = <<0>> THEN <<0>> ELSE <<1>>)

(* A field of the object is assigned or added to. *)
PopField(r, field) ==
    LET type == field.type IN
    CASE type = "string" -> pop_varstr(r, 2)
      [] type = "string32" -> pop_varstr(r, 4)
      [] type \in Containers -> pop_container(r, type, field.was)
      [] type = "double" -> LET d == pop_double(r) IN Got(d, d.last)
      [] type = "bool" -> pop_bool(r)
      [] OTHER -> LET u == pop(r, Width(type)) IN Got(u, u.last)

(* The fields of the main header, then those of the second one. *)
PopHeader(r) == FoldLeft(pop, r, <<2, 2, 4, 2, 2>>)

FieldsOf(msg) ==
    [i \in DOMAIN Fields[msg.cmd] |->
        [type |-> Fields[msg.cmd][i], was |-> msg.vals[i]]]

unmarshal(r, msg) == FoldLeft(PopField, r, FieldsOf(msg))

NewObject(cmd) ==
    [cmd |-> cmd,
     vals |-> [i \in DOMAIN Fields[cmd] |->
                 IF Fields[cmd][i] = "set" THEN {} ELSE <<>>]]

pickLen == head.length
pickSubCmd == head.subCmd
pickCheckCode == head.checkCode

(* Decoder::Decoder with the first n bytes of the packet. *)
Decoder(n, leftover) ==
    /\ n \in 0..size
    /\ given' = n
    /\ memory' = SubSeq(body, 1, n - HeaderSize) \o leftover
    /\ decoded' = NotDecoded
    /\ UNCHANGED <<encoder, object>>

(* The application makes a message object of the type that the header       *)
(* names, or takes the one it filled last, and deserializes into it; once   *)
(* with each Decoder.  An object that was filled in part is not used again, *)
(* nor (bounds) one filled from several messages in one packet, or without  *)
(* a container: all its fields are assigned anew.                           *)
deserialize(used) ==
    /\ given # NoBytes /\ decoded = NotDecoded
    /\ pickSubCmd \in Cmds
    /\ used => object.cmd = pickSubCmd
    /\ LET msg == IF used THEN object ELSE NewObject(pickSubCmd)
           r == unmarshal(PopHeader(Reader(given)), msg)
       IN  /\ decoded' = [used |-> used, was |-> msg.vals, ok |-> r.ok, at |-> r.at,
                          got |-> r.got]
           /\ object' = IF /\ r.ok /\ given = size
                           /\ Len(packed) = 1 /\ throws = 0
                           /\ Containers \cap ToSet(Fields[msg.cmd]) # {}
                        THEN [cmd |-> msg.cmd, vals |-> r.got]
                        ELSE IF used THEN NoObject ELSE object
    /\ UNCHANGED <<encoder, given, memory>>

-----------------------------------------------------------------------------
Next ==
    \/ \E m \in Messages : serialize(m) \/ serializeThrows(m)
    \/ clear
    \/ \E n \in 0..Max64K, leftover \in Leftovers : Decoder(n, leftover)
    \/ \E used \in BOOLEAN : deserialize(used)

Spec == Init /\ [][Next]_vars

-----------------------------------------------------------------------------
Headers == [length : 0..(Max64K - 1), subCmd : Cmds \cup {NoCmd},
            checkCode : {0, 1}]

TypeOK ==
    /\ m_packetHeader \in Headers
    /\ head \in Headers
    /\ body \in Seq(Octets) /\ Fits(body)
    /\ packed \in Seq(Messages)
    /\ throws \in 0..MaxThrows
    /\ given \in -1..size
    /\ memory \in Seq(Octets)
    /\ decoded.at \in Nat \cup {-1}
    /\ object.cmd \in Cmds \cup {NoCmd}

(* What a receiver cuts the stream by: while serialize has not thrown, the  *)
(* length in the header bytes is the size of the packet, whatever was       *)
(* serialized, cleared and refused before, and the check code is that of    *)
(* all of the body - for packets of at most MAX_PACKET_SIZE bytes.  The     *)
(* buffer takes one byte more, for which the 16 bits of the length are 0.   *)
Framed ==
    packed # <<>> /\ throws = 0 /\ size <= MAX_PACKET_SIZE =>
       /\ pickLen = size
       /\ pickSubCmd = Last(packed).cmd
       /\ pickCheckCode = Check(body)

(* The message a Decoder reads is the first one in the packet, provided     *)
(* that the header names its type: that of the last one.                    *)
ReadsFirst ==
    /\ decoded # NotDecoded /\ throws = 0 /\ given <= MAX_PACKET_SIZE
    /\ packed # <<>> /\ pickSubCmd = packed[1].cmd

FirstEnd == HeaderSize + Len(FlattenSeq(marshal(packed[1])))

(* No field of the message comes after a double. *)
DoubleIsLast(cmd) ==
    \A i \in DOMAIN Fields[cmd] :
       Fields[cmd][i] = "double" => i = Len(Fields[cmd])

(* A Decoder that has the bytes of a message puts what was sent into a new  *)
(* object, whatever was serialized behind it and whatever follows in the    *)
(* memory, also after a serialize that threw was cleared away.  One that    *)
(* has a part of the bytes refuses them, unless the message has a field     *)
(* behind a double, which may be read from what follows.                    *)
RoundTrip ==
    ReadsFirst =>
       /\ given >= FirstEnd =>
             decoded.ok /\ (~ decoded.used => decoded.got = packed[1].vals)
       /\ given < FirstEnd /\ DoubleIsLast(pickSubCmd) => ~ decoded.ok

(* What a field holds after a message was read into it that sent a value    *)
(* for it: a set has both; a map too, but where it had a key before it      *)
(* keeps its own value and drops the one sent; a vector for which no        *)
(* elements were sent keeps its own.                                        *)
Merged(type, was, sent) ==
    CASE type = "set" -> was \cup sent
      [] type = "map" -> [k \in DOMAIN was \cup DOMAIN sent |->
                            IF k \in DOMAIN was THEN was[k] ELSE sent[k]]
      [] type = "vector" -> IF sent = <<>> THEN was ELSE sent
      [] OTHER -> sent

(* A used object does not become the message that was sent: in its          *)
(* containers, and nowhere else, it keeps of the message before what Merged *)
(* says.                                                                    *)
Refilled ==
    ReadsFirst /\ given >= FirstEnd /\ decoded.used =>
       decoded.got = [i \in DOMAIN Fields[pickSubCmd] |->
                        Merged(Fields[pickSubCmd][i], decoded.was[i],
                               packed[1].vals[i])]

(* How far a Decoder may look beyond the bytes it was given: by eight bytes *)
(* for each double of the message with a field behind it, because           *)
(* pop_double does not count its bytes as read, and never further -         *)
(* whatever the packet holds, of which a serialize that threw may have left *)
(* a part, and whatever it finds beyond.                                    *)
EarlyDoubles(cmd) ==
    {i \in DOMAIN Fields[cmd] : Fields[cmd][i] = "double" /\ i < Len(Fields[cmd])}

StaysInside ==
    decoded # NotDecoded =>
       decoded.at <= given + Width("double") * Cardinality(EarlyDoubles(pickSubCmd))
=============================================================================
