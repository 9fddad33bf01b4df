-------------------------------- MODULE Proto --------------------------------
(***************************************************************************)
(* messages.c: what becomes of a message that one node encodes and the     *)
(* other decodes, in JSON, the default, or in CBOR.                        *)
(*                                                                         *)
(* A JSON payload is the tree that cJSON makes of it, or Unparsable.  A    *)
(* CBOR payload is the sequence of its items, keys and values in turn, as  *)
(* the decoder walks over it with tinycbor.  Readings are in thousandths   *)
(* of a unit.  Integers keep their value: the encoder is given what fits   *)
(* the fields the decoder casts to.  The timestamp is carried as the       *)
(* sequence number is and has no field of its own here.                    *)
(***************************************************************************)
EXTENDS Integers, Sequences, FiniteSets, SequencesExt

CONSTANTS
    Numbers,     \* values of the integer fields
    Readings,    \* temperatures and humidities, in thousandths
    NaN,         \* the reading of a sensor that was never read
    Roms,        \* ROM codes
    Ambients,    \* length of sht20, 2
    Probes,      \* length of ds18b20, 4
    Duties,      \* length of duty_cycle, 16
    Absent,      \* no such part
    Unparsable,  \* text that is not JSON
    Rejected,    \* the decoder returned false
    Stopped,     \* a failed assertion has stopped the node
    Anything     \* what comes of a damaged payload, or of a misuse of tinycbor

VARIABLES
    msg,      \* the message
    cbor,     \* CONFIG_USE_CBOR
    asserts,  \* tinycbor was built with its assertions, as ESP-IDF builds it unless told otherwise
    stage,    \* "built", "sent" or "decoded"
    payload,  \* what was encoded
    crc,      \* the checksum in the frame
    damaged,  \* the payload was damaged on its way
    out       \* what the decoder returned

protoVars == <<msg, cbor, asserts, stage, payload, crc, damaged, out>>

(***************************************************************************)
(* Messages, and what a decoder may make of one: any reading is a number.  *)
(***************************************************************************)
Ports == [{"A", "B"} -> Numbers]
AmbientOf(readings) == [t : readings, rh : readings, ok : BOOLEAN]
ProbeOf(readings) == [rom : Roms, t : readings]

UpdatesOf(ambients, probes) ==
    [type : {"sensor_update"}, seq : Numbers, sht20 : ambients, ds18b20 : probes,
     gpio : [{"mcp0", "mcp1"} -> Ports], pwm : [freq : Numbers, duty : [1 .. Duties -> Numbers]]]

SensorUpdates ==
    UpdatesOf(BoundedSeq(AmbientOf(Readings \cup {NaN}), Ambients),
              BoundedSeq(ProbeOf(Readings), Probes))

ReadUpdates == UpdatesOf(Seq(AmbientOf(Int)), Seq(ProbeOf(Int)))

Parts == {"set_pwm", "pwm_freq", "write_gpio"}

PwmOf(numbers) == [ch : numbers, duty : numbers]
FreqOf(numbers) == [freq : numbers]
GpioOf(numbers) == [dev : {"mcp0", "mcp1"}, port : {"A", "B"}, mask : numbers, value : numbers]

CommandsOf(numbers) ==
    [type : {"cmd"}, seq : numbers, set_pwm : PwmOf(numbers) \cup {Absent},
     pwm_freq : FreqOf(numbers) \cup {Absent}, write_gpio : GpioOf(numbers) \cup {Absent}]

Commands == CommandsOf(Numbers)

ASSUME ProtoAssumption ==
    /\ Numbers \subseteq Nat /\ Readings \subseteq Int /\ NaN \notin Readings
    /\ {Ambients, Probes, Duties} \subseteq Nat
    /\ {Rejected, Stopped, Anything, Unparsable} \cap (ReadUpdates \cup CommandsOf(Nat)) = {}

\* The parts of a command that are in it.
Present(m) == {p \in Parts : m[p] # Absent}

\* %.2f, read back: hundredths.
Printed(x) == ((x + 5) \div 10) * 10

(***************************************************************************)
(* JSON.                                                                   *)
(***************************************************************************)

PrintedAmbient(a) == [a EXCEPT !.t = Printed(@), !.rh = Printed(@)]
PrintedProbe(p) == [p EXCEPT !.t = Printed(@)]

\* encode_sensor_update_json_into: a NaN is printed as nan, which is not JSON.
JsonOfUpdate(m) ==
    IF \E i \in DOMAIN m.sht20 : NaN \in {m.sht20[i].t, m.sht20[i].rh}
    THEN Unparsable
    ELSE [m EXCEPT !.sht20 = [i \in DOMAIN @ |-> PrintedAmbient(@[i])],
                   !.ds18b20 = [i \in DOMAIN @ |-> PrintedProbe(@[i])]]

\* encode_command_json_into: only the members that are there.
JsonOfCommand(m) == [k \in {"type", "seq"} \cup Present(m) |-> m[k]]

ASSUME ParsableAssumption == \A m \in Commands : JsonOfCommand(m) # Unparsable

Member(object, k) == IF k \in DOMAIN object THEN object[k] ELSE Absent

\* proto_decode_command, on a parsed payload: every member is looked up by its key.
CommandOfJson(object) ==
    [type |-> "cmd", seq |-> object["seq"], set_pwm |-> Member(object, "set_pwm"),
     pwm_freq |-> Member(object, "pwm_freq"), write_gpio |-> Member(object, "write_gpio")]

\* proto_decode_sensor_update, likewise; what does not fit an array is left out.
UpdateOfJson(object) ==
    [object EXCEPT !.sht20 = SubSeq(@, 1, IF Len(@) < Ambients THEN Len(@) ELSE Ambients),
                   !.ds18b20 = SubSeq(@, 1, IF Len(@) < Probes THEN Len(@) ELSE Probes)]

(***************************************************************************)
(* CBOR, encoded.                                                          *)
(***************************************************************************)
Text(s) == [kind |-> "text", of |-> s]
Number(n) == [kind |-> "number", of |-> n]
Container(items) == [kind |-> "container", of |-> items]

Items(s, Op(_)) == Container([i \in DOMAIN s |-> Op(s[i])])

Preamble(m) == <<Text("v"), Number(1), Text("type"), Text(m.type), Text("seq"), Number(m.seq)>>

CborOfAmbient(a) ==
    Container(<<Text("id"), Text("sht20"), Text("t"), Number(a.t), Text("rh"), Number(a.rh),
                Text("ok"), Number(a.ok)>>)

CborOfProbe(p) == Container(<<Text("rom"), Text(p.rom), Text("t"), Number(p.t)>>)

CborOfPorts(p) == Container(<<Text("A"), Number(p["A"]), Text("B"), Number(p["B"])>>)

\* encode_sensor_update_cbor_into
CborOfUpdate(m) ==
    Preamble(m) \o
    <<Text("sht20"), Items(m.sht20, CborOfAmbient),
      Text("ds18b20"), Items(m.ds18b20, CborOfProbe),
      Text("gpio"), Container(<<Text("mcp0"), CborOfPorts(m.gpio["mcp0"]),
                                Text("mcp1"), CborOfPorts(m.gpio["mcp1"])>>),
      Text("pwm"), Container(<<Text("pca9685"),
                               Container(<<Text("freq"), Number(m.pwm.freq),
                                           Text("duty"), Items(m.pwm.duty, Number)>>)>>)>>

\* encode_command_cbor_into
CborOfCommand(m) ==
    Preamble(m)
    \o (IF m.set_pwm = Absent THEN <<>>
        ELSE <<Text("set_pwm"), Container(<<Text("ch"), Number(m.set_pwm.ch),
                                            Text("duty"), Number(m.set_pwm.duty)>>)>>)
    \o (IF m.pwm_freq = Absent THEN <<>>
        ELSE <<Text("pwm_freq"), Container(<<Text("freq"), Number(m.pwm_freq.freq)>>)>>)
    \o (IF m.write_gpio = Absent THEN <<>>
        ELSE <<Text("write_gpio"),
               Container(<<Text("dev"), Text(m.write_gpio.dev), Text("port"), Text(m.write_gpio.port),
                           Text("mask"), Number(m.write_gpio.mask),
                           Text("value"), Number(m.write_gpio.value)>>)>>)

(***************************************************************************)
(* CBOR, decoded.  A loop reads the members of a container: its state says *)
(* at which item it is and what it has read, and it takes no more rounds   *)
(* than there are items.  Copying a text goes on to the next item already, *)
(* and so does leaving a container; the decoder advances once more after   *)
(* some of them, past the key that follows.  tinycbor asserts that the     *)
(* item copied from is a text and that an advance is not from the end of a *)
(* container.  Where its assertions are left out, Anything may come of the *)
(* first and the second is an error that changes nothing.                  *)
(***************************************************************************)

\* There is a text to be copied.
IsText(items, at) == at <= Len(items) /\ items[at].kind = "text"

\* The loop is at the end of the container, or what it does is undefined.
Ended(items, loop) == loop.at > Len(items) \/ loop.read = Anything

\* What a part holds before its members are met.
NoGpio == [dev |-> "mcp0", port |-> "A", mask |-> 0, value |-> 0]

\* A member of write_gpio: the copied dev and port are followed by another advance.
GpioMember(items, loop) ==
    LET key == items[loop.at].of
    IN  IF Ended(items, loop) THEN loop
        ELSE IF ~IsText(items, loop.at) THEN [loop EXCEPT !.read = Anything]
        ELSE IF key \in DOMAIN NoGpio
             THEN [at |-> IF key \in {"dev", "port"} THEN loop.at + 3 ELSE loop.at + 2,
                   read |-> [loop.read EXCEPT ![key] = items[loop.at + 1].of]]
             ELSE [loop EXCEPT !.at = @ + 2]

WalkGpio(items) ==
    LET loop[n \in 0 .. Len(items)] ==
          IF n = 0 THEN [at |-> 1, read |-> NoGpio] ELSE GpioMember(items, loop[n - 1])
    IN  loop[Len(items)].read

\* The members of set_pwm and pwm_freq, all numbers: the walk takes key and value in turn.
WalkNumbers(items) ==
    [k \in {items[i].of : i \in {j \in DOMAIN items : j % 2 = 1}} |->
        items[1 + CHOOSE i \in DOMAIN items : items[i].kind = "text" /\ items[i].of = k].of]

\* The command that the decoder fills in starts from zeroes.
NoCommand ==
    [type |-> "cmd", seq |-> 0, set_pwm |-> Absent, pwm_freq |-> Absent, write_gpio |-> Absent]

\* A member of a command: the parts are left and advanced over.
CommandMember(items, loop) ==
    LET key == items[loop.at].of
        value == items[loop.at + 1].of
        gpio == WalkGpio(value)
    IN  IF Ended(items, loop) THEN loop
        ELSE IF ~IsText(items, loop.at) THEN [loop EXCEPT !.read = Anything]
        ELSE CASE key = "seq" -> [at |-> loop.at + 2, read |-> [loop.read EXCEPT !.seq = value]]
               [] key \in {"set_pwm", "pwm_freq"} ->
                    [at |-> loop.at + 3, read |-> [loop.read EXCEPT ![key] = WalkNumbers(value)]]
               [] key = "write_gpio" ->
                    [at |-> loop.at + 3,
                     read |-> IF gpio = Anything THEN Anything
                              ELSE [loop.read EXCEPT !.write_gpio = gpio]]
               [] OTHER -> [loop EXCEPT !.at = @ + 2]

\* proto_decode_command: where its loop ends, and what it has read by then.
CommandLoop(items) ==
    LET loop[n \in 0 .. Len(items)] ==
          IF n = 0 THEN [at |-> 1, read |-> NoCommand] ELSE CommandMember(items, loop[n - 1])
    IN  loop[Len(items)]

WalkCommand(items) == CommandLoop(items).read

\* The loop has copied from an item that is no text, or gone past the end. (write_gpio is the last
\* member: what its own loop does wrong is followed by an advance past the end.)
Misuses(items) ==
    LET loop == CommandLoop(items) IN loop.read = Anything \/ loop.at > Len(items) + 1

\* Without assertions an advance past the end of a container stays there.
AtEnd(items, at) == IF asserts THEN at = Len(items) + 1 ELSE at > Len(items)

\* An entry of sht20 or ds18b20: whether its loop meets a text wherever it copies a key.  The copied
\* id and rom are followed by another advance.
WalkEntry(items) ==
    LET texts[at \in 1 .. (Len(items) + 3)] ==
          \/ AtEnd(items, at)
          \/ /\ IsText(items, at)
             /\ texts[IF items[at].of \in {"id", "rom"} THEN at + 3 ELSE at + 2]
    IN  texts[1]

\* proto_decode_sensor_update: whether its loop comes to the end of the payload, past arrays and maps
\* that are left and advanced over.
WalkUpdate(items) ==
    LET texts[at \in 1 .. (Len(items) + 3)] ==
          \/ AtEnd(items, at)
          \/ /\ IsText(items, at)
             /\ items[at].of \in {"sht20", "ds18b20"} =>
                  LET entries == items[at + 1].of
                  IN  \A i \in DOMAIN entries : WalkEntry(entries[i].of)
             /\ texts[IF items[at].of \in {"sht20", "ds18b20", "gpio", "pwm"}
                      THEN at + 3 ELSE at + 2]
    IN  texts[1]

(***************************************************************************)
(* A message on its way.                                                   *)
(***************************************************************************)
ProtoInit ==
    /\ msg \in SensorUpdates \cup Commands /\ cbor \in BOOLEAN /\ asserts \in {FALSE, cbor}
    /\ stage = "built" /\ payload = Absent /\ crc = 0 /\ damaged = FALSE /\ out = Absent

\* proto_encode_sensor_update_into, proto_encode_command_into
Encoded ==
    IF msg.type = "sensor_update" THEN (IF cbor THEN CborOfUpdate(msg) ELSE JsonOfUpdate(msg))
    ELSE IF cbor THEN CborOfCommand(msg) ELSE JsonOfCommand(msg)

\* The checksum may be any number.
Encodes ==
    /\ stage = "built" /\ stage' = "sent"
    /\ payload' = Encoded
    /\ crc' \in {0, 1}
    /\ UNCHANGED <<msg, cbor, asserts, damaged, out>>

\* External: the payload is damaged, and its checksum is now another.
Damages ==
    /\ stage = "sent" /\ ~damaged
    /\ damaged' = TRUE
    /\ UNCHANGED <<msg, cbor, asserts, stage, payload, crc, out>>

\* Fault: the checksum is not looked at.
ChecksNothing(expected) == TRUE

\* A checksum of zero stands for none.
Checks(expected) == expected # 0 => ~damaged

\* proto_decode_sensor_update, proto_decode_command, on a payload that arrived whole.
Decoded ==
    LET update == msg.type = "sensor_update"
        misuse == cbor /\ (IF update THEN ~WalkUpdate(payload) ELSE Misuses(payload))
    IN  IF misuse /\ asserts THEN Stopped
        ELSE IF update /\ cbor THEN (IF misuse THEN Anything ELSE msg)
        ELSE IF cbor THEN WalkCommand(payload)
        ELSE IF payload = Unparsable THEN Rejected
        ELSE IF update THEN UpdateOfJson(payload) ELSE CommandOfJson(payload)

\* Of a damaged payload that is decoded anything may come.
Decodes ==
    /\ stage = "sent" /\ stage' = "decoded"
    /\ out' = IF ~Checks(crc) THEN Rejected ELSE IF damaged THEN Anything ELSE Decoded
    /\ UNCHANGED <<msg, cbor, asserts, payload, crc, damaged>>

ProtoNext == Encodes \/ Damages \/ Decodes

ProtoSpec == ProtoInit /\ [][ProtoNext]_protoVars

-----------------------------------------------------------------------------
\* A reading comes out within half a hundredth; everything else comes out as it is.
Same(a, b) ==
    IF b.type = "cmd" THEN a = b
    ELSE /\ [a EXCEPT !.sht20 = <<>>, !.ds18b20 = <<>>] = [b EXCEPT !.sht20 = <<>>, !.ds18b20 = <<>>]
         /\ DOMAIN a.sht20 = DOMAIN b.sht20 /\ DOMAIN a.ds18b20 = DOMAIN b.ds18b20
         /\ \A i \in DOMAIN b.sht20 :
              /\ a.sht20[i].t - b.sht20[i].t \in -5 .. 5
              /\ a.sht20[i].rh - b.sht20[i].rh \in -5 .. 5
              /\ a.sht20[i].ok = b.sht20[i].ok
         /\ \A i \in DOMAIN b.ds18b20 :
              /\ a.ds18b20[i].t - b.ds18b20[i].t \in -5 .. 5
              /\ a.ds18b20[i].rom = b.ds18b20[i].rom

\* Every ambient sensor of an update has been read at least once.
AllRead(m) ==
    m.type = "sensor_update" => \A i \in DOMAIN m.sht20 : NaN \notin {m.sht20[i].t, m.sht20[i].rh}

\* A command of one part that is made of numbers.
SimpleCommand(m) == m.type = "cmd" /\ Cardinality(Present(m)) <= 1 /\ m.write_gpio = Absent

\* A message is never misread (messages.c): in JSON what is decoded is what was encoded, and nothing
\* is rejected but an update with a sensor that was never read; in CBOR a command to set a duty cycle
\* or the frequency comes out as it was, unless an assertion of tinycbor stops the node at it, which
\* a command without a part is safe from.  Damage goes unnoticed only under a checksum of zero, which
\* proto_decode_command and proto_decode_sensor_update take for none.
NeverMisread ==
    stage = "decoded" =>
        IF damaged THEN out = Rejected \/ crc = 0
        ELSE /\ ~cbor => IF AllRead(msg) THEN out # Rejected /\ Same(out, msg) ELSE out = Rejected
             /\ cbor /\ SimpleCommand(msg) =>
                  Same(out, msg) \/ (asserts /\ Present(msg) # {} /\ out = Stopped)

\* What proto_encode_sensor_update_into or proto_encode_command_into makes of a message, the decoder
\* of the same format reads.
RoundTrips == stage = "decoded" /\ ~damaged => out \notin {Rejected, Stopped, Anything} /\ Same(out, msg)

\* What was encoded is on its way, and what was decoded of it is right.
ProtoInv ==
    /\ msg \in SensorUpdates \cup Commands /\ cbor \in BOOLEAN /\ asserts \in {FALSE, cbor}
    /\ stage \in {"built", "sent", "decoded"}
    /\ stage = "sent" => payload = Encoded
    /\ NeverMisread
=============================================================================
