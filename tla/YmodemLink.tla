----------------------------- MODULE YmodemLink -----------------------------
(***************************************************************************)
(* The YMODEM transfer of one image over the serial line: the sender of    *)
(* the desktop tool (YModemProtocol.cs, run by LocalUpgradeTransport.cs)   *)
(* and the receiver of the bootloader (ymodem.c, run in the loop of        *)
(* BootMain_Run), with a line that loses and damages what it carries.      *)
(*                                                                         *)
(* The receiver asks for packets with "C", once a second when it hears     *)
(* nothing and whenever it hears something it cannot read.  It answers a   *)
(* packet that is not the next one with NAK, a repeated one too: there is  *)
(* one ACK per packet accepted.                                            *)
(***************************************************************************)
EXTENDS Naturals, Sequences

CONSTANTS
    N,              \* data packets of the image
    MaxRetries,     \* YModemProtocol.MaxRetries (10 in the code)
    MaxErrors,      \* MAX_ERRORS (5 in the code)
    MaxFaults,      \* faults of the line in one behaviour
    ReplyMax,       \* replies the line holds: the receiver polls no further
    Patience,       \* what the sender's timeout outlasts (see SenderTimeout)
    Faults          \* the faults of this instance, a subset of FaultKinds

FaultKinds == {"lose",     \* bytes to the device disappear
               "corrupt",  \* a packet to the device fails its CRC16
               "garble",   \* a packet's first byte is lost, its data is read
                           \* as commands
               "reply",    \* bytes to the tool disappear
              "delay",    \* bytes to the device take longer than a poll
               "flash"}    \* the device fails to erase or program

\* 236 packets of 1024 bytes and 7 of 128 fill a slot (UPGRADE_SLOT_MAX_SIZE):
\* the uint8_t packet number never wraps within a file.
ASSUME NAssumption == N \in 1..255
ASSUME BoundsAssumption ==
    /\ MaxRetries \in Nat \ {0} /\ MaxErrors \in Nat /\ MaxFaults \in Nat
    /\ ReplyMax \in Nat \ {0}
ASSUME ModesAssumption == Patience \in 0..2 /\ Faults \subseteq FaultKinds

VARIABLES
    \* the sender
    phase,    \* what SendFile waits for
    next,     \* the data packet being sent
    tries,    \* attempts at the current packet or EOT
    \* the line: packets and controls to the device, controls to the tool
    toDevice, toTool,
    faults,   \* faults so far
    astray,   \* data has been read as commands, or an abort has been lost
    \* the receiver
    mode,     \* "poll", "erase" (in on_start) or "gone" (reset after success)
    expected, \* expected_packet
    begun,    \* session_begin
    errors,
    file,     \* a header was accepted in this session (result->file_size # 0)
    bytes,    \* data packets counted in result->bytes_received
    slot      \* the data packets programmed since the last on_start

sender == <<phase, next, tries>>
line == <<faults, astray>>
receiver == <<mode, expected, begun, errors, file, bytes, slot>>
vars == <<sender, toDevice, toTool, line, receiver>>

\* Data packets have the numbers 1..N, the header and the final packet 0.
Header == [kind |-> "header", no |-> 0]
Final == [kind |-> "final", no |-> 0]
Data(k) == [kind |-> "data", no |-> k]
EOT == [kind |-> "EOT", no |-> 0]
Bad == [kind |-> "bad", no |-> 0]      \* unreadable
Abort == [kind |-> "abort", no |-> 0]  \* 'A', 'a' or CA CA
Stale == [kind |-> "stale", no |-> 0]  \* the first byte of a lost packet
Messages ==
    {Header, Final, EOT, Bad, Abort, Stale} \cup {Data(k) : k \in 1..N}

Replies == {"ACK", "NAK", "C", "CAN"}  \* CAN: the pair CA CA

\* Packet numbers, counters and queues stay within the protocol's bounds.
TypeOK ==
    /\ phase \in {"ready", "header", "follow", "data", "eot", "final",
                  "done", "failed"}
    /\ next \in 1..N
    /\ tries \in 0..(MaxRetries - 1)
    /\ toDevice \in Seq(Messages)
    /\ toTool \in Seq(Replies)
    /\ faults \in 0..MaxFaults
    /\ astray \in BOOLEAN
    /\ mode \in {"poll", "erase", "gone"}
    /\ expected \in 0..(N + 1)
    /\ begun \in BOOLEAN
    /\ errors \in 0..MaxErrors
    /\ file \in BOOLEAN
    /\ bytes \in 0..N
    /\ slot \in Seq(1..N) /\ Len(slot) <= N

Init ==
    /\ phase = "ready" /\ next = 1 /\ tries = 0
    /\ toDevice = <<>> /\ toTool = <<>> /\ faults = 0 /\ astray = FALSE
    /\ mode = "poll" /\ expected = 0 /\ begun = FALSE /\ errors = 0
    /\ file = FALSE /\ bytes = 0 /\ slot = <<>>

(***************************************************************************)
(* The sender.                                                             *)
(***************************************************************************)
Current == CASE phase = "header" -> Header
             [] phase = "data"   -> Data(next)
             [] phase = "eot"    -> EOT
             [] phase = "final"  -> Final

Sending == phase \in {"header", "data", "eot", "final"}

Start(p, k, message) ==
    /\ phase' = p /\ next' = k /\ tries' = 0
    /\ toDevice' = Append(toDevice, message)

Stop(p) == phase' = p /\ UNCHANGED <<next, tries, toDevice>>

\* Mutant of Retry: the attempts are not counted.
RetryUncounted ==
    /\ tries' = tries + 1
    /\ toDevice' = Append(toDevice, Current)
    /\ UNCHANGED <<phase, next>>

\* SendPacketWithRetry and the EOT loop: send again, MaxRetries times in all.
Retry ==
    \/ /\ tries + 1 < MaxRetries
       /\ tries' = tries + 1
       /\ toDevice' = Append(toDevice, Current)
       /\ UNCHANGED <<phase, next>>
    \/ /\ tries + 1 = MaxRetries
       /\ Stop("failed")

StartData == Start("data", 1, Data(1))

Hears(reply) ==
    /\ toTool # <<>> /\ Head(toTool) = reply
    /\ toTool' = Tail(toTool)
    /\ UNCHANGED <<line, receiver>>

\* WaitReceiverReady
HearReady ==
    /\ phase = "ready" /\ Hears("C")
    /\ Start("header", 1, Header)

\* WaitAck and the EOT loop of SendFile: an ACK moves on.
HearAck ==
    /\ Sending /\ Hears("ACK")
    /\ \/ phase = "header" /\ Stop("follow")
       \/ phase = "data" /\ next < N /\ Start("data", next + 1, Data(next + 1))
       \/ phase = "data" /\ next = N /\ Start("eot", next, EOT)
       \/ phase = "eot" /\ Start("final", next, Final)
       \/ phase = "final" /\ Stop("done")

HearNak == Sending /\ Hears("NAK") /\ Retry

HearAbort == phase \in {"ready", "header", "follow", "data", "eot", "final"}
             /\ Hears("CAN") /\ Stop("failed")

\* ReadAcceptedControl skips a "C" and waits on, from the start.
HearPoll == Sending /\ Hears("C") /\ Stop(phase)

\* The "C" that follows the ACK of the header; a NAK waits for another ACK.
HearFollow ==
    /\ phase = "follow"
    /\ \/ (Hears("C") \/ Hears("ACK")) /\ StartData
       \/ Hears("NAK") /\ Stop("header")

\* 500 ms without it.
FollowTimeout ==
    /\ phase = "follow" /\ toTool = <<>>
    /\ StartData
    /\ UNCHANGED <<toTool, line, receiver>>

\* No control byte for LocalUpgradeOptions.TimeoutSeconds, which the user sets.
\* The receiver polls every second and erases a slot in less than five: with
\* the 5 s and 10 s offered by the tool (Patience 2) the sender times out only
\* once the receiver has reset; with less (1) during the erasure, with less
\* than the poll interval or the delay of the line (0) at any time.
SenderTimeout ==
    /\ Sending /\ toTool = <<>>
    /\ \/ mode = "gone"
       \/ mode = "erase" /\ Patience <= 1
       \/ mode = "poll" /\ Patience = 0
    /\ Retry
    /\ UNCHANGED <<toTool, line, receiver>>

SenderStep ==
    \/ HearReady \/ HearAck \/ HearNak \/ HearAbort \/ HearPoll \/ HearFollow
    \/ FollowTimeout

(***************************************************************************)
(* The receiver: Ymodem_Receive and the loop of BootMain_Run around it.    *)
(***************************************************************************)
Takes(kind) ==
    /\ mode = "poll" /\ toDevice # <<>> /\ Head(toDevice).kind = kind
    /\ toDevice' = Tail(toDevice)
    /\ UNCHANGED <<sender, line>>

Reply(controls) == toTool' = toTool \o controls

\* Ymodem_Receive returns; the loop of BootMain_Run calls it again.
NewSession ==
    /\ mode' = "poll" /\ expected' = 0 /\ begun' = FALSE /\ errors' = 0
    /\ file' = FALSE /\ bytes' = 0

AbortSession == Reply(<<"CAN">>) /\ NewSession

\* Mutant of TakeOutOfTurn: a repeated packet is acknowledged.
TakeOutOfTurnAcked ==
    /\ \E kind \in {"header", "final", "data"} : Takes(kind)
    /\ Head(toDevice).no # expected
    /\ Reply(IF Head(toDevice).no + 1 = expected THEN <<"ACK">> ELSE <<"NAK">>)
    /\ errors' = 0
    /\ UNCHANGED <<mode, expected, begun, file, bytes, slot>>

\* A packet out of turn: readable, so that the error count is cleared.
TakeOutOfTurn ==
    /\ \E kind \in {"header", "final", "data"} : Takes(kind)
    /\ Head(toDevice).no # expected
    /\ Reply(<<"NAK">>)
    /\ errors' = 0
    /\ UNCHANGED <<mode, expected, begun, file, bytes, slot>>

\* on_start: BootFlash_BeginImage erases the slot.
TakeHeader ==
    /\ Takes("header") /\ expected = 0
    /\ mode' = "erase" /\ errors' = 0 /\ file' = TRUE /\ bytes' = 0
    /\ slot' = <<>>
    /\ UNCHANGED <<toTool, expected, begun>>

\* The UART is polled and has no buffer: of what arrives during the erasure
\* the first byte is left.
Erased ==
    /\ mode = "erase"
    /\ mode' = "poll" /\ expected' = 1 /\ begun' = TRUE
    /\ Reply(<<"ACK", "C">>)
    /\ toDevice' = IF toDevice = <<>> THEN <<>> ELSE <<Stale>>
    /\ UNCHANGED <<sender, line, errors, file, bytes, slot>>

EraseFails ==
    /\ mode = "erase" /\ "flash" \in Faults
    /\ AbortSession
    /\ toDevice' = IF toDevice = <<>> THEN <<>> ELSE <<Stale>>
    /\ UNCHANGED <<sender, line, slot>>

\* Mutant of TakeData: the packet number is not compared.
TakeDataAnyNumber ==
    /\ Takes("data") /\ bytes < N
    /\ slot' = Append(slot, Head(toDevice).no)
    /\ bytes' = bytes + 1 /\ expected' = expected + 1
    /\ begun' = TRUE /\ errors' = 0
    /\ Reply(<<"ACK">>)
    /\ UNCHANGED <<mode, file>>

\* on_data: BootFlash_WriteImageData programs the next part of the image.
TakeData ==
    /\ Takes("data") /\ Head(toDevice).no = expected
    /\ \/ /\ bytes < N
          /\ slot' = Append(slot, Head(toDevice).no)
          /\ bytes' = bytes + 1 /\ expected' = expected + 1
          /\ begun' = TRUE /\ errors' = 0
          /\ Reply(<<"ACK">>)
          /\ UNCHANGED <<mode, file>>
       \/ /\ bytes >= N \/ "flash" \in Faults
          /\ AbortSession
          /\ UNCHANGED slot

\* Mutant of TakeEot: the packet number goes on.
TakeEotKeepsNumber ==
    /\ Takes("EOT")
    /\ Reply(<<"ACK">>)
    /\ errors' = 0
    /\ UNCHANGED <<mode, expected, begun, file, bytes, slot>>

\* EOT is acknowledged in any state; packet 0 is expected next.
TakeEot ==
    /\ Takes("EOT")
    /\ Reply(<<"ACK">>)
    /\ expected' = 0 /\ errors' = 0
    /\ UNCHANGED <<mode, begun, file, bytes, slot>>

\* Mutant of TakeFinal: an incomplete image is finalized too.
TakeFinalUnchecked ==
    /\ Takes("final") /\ expected = 0
    /\ Reply(<<"ACK">>)
    /\ mode' = "gone"
    /\ UNCHANGED <<expected, begun, errors, file, bytes, slot>>

\* The empty header ends the session.  BootMain_FinalizeSession: a complete
\* image (taken to verify) resets the device, anything else is marked failed.
TakeFinal ==
    /\ Takes("final") /\ expected = 0
    /\ Reply(<<"ACK">>)
    /\ \/ /\ file /\ bytes = N
          /\ mode' = "gone"
          /\ UNCHANGED <<expected, begun, errors, file, bytes>>
       \/ /\ ~(file /\ bytes = N)
          /\ NewSession
    /\ UNCHANGED slot

\* Mutant of Misses: the misses are not counted.
MissesUncounted ==
    /\ Reply(<<"C">>)
    /\ UNCHANGED <<mode, expected, begun, errors, file, bytes, slot>>

\* A timeout or an unreadable packet.
Misses ==
    /\ LET n == IF begun THEN errors + 1 ELSE errors
       IN \/ /\ n > MaxErrors
             /\ AbortSession
          \/ /\ n <= MaxErrors
             /\ errors' = n
             /\ Reply(<<"C">>)
             /\ UNCHANGED <<mode, expected, begun, file, bytes>>
    /\ UNCHANGED slot

TakeBad == Takes("bad") /\ Misses

\* The stale byte opens a packet: it times out alone, or takes the bytes that
\* come next for its own and leaves the rest of them to be read as commands.
TakeStale ==
    /\ mode = "poll" /\ toDevice # <<>> /\ Head(toDevice) = Stale
    /\ \/ toDevice' = Tail(toDevice) /\ UNCHANGED astray
       \/ /\ Len(toDevice) > 1
          /\ toDevice' = Tail(Tail(toDevice)) /\ UNCHANGED astray
       \/ /\ Len(toDevice) > 1 /\ "garble" \in Faults
          /\ \E m \in {EOT, Abort} : toDevice' = <<m>> \o Tail(Tail(toDevice))
          /\ astray' = TRUE
    /\ Misses
    /\ UNCHANGED <<sender, faults>>

\* One second of silence (DOWNLOAD_TIMEOUT).
Poll ==
    /\ mode = "poll" /\ Len(toTool) < ReplyMax
    /\ toDevice = <<>> \/ "delay" \in Faults
    /\ Misses
    /\ UNCHANGED <<sender, toDevice, line>>

TakeAbort == Takes("abort") /\ AbortSession /\ UNCHANGED slot

\* After the reset nobody listens.
Ignored ==
    /\ mode = "gone" /\ toDevice # <<>>
    /\ toDevice' = Tail(toDevice)
    /\ UNCHANGED <<sender, toTool, line, receiver>>

ReceiverStep ==
    \/ TakeOutOfTurn \/ TakeHeader \/ Erased \/ TakeData \/ TakeEot
    \/ TakeFinal \/ TakeBad \/ TakeStale \/ Poll \/ TakeAbort \/ Ignored

(***************************************************************************)
(* The line.                                                               *)
(***************************************************************************)
Damage(kind) ==
    /\ kind \in Faults /\ faults < MaxFaults
    /\ faults' = faults + 1
    /\ UNCHANGED <<sender, receiver>>

Lose ==
    /\ Damage("lose") /\ toDevice # <<>>
    /\ toDevice' = Tail(toDevice)
    /\ UNCHANGED <<toTool, astray>>

Corrupt ==
    /\ Damage("corrupt") /\ toDevice # <<>>
    /\ Head(toDevice).kind \notin {"bad", "stale"}
    /\ toDevice' = <<Bad>> \o Tail(toDevice)
    /\ UNCHANGED <<toTool, astray>>

\* The data of a packet holds an EOT or an abort character.
Garble ==
    /\ Damage("garble") /\ toDevice # <<>>
    /\ Head(toDevice).kind \in {"header", "data"}
    /\ \E m \in {EOT, Abort} : toDevice' = <<m>> \o Tail(toDevice)
    /\ astray' = TRUE
    /\ UNCHANGED toTool

LoseReply ==
    /\ Damage("reply") /\ toTool # <<>>
    /\ toTool' = Tail(toTool)
    /\ astray' = (astray \/ Head(toTool) = "CAN")
    /\ UNCHANGED toDevice

Line == Lose \/ Corrupt \/ Garble \/ LoseReply

Next == SenderStep \/ SenderTimeout \/ ReceiverStep \/ EraseFails \/ Line

Spec == Init /\ [][Next]_vars

(***************************************************************************)
(* Fairness: both programs run, and their timeouts expire.                 *)
(***************************************************************************)
Fairness ==
    /\ WF_vars(SenderStep)
    /\ WF_vars(SenderTimeout)
    /\ WF_vars(ReceiverStep)

FairSpec == Spec /\ Fairness

(***************************************************************************)
(* Properties.                                                             *)
(***************************************************************************)
\* Whatever the line does, the packets reach the slot in order, none twice and
\* none left out: packet numbers decide, and a late repeat is refused.
InOrder == slot = [i \in 1..Len(slot) |-> i]

\* The device ends a transfer with a reset only when it has the whole image.
WholeWhenGone == mode = "gone" => Len(slot) = N

\* As long as nothing but packets is taken for a packet and every abort of the
\* device is heard, the sender is never ahead of the receiver: an ACK it reads,
\* however late, is for its packet.
SenderNotAhead ==
    \/ astray
    \/ /\ phase = "data" => Len(slot) >= next - 1
       /\ phase \in {"eot", "final", "done"} => Len(slot) = N

\* Without faults the transfer completes on both sides, however late the
\* sender reads what the receiver's polls left in its queue.
TransferCompletes == [](faults = 0) => <>(phase = "done" /\ mode = "gone")

\* Once the header is acknowledged the sender comes to an end, whatever the
\* line does to its packets: the receiver gives up after MaxErrors misses.
TransferEnds == phase = "data" ~> phase \in {"done", "failed"}

\* YModemProtocol.cs:160: an unanswered packet is sent again, or given up.
EverySendEnds == phase = "header" ~> phase # "header"
=============================================================================
