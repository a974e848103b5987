------------------------------- MODULE AdbClient -------------------------------
(* AdbServiceClient (adb/_internal/client.py) against an ADB server: one call *)
(* on one socket, for a host query, an exec: stream, a shell command whose    *)
(* text is wanted (query.py) or one that is an attempt at something           *)
(* (_attempt.py). The server's reply arrives in pieces, may be broken off at  *)
(* any byte, and is followed by the end of the stream, by silence or by an    *)
(* error of the socket. Bytes are numbers; a field of fixed length (status,   *)
(* length prefix, size of a packet) has Word bytes, four in the build; a text *)
(* is a sequence of phrases, one byte each.                                   *)
EXTENDS Numerals, SequencesExt

CONSTANTS Word,      \* length of a status, a length prefix, a packet's size
          Radix,     \* of a length prefix: the bytes below it are its digits
          ByteBase,  \* of a packet's size: how many values a byte has
          Okay, Fail,                     \* the statuses
          Several, Missing, Offline,      \* phrases of a refused selection
          Garbled,   \* a byte that is not UTF-8
          Services,  \* among "query", "exec", "inspect", "attempt"
          Payloads,  \* what a query answers, what exec sends
          Details,   \* texts of a refusal
          Scripts    \* what a command sends: sequences of packets

ASSUME ClientAssumption ==
    /\ Word \in Nat \ {0} /\ {Radix, ByteBase} \subseteq Nat \ {0, 1}
    /\ Len(Okay) = Word /\ Len(Fail) = Word /\ Okay # Fail
    /\ Services \subseteq {"query", "exec", "inspect", "attempt"}

VARIABLES
    service,   \* what the call is for
    phase,     \* "connect", "select" a transport, "request" the service
    field,     \* the field being read, "none" between them
    got, want, \* _recv_exact: bytes received, bytes remaining
    packet,    \* the id of the packet being read
    shell,     \* the shell-v2 streams so far; exit is <<>> or <<code>>
    open,      \* the socket is open
    answer,    \* <<>>, or what the call returned or raised
    unread,    \* bytes that will still arrive
    ending,    \* what follows them: "eof", "silence", "reset"
    \* history
    reply      \* what the server made of the last request

clientVars == <<service, phase, field, got, want, packet, shell, open, answer, unread, ending,
                reply>>

NoStreams == [stdout |-> <<>>, stderr |-> <<>>, exit |-> <<>>]

(* kind: "none", "odd", "selected", "refused", "payload" or "script".         *)
Reply(kind, value, bytes) == [kind |-> kind, value |-> value, bytes |-> bytes]

ClientInit ==
    /\ service \in Services /\ phase = "connect" /\ field = "none"
    /\ got = <<>> /\ want = 0 /\ packet = 0 /\ shell = NoStreams
    /\ open = FALSE /\ answer = <<>>
    /\ unread = <<>> /\ ending = "silence" /\ reply = Reply("none", <<>>, <<>>)
------------------------------------------------------------------------------
(* parse_hex_length: <<length>>, or <<>> for AdbProtocolError.                *)
ParseLength(bytes) == IF \E i \in 1..Word : bytes[i] >= Radix THEN <<>> ELSE <<Value(Radix, bytes)>>

Stdout == 1
Stderr == 2
Exit == 3

(* What a server may make of a request, and the bytes it answers with. An odd *)
(* answer has no known status, or a prefix that is not a number. A length     *)
(* prefix has its first digit first, the size of a packet its last byte.      *)
Prefixed(text) == Digits(Radix, Word, Len(text)) \o text
NotDigits == [i \in 1..Word |-> Radix]
SizeBytes(n) == Reverse(Digits(ByteBase, Word, n))
PacketBytes(p) == <<p[1]>> \o SizeBytes(Len(p[2])) \o p[2]
Stream(script) == FlattenSeq([i \in DOMAIN script |-> PacketBytes(script[i])])
Fitting(texts) == {text \in texts : Len(text) < Power(Radix, Word)}
Refusals == {Reply("refused", d, Fail \o Prefixed(d)) : d \in Fitting(Details)}
            \cup {Reply("odd", <<>>, NotDigits), Reply("odd", <<>>, Fail \o NotDigits)}
Replies ==
    Refusals \cup
    CASE phase = "select" -> {Reply("selected", <<>>, Okay)}
      [] phase = "request" /\ service = "query" ->
            {Reply("payload", p, Okay \o Prefixed(p)) : p \in Fitting(Payloads)}
            \cup {Reply("odd", <<>>, Okay \o NotDigits)}
      [] phase = "request" /\ service = "exec" -> {Reply("payload", p, Okay \o p) : p \in Payloads}
      [] OTHER -> {Reply("script", s, Okay \o Stream(s)) : s \in Scripts}

(* Only a number has digits alone, and is no status; a packet's size fits its *)
(* field, and what a command prints comes before its exit packet.             *)
ASSUME RepliesAssumption ==
    /\ {Okay, Fail} \cup Payloads \cup Details \subseteq Seq(Nat) /\ NotDigits \notin {Okay, Fail}
    /\ \A script \in Scripts :
         /\ script \in Seq(Nat \X Seq(Nat))
         /\ \A i \in DOMAIN script : Len(script[i][2]) < Power(ByteBase, Word)
         /\ \A i, j \in DOMAIN script : script[i][1] = Exit /\ script[j][1] = Stdout => j < i
------------------------------------------------------------------------------
Running == open /\ answer = <<>>

(* Every way out of a call closes the socket.                                 *)
Answer(a) == answer' = <<a>> /\ open' = FALSE /\ field' = "none"

AdbErrors == {"AdbTimeoutError", "AdbServerConnectionError", "AdbProtocolError", "AdbServiceError",
              "AdbTransportAmbiguousError", "AdbTransportNotFoundError",
              "AdbTransportUnavailableError", "AdbRemoteCommandError"}
Returned(value) == [status |-> "returned", scope |-> "none", error |-> "none", value |-> value]
Raised(error) == [status |-> "raised", scope |-> "none", error |-> error, value |-> <<>>]
Attempted(status, scope) == [status |-> status, scope |-> scope, error |-> "none", value |-> <<>>]

(* What the caller of the client makes of an error: an attempt is evidence    *)
(* and raises none.                                                           *)
RaiseTo(error) ==
    IF service # "attempt" THEN Raised(error)
    ELSE Attempted(IF error = "AdbTimeoutError" THEN "timed_out" ELSE "failed", "none")
Raise(error) == Answer(RaiseTo(error))

(* native_result and _run_text_query.                                         *)
ShellAnswer(result) ==
    LET code == result.exit[1] IN
    IF service = "attempt"
    THEN Attempted(IF code = 0 THEN "succeeded" ELSE "failed", "process_exit")
    ELSE IF code # 0 THEN Raised("AdbRemoteCommandError")
    ELSE IF Contains(result.stdout, Garbled) THEN Raised("AdbProtocolError")
    ELSE Returned(result.stdout)

(* Faulty variant: a stream that ends without an exit packet was a success.   *)
EndOfShellLenient(result) ==
    IF result.exit = <<>> THEN ShellAnswer([result EXCEPT !.exit = <<0>>]) ELSE ShellAnswer(result)

(* The stream ends between two packets.                                       *)
EndOfShell(result) ==
    IF result.exit = <<>> THEN RaiseTo("AdbProtocolError") ELSE ShellAnswer(result)

(* _raise_transport_error: the first phrase that is found decides.            *)
SelectionError(detail) ==
    IF Contains(detail, Several) THEN "AdbTransportAmbiguousError"
    ELSE IF Contains(detail, Missing) THEN "AdbTransportNotFoundError"
    ELSE "AdbTransportUnavailableError"

Expect(f, size) == field' = f /\ got' = <<>> /\ want' = size
Pause == field' = "none" /\ got' = <<>> /\ want' = 0
------------------------------------------------------------------------------
Connect ==
    /\ phase = "connect" /\ answer = <<>>
    /\ \/ /\ open' = TRUE
          /\ phase' = IF service = "query" THEN "request" ELSE "select"
          /\ UNCHANGED <<answer, field>>
       \/ /\ \E error \in {"AdbTimeoutError", "AdbServerConnectionError"} : Raise(error)
          /\ UNCHANGED phase
    /\ UNCHANGED <<service, got, want, packet, shell, unread, ending, reply>>

(* sendall: a request that is not sent whole is never served. The server      *)
(* decides here how much of its reply will arrive and what comes after it.    *)
Send ==
    /\ Running /\ field = "none"
    /\ \/ /\ \E r \in Replies : \E arriving \in 0..Len(r.bytes) :
               unread' = SubSeq(r.bytes, 1, arriving) /\ reply' = r
          /\ ending' \in {"eof", "silence", "reset"}
          /\ Expect("status", Word)
          /\ UNCHANGED <<open, answer>>
       \/ /\ \E error \in {"AdbTimeoutError", "AdbServerConnectionError"} : Raise(error)
          /\ UNCHANGED <<got, want, unread, ending, reply>>
    /\ UNCHANGED <<service, phase, packet, shell>>

(* recv: up to as many bytes as are asked for.                                *)
Receive ==
    /\ Running /\ unread # <<>> /\ want > 0
    /\ \E size \in 1..(IF want <= Len(unread) THEN want ELSE Len(unread)) :
         /\ got' = got \o SubSeq(unread, 1, size)
         /\ unread' = SubSeq(unread, size + 1, Len(unread))
         /\ want' = IF field = "raw" THEN want ELSE want - size
    /\ UNCHANGED <<service, phase, field, packet, shell, open, answer, ending, reply>>

(* recv with nothing left: the end of the stream is an answer to exec and,    *)
(* between two packets, to shell.                                             *)
ReceiveEnd ==
    /\ Running /\ unread = <<>> /\ want > 0
    /\ Answer(IF ending = "silence" THEN RaiseTo("AdbTimeoutError")
              ELSE IF ending = "eof" /\ field = "raw" THEN Returned(got)
              ELSE IF ending = "eof" /\ field = "packet" THEN EndOfShell(shell)
              ELSE RaiseTo("AdbServerConnectionError"))
    /\ UNCHANGED <<service, phase, got, want, packet, shell, unread, ending, reply>>

Whole(f) == Running /\ field = f /\ want = 0
wire == <<service, unread, ending, reply>>

Status ==
    /\ Whole("status")
    /\ \/ /\ got = Okay
          /\ phase' = "request"
          /\ IF phase = "select" THEN Pause
             ELSE CASE service = "query" -> Expect("length", Word)
                    [] service = "exec" -> Expect("raw", Word)
                    [] OTHER -> Expect("packet", 1)
          /\ UNCHANGED <<open, answer>>
       \/ got = Fail /\ Expect("refusal_length", Word) /\ UNCHANGED <<phase, open, answer>>
       \/ got \notin {Okay, Fail} /\ Raise("AdbProtocolError") /\ UNCHANGED <<phase, got, want>>
    /\ UNCHANGED <<wire, packet, shell>>

Length ==
    /\ Whole("length") \/ Whole("refusal_length")
    /\ LET length == ParseLength(got) IN
       IF length = <<>> THEN Raise("AdbProtocolError") /\ UNCHANGED <<got, want>>
       ELSE /\ Expect(IF field = "length" THEN "payload" ELSE "refusal", length[1])
            /\ UNCHANGED <<open, answer>>
    /\ UNCHANGED <<wire, phase, packet, shell>>

Payload ==
    /\ Whole("payload")
    /\ Answer(Returned(got))
    /\ UNCHANGED <<wire, phase, got, want, packet, shell>>

Refusal ==
    /\ Whole("refusal")
    /\ Raise(IF Contains(got, Garbled) THEN "AdbProtocolError"
             ELSE IF phase = "select" THEN SelectionError(got) ELSE "AdbServiceError")
    /\ UNCHANGED <<wire, phase, got, want, packet, shell>>

PacketHeader ==
    /\ \/ Whole("packet") /\ packet' = got[1] /\ Expect("size", Word)
       \/ Whole("size") /\ Expect("data", Value(ByteBase, Reverse(got))) /\ UNCHANGED packet
    /\ UNCHANGED <<wire, phase, shell, open, answer>>

(* Packets of other ids are skipped.                                          *)
PacketData ==
    /\ Whole("data")
    /\ IF packet = Exit /\ (Len(got) # 1 \/ shell.exit # <<>>)
       THEN Raise("AdbProtocolError") /\ UNCHANGED <<got, want, shell>>
       ELSE /\ shell' = CASE packet = Stdout -> [shell EXCEPT !.stdout = @ \o got]
                          [] packet = Stderr -> [shell EXCEPT !.stderr = @ \o got]
                          [] packet = Exit -> [shell EXCEPT !.exit = got]
                          [] OTHER -> shell
            /\ Expect("packet", 1)
            /\ UNCHANGED <<open, answer>>
    /\ UNCHANGED <<wire, phase, packet>>

ClientNext == \/ Connect \/ Send \/ Receive \/ ReceiveEnd \/ Status \/ Length \/ Payload
              \/ Refusal \/ PacketHeader \/ PacketData

ClientSpec == ClientInit /\ [][ClientNext]_clientVars
------------------------------------------------------------------------------
Ran == reply.kind = "script"
StdoutOf(script) == FlattenSeq([i \in DOMAIN script |->
                        IF script[i][1] = Stdout THEN script[i][2] ELSE <<>>])

(* The data of its first exit packet.                                         *)
ExitCodes(script) ==
    {script[i][2] : i \in {k \in DOMAIN script : /\ script[k][1] = Exit
                                                 /\ \A j \in 1..k - 1 : script[j][1] # Exit}}

(* Whatever pieces a reply arrives in and wherever it breaks off, what a call *)
(* returns is what the server sent in full: the payload of a query, all the   *)
(* text of a command that ran to exit code 0; only an exec: stream, which has *)
(* no end marker, may be cut. An attempt that is said to have completed did,  *)
(* with that code, and an error of the selection or of the service means that *)
(* nothing ran (client.py 88-149, _attempt.py 20-61, query.py 61-75).         *)
ReplyComplete ==
    \A i \in DOMAIN answer :
        LET a == answer[i] IN
        /\ a.status = "returned" =>
             CASE service = "query" -> reply.kind = "payload" /\ a.value = reply.value
               [] service = "exec" -> reply.kind = "payload" /\ IsPrefix(a.value, reply.value)
               [] OTHER -> /\ Ran /\ a.value = StdoutOf(reply.value)
                           /\ ExitCodes(reply.value) = {<<0>>}
        /\ a.scope = "process_exit" =>
             Ran /\ \E code \in ExitCodes(reply.value) : a.status = "succeeded" <=> code = <<0>>
        /\ a.status = "succeeded" => a.scope = "process_exit"
        /\ a.error \in {"AdbServiceError", "AdbTransportAmbiguousError",
                        "AdbTransportNotFoundError"} => reply.kind = "refused"
==============================================================================
