----------------------------- MODULE HttpSession -----------------------------
(***************************************************************************)
(* One HTTP connection: the bytes that recv() delivers in pieces, the loop *)
(* of socket::receive that hands them to the message loader                *)
(* (libsocket/socket.cpp), and the scan of belt.pp/http.hpp, which keeps   *)
(* its state in the session between two pieces.                            *)
(*                                                                         *)
(* A text is a sequence of symbols.  A symbol stands for a word that the   *)
(* scan never looks into; the words that are matched symbol by symbol, the *)
(* methods and the line endings, keep what makes them hard: two methods    *)
(* begin alike and an ending begins with a symbol of the text before it.   *)
(***************************************************************************)
EXTENDS Naturals, Sequences, FiniteSets, SequencesExt

CONSTANTS
    Symbols,          \* the symbols of a text
    Scripts,          \* what the clients send: sequences of messages
    EnoughLength,     \* enough_length: a line without an end is refused beyond
    HeaderMaxSize,    \* header_max_size
    ContentMaxSize,   \* content_max_size
    BadUrls           \* the URLs that request::set refuses

(* A message is [lines, body, type, good]: its lines with their endings,   *)
(* the request line first and the empty line last, its content, what it    *)
(* asks for and whether the scan has to accept it.                         *)
Methods == [post |-> <<"P", "O", " ">>, get |-> <<"G", " ">>, put |-> <<"P", "U", " ">>,
            del |-> <<"D", " ">>, options |-> <<"O", " ">>]
value_request_ending == <<" ", "H", "r", "n">>
value_line_ending    == <<"r", "n">>

VARIABLES
    script,     \* the messages of this client
    wire,       \* the text they make together
    sent,       \* how many symbols of them have been delivered
    m_receive_stream,  \* symbols received and not consumed
    ssd,        \* the scan state on top of lst_ptr_data, or NoStatus
    scan,       \* protocol(): the call that is being made
    autoreply,  \* replies in session_special_data::autoreply
    pc,         \* idle, in the loop of receive(), in protocol(), at its result
    packets,    \* history: the requests handed to the user
    replied,    \* history: how many OPTIONS have been answered, once or more
    base,       \* history: symbols delivered when the last error was told
    heard       \* history: packets and OPTIONS answered before that

history == <<packets, replied, base, heard>>
vars == <<wire, script, sent, m_receive_stream, ssd, scan, autoreply, pc, history>>

NoStatus == [status |-> "none"]
Fresh    == [status |-> "clean", type |-> "post", scanned |-> 0, length |-> "none"]

Text(m)  == FlattenSeq(m.lines) \o m.body
Wire(ms) == FlattenSeq([i \in DOMAIN ms |-> Text(ms[i])])

Init ==
    /\ script \in Scripts
    /\ wire = Wire(script)
    /\ sent = 0 /\ m_receive_stream = <<>> /\ ssd = NoStatus /\ scan = NoStatus
    /\ autoreply = 0
    /\ pc = "idle" /\ packets = <<>> /\ replied = 0 /\ base = 0 /\ heard = <<0, 0>>

-----------------------------------------------------------------------------
(* The matching of parser.hpp.                                             *)

Shorter(a, b) == IF a < b THEN a ELSE b

(* check_begin: how much of s is a beginning of v, up to the end of either. *)
check_begin(s, v) ==
    LET n == Shorter(Len(s), Len(v))
    IN IF \A i \in 1..n : s[i] = v[i] THEN n ELSE 0

(* check_end: the first place at which s goes on with v to its end, or to  *)
(* the end of s: where the ending starts and where it stops.               *)
check_end(s, v) ==
    LET at(i) == check_begin(SubSeq(s, i + 1, Len(s)), v)
        first == CHOOSE i \in 0..Len(s) :
                    /\ i = Len(s) \/ at(i) > 0
                    /\ \A k \in 0..(i - 1) : at(k) = 0
    IN <<first, first + at(first)>>

(* Which methods s begins like; the code takes the first that matches, and *)
(* two that match a piece match the same piece.                            *)
BeginsLike(s) == {t \in DOMAIN Methods : check_begin(s, Methods[t]) > 0}
Begun(s) ==
    IF BeginsLike(s) = {} THEN 0
    ELSE check_begin(s, Methods[CHOOSE t \in BeginsLike(s) : TRUE])

-----------------------------------------------------------------------------
(* protocol(): a scan in progress is [ss, rest, long, code], code being    *)
(* "attempt" as long as nothing is decided.                                *)

Scan(ss, s) == [ss |-> ss, rest |-> s, long |-> Len(s) > EnoughLength, code |-> "attempt"]

(* A line of n symbols has been read, and has told what ss has.            *)
Read(sc, n, ss) ==
    [sc EXCEPT !.ss = [ss EXCEPT !.scanned = @ + n],
               !.rest = SubSeq(sc.rest, n + 1, Len(sc.rest)),
               !.long = FALSE]

(* The line that names the method and the resource.  A text that begins    *)
(* like no method is refused, and so is a URL that makes no sense; a piece *)
(* of a method makes the scan HTTP's.                                      *)
RequestLine(sc) ==
    LET n == Begun(sc.rest)
        e == check_end(sc.rest, value_request_ending)
        t == {m \in DOMAIN Methods : Methods[m] = SubSeq(sc.rest, 1, n)}
    IN IF n = 0 \/ (e[1] = e[2] /\ sc.long) THEN [sc EXCEPT !.code = "error"]
       ELSE IF t = {} \/ e[2] - e[1] < Len(value_request_ending)
            THEN [sc EXCEPT !.ss.status = "request"]
       ELSE IF SubSeq(sc.rest, n + 1, e[1]) \in BadUrls THEN [sc EXCEPT !.code = "error"]
       ELSE Read(sc, e[2], [sc.ss EXCEPT !.type = CHOOSE m \in t : TRUE,
                                         !.status = "properties"])

(* Of the properties only Content-Length is looked at: what add_property   *)
(* makes of a line without a value is the empty one.                       *)
IsLength(line) == line # <<>> /\ Head(line) = "L"
Value(line)    == IF Len(line) = 1 THEN "" ELSE line[2]

(* One line of the properties, up to the empty line.                       *)
NextLine(sc) ==
    LET e == check_end(sc.rest, value_line_ending)
        line == SubSeq(sc.rest, 1, e[1])
    IN IF e[1] = e[2] /\ sc.long THEN [sc EXCEPT !.code = "error"]
       ELSE IF e[2] - e[1] < Len(value_line_ending) THEN sc
       ELSE Read(sc, e[2], [sc.ss EXCEPT
                               !.status = IF line = <<>> THEN "done" ELSE @,
                               !.length = IF IsLength(line) THEN Value(line) ELSE @])

MoreLines(sc) ==
    /\ sc.code = "attempt" /\ sc.ss.status = "properties"
    /\ sc.ss.scanned < HeaderMaxSize
    /\ NextLine(sc) # sc

(* A length that is no number, or too large a one, is refused.             *)
Number == [i \in 0..9 |-> ToString(i)]
NumberOf(length) == CHOOSE i \in 0..9 : Number[i] = length
LengthRefused(length) ==
    length \notin {Number[i] : i \in 0..9} \/ NumberOf(length) > ContentMaxSize

(* Variant: OPTIONS is handed over like GET.                               *)
FinishOptionsLikeGet(sc) ==
    IF sc.code = "error" THEN sc
    ELSE IF sc.ss.scanned >= HeaderMaxSize THEN [sc EXCEPT !.code = "error"]
    ELSE IF sc.ss.status # "done" THEN sc
    ELSE IF sc.ss.type \in {"get", "del", "options"} THEN [sc EXCEPT !.code = "success"]
    ELSE IF LengthRefused(sc.ss.length) THEN [sc EXCEPT !.code = "error"]
    ELSE IF Len(sc.rest) < NumberOf(sc.ss.length) THEN sc
    ELSE [sc EXCEPT !.code = "success"]

(* What a complete header asks for: OPTIONS is answered here, POST and PUT *)
(* wait for their content.                                                 *)
Finish(sc) ==
    IF sc.code = "error" THEN sc
    ELSE IF sc.ss.scanned >= HeaderMaxSize THEN [sc EXCEPT !.code = "error"]
    ELSE IF sc.ss.status # "done" THEN sc
    ELSE IF sc.ss.type = "options" THEN [sc EXCEPT !.code = "options"]
    ELSE IF sc.ss.type \in {"get", "del"} THEN [sc EXCEPT !.code = "success"]
    ELSE IF LengthRefused(sc.ss.length) THEN [sc EXCEPT !.code = "error"]
    ELSE IF Len(sc.rest) < NumberOf(sc.ss.length) THEN sc
    ELSE [sc EXCEPT !.code = "success"]

Body(sc) ==
    IF sc.ss.type \in {"post", "put"} THEN SubSeq(sc.rest, 1, NumberOf(sc.ss.length))
    ELSE <<>>

-----------------------------------------------------------------------------
(* The loader that socket::receive calls.  It is the program's: the one    *)
(* here does what the generated loader of resources.cpp does with the      *)
(* result of its parser, drops all that it has on an error and takes up    *)
(* the text where the scan has stopped otherwise.  It leaves autoreply     *)
(* alone, which protocol() appends to and nobody empties.                  *)

(* Variant: the scan's state stays in the session after an error.          *)
StatusKeptOnError(sc) == IF sc.code \in {"attempt", "error"} THEN sc.ss ELSE NoStatus

(* Variant: the scan's state stays in the session after a success.         *)
StatusKept(sc) == IF sc.code \in {"attempt", "success"} THEN sc.ss ELSE NoStatus

StatusLeft(sc) == IF sc.code = "attempt" THEN sc.ss ELSE NoStatus

Rest(sc) ==
    CASE sc.code = "error" -> <<>>
      [] sc.code = "success" -> SubSeq(sc.rest, Len(Body(sc)) + 1, Len(sc.rest))
      [] OTHER -> sc.rest

Replies(sc) == IF sc.code = "options" THEN autoreply + 1 ELSE autoreply

(* Variant: the loop is only left when the text is used up.                *)
ContinuesAlways == TRUE

Continues == autoreply > 0

(* recv() delivers a piece: it is pushed and the loop begins.              *)
Deliver(n) ==
    /\ pc = "idle"
    /\ sent + n <= Len(wire)
    /\ sent' = sent + n
    /\ m_receive_stream' = m_receive_stream \o SubSeq(wire, sent + 1, sent + n)
    /\ pc' = "loop"
    /\ UNCHANGED <<wire, script, ssd, scan, autoreply, history>>

(* A turn of the loop hands the text over from its beginning.              *)
Load ==
    /\ pc = "loop" /\ m_receive_stream # <<>>
    /\ scan' = Scan(IF ssd = NoStatus THEN Fresh ELSE ssd, m_receive_stream)
    /\ pc' = IF scan'.ss.status \in {"clean", "request"} THEN "method" ELSE "lines"
    /\ UNCHANGED <<wire, script, sent, m_receive_stream, ssd, autoreply, history>>

LoadRequestLine ==
    /\ pc = "method"
    /\ scan' = RequestLine(scan)
    /\ pc' = "lines"
    /\ UNCHANGED <<wire, script, sent, m_receive_stream, ssd, autoreply, history>>

LoadLine ==
    /\ pc = "lines" /\ MoreLines(scan)
    /\ scan' = NextLine(scan)
    /\ UNCHANGED <<wire, script, sent, m_receive_stream, ssd, autoreply, pc, history>>

(* The result: what the loader has taken is popped, an error is told or a  *)
(* request handed over, and the loop goes on.                              *)
Loaded ==
    /\ pc = "lines" /\ ~ MoreLines(scan)
    /\ LET sc == Finish(scan)
       IN /\ m_receive_stream' = Rest(sc)
          /\ ssd' = StatusLeft(sc)
          /\ autoreply' = Replies(sc)
          /\ packets' = IF sc.code # "success" THEN packets
                        ELSE Append(packets, [type |-> sc.ss.type, body |-> Body(sc)])
          /\ pc' = IF sc.code \in {"attempt", "options"} THEN "reply" ELSE "loop"
          /\ base' = IF sc.code = "error" THEN sent ELSE base
          /\ heard' = IF sc.code = "error" THEN <<Len(packets), replied>> ELSE heard
    /\ scan' = NoStatus
    /\ UNCHANGED <<wire, script, sent, replied>>

(* There was neither: all that autoreply has is sent, whether it has been  *)
(* sent before or not, and if it has nothing the loop is left.             *)
Reply ==
    /\ pc = "reply"
    /\ replied' = autoreply
    /\ pc' = IF Continues THEN "loop" ELSE "idle"
    /\ UNCHANGED <<wire, script, sent, m_receive_stream, ssd, scan, autoreply, packets, base,
                   heard>>

Drained ==
    /\ pc = "loop" /\ m_receive_stream = <<>>
    /\ pc' = "idle"
    /\ UNCHANGED <<wire, script, sent, m_receive_stream, ssd, scan, autoreply, history>>

Done ==
    /\ pc = "idle" /\ sent = Len(wire)
    /\ UNCHANGED vars

Loop == Load \/ LoadRequestLine \/ LoadLine \/ Loaded \/ Reply \/ Drained

Next == Loop \/ Done \/ \E n \in 1..Len(wire) : Deliver(n)

Spec == Init /\ [][Next]_vars /\ WF_vars(Loop)

-----------------------------------------------------------------------------
(* What clients send.                                                      *)

(* One line: it ends at the first ending, and soon enough not to be        *)
(* refused before the ending has come.                                     *)
IsLine(s, v) ==
    /\ Len(s) >= Len(v) /\ Len(s) - Len(v) <= EnoughLength
    /\ check_end(s, v) = <<Len(s) - Len(v), Len(s)>>

Contents(line) == SubSeq(line, 1, Len(line) - Len(value_line_ending))

(* The lines name the method and a URL, then properties, then nothing.     *)
Url(line, type) ==
    SubSeq(line, Len(Methods[type]) + 1, Len(line) - Len(value_request_ending))

IsHeader(lines, type) ==
    /\ lines \in Seq(Seq(Symbols)) /\ Len(lines) >= 2
    /\ type \in DOMAIN Methods
    /\ IsLine(lines[1], value_request_ending)
    /\ IsPrefix(Methods[type], lines[1]) /\ Url(lines[1], type) # <<>>
    /\ \A i \in 2..Len(lines) :
          /\ IsLine(lines[i], value_line_ending)
          /\ Contents(lines[i]) = <<>> <=> i = Len(lines)

(* The Content-Length that the first n lines give.                         *)
LengthIn(lines, n) ==
    LET given == {i \in 2..n : IsLength(Contents(lines[i]))}
    IN IF given = {} THEN "none" ELSE Value(Contents(lines[Max(given)]))

HasContent(m) == m.type \in {"post", "put"}

LengthOf(m) == LengthIn(m.lines, Len(m.lines))

(* What must be refused, and by when: with the header.                     *)
Refused(m) ==
    \/ Url(m.lines[1], m.type) \in BadUrls
    \/ Len(FlattenSeq(m.lines)) >= HeaderMaxSize
    \/ HasContent(m) /\ LengthRefused(LengthOf(m))

(* A message is good, or must be refused for what its header says or for   *)
(* beginning like no method.                                               *)
IsMessage(m) ==
    /\ m.lines \in Seq(Seq(Symbols)) /\ m.body \in Seq(Symbols) /\ m.good \in BOOLEAN
    /\ \/ IsHeader(m.lines, m.type) /\ m.good /\ ~ Refused(m)
          /\ Len(m.body) = IF HasContent(m) THEN NumberOf(LengthOf(m)) ELSE 0
       \/ IsHeader(m.lines, m.type) /\ ~ m.good /\ Refused(m)
       \/ ~ m.good /\ Text(m) # <<>> /\ Begun(Text(m)) = 0

ASSUME SymbolsAssumption ==
    {"P", "O", "U", "G", "D", " ", "H", "r", "n"} \subseteq Symbols
ASSUME LimitsAssumption ==
    EnoughLength \in Nat /\ HeaderMaxSize \in Nat \ {0} /\ ContentMaxSize \in Nat
ASSUME ScriptsAssumption ==
    \A ms \in Scripts : ms \in Seq(Range(ms)) /\ \A i \in DOMAIN ms : IsMessage(ms[i])

-----------------------------------------------------------------------------
(* Where the messages begin and end in the wire.                           *)
Start(i) == Len(Wire(SubSeq(script, 1, i - 1)))
Stop(i)  == Start(i) + Len(Text(script[i]))

(* The messages that lie between the last error and what has arrived.      *)
Arrived == {i \in DOMAIN script : base <= Start(i) /\ Stop(i) <= sent}
Due     == {i \in Arrived : script[i].type # "options"}

(* The last error, if any, was told when the text had arrived up to the    *)
(* end of a message.  After another one the rest of the message is taken   *)
(* for a new request, of which nothing can be said.                        *)
Aligned == base = Len(wire) \/ base \in {Start(i) : i \in DOMAIN script}

(* receive() has returned, or it waits for more behind an OPTIONS whose     *)
(* answer it sends once more.                                              *)
Resending == pc = "reply" /\ ssd # NoStatus /\ autoreply > 0
Settled   == pc = "idle" \/ Resending

TypeOK ==
    /\ script \in Scripts
    /\ sent \in 0..Len(wire) /\ base \in 0..sent
    /\ Len(m_receive_stream) <= sent
    /\ pc \in {"idle", "loop", "method", "lines", "reply"}
    /\ autoreply \in Nat /\ replied \in 0..autoreply
    /\ ssd = NoStatus \/ ssd.status \in {"request", "properties", "done"}
    /\ \A i \in DOMAIN packets : packets[i].type \in {"get", "del", "post", "put"}

(* protocol() and receive(): wherever the text was cut in pieces, the      *)
(* requests that have arrived since the last error are all handed over, in *)
(* order, with their own content and nothing left of the ones before.      *)
PiecesDoNotMatter ==
    (Settled /\ Aligned) =>
        /\ Len(packets) = heard[1] + Cardinality(Due)
        /\ \A i \in Due :
              packets[heard[1] + Cardinality({k \in Due : k <= i})] =
                  [type |-> script[i].type, body |-> script[i].body]

(* protocol() and receive(): each OPTIONS request that has arrived has     *)
(* been answered, and no other request has.                                *)
OptionsAnswered ==
    (Settled /\ Aligned) =>
        replied - heard[2] = Cardinality({i \in Arrived : script[i].type = "options"})

(* protocol(): a request that must be refused has caused an error by the   *)
(* time it has arrived, and no good one causes any.                        *)
ErrorsWhereDue ==
    /\ (Settled /\ Aligned) => \A i \in Arrived : script[i].good
    /\ (\A i \in DOMAIN script : script[i].good) => base = 0

(* Whatever has to be answered is, and whatever has to be refused          *)
(* (protocol() and receive()).                                             *)
AnswersWhereDue == OptionsAnswered /\ ErrorsWhereDue

(* receive(): the loop ends, as every turn takes something of the text or  *)
(* waits for more, unless it waits for more behind an OPTIONS: then it     *)
(* sends the answer again and again.                                       *)
ReceiveReturns == (pc # "idle") ~> Settled
=============================================================================
