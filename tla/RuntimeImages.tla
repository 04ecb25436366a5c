------------------------------ MODULE RuntimeImages ------------------------------
(***************************************************************************)
(* Where the Blink guest is.  The engine tells an address, the lines of    *)
(* its debugger (Step) or the bytes at the address (a fatal signal); the   *)
(* resolver finds the image and its load bias by the bytes, and remembers  *)
(* the bias.  A crash is reported with what is known of the place.         *)
(*                                                                         *)
(* An image has one executable segment, [start, bytes, from]: its first    *)
(* address, its bytes, and where in them its instructions begin, the end   *)
(* of the last one included.  Memory holds the images at their biases.     *)
(***************************************************************************)
EXTENDS Integers, Sequences

CONSTANTS
  Guests,       \* [program, library, fixed, functions, biases]: what is in memory, and where
  Nearby,       \* lines the debugger shows before and after the current one
  Observed,     \* bytes read at a crash: 15 in the code
  MinSignature, \* bytes that identify an image: 6
  MaxWindow,    \* bytes of a window: 32
  Enough,       \* a window of fewer bytes is extended backwards: 12
  Unknown       \* no place, match, image, address or function

Candidates == {"program", "library"}
Instructions(image) == 1..Len(image.from) - 1

\* A segment as it is disassembled: instructions one after the other, that are at
\* least a byte and fit in a window.
Loadable(image) ==
  /\ image.start \in Nat /\ image.bytes \in Seq(Nat) /\ image.from \in Seq(0..Len(image.bytes))
  /\ \A i, j \in DOMAIN image.from : i < j => image.from[i] < image.from[j]
  /\ \A i \in Instructions(image) : image.from[i + 1] - image.from[i] <= MaxWindow

Symbols == [value : Nat, size : Nat]
Matches == [image : Candidates, bias : Int, address : Int]
Reports == [image : Candidates \cup {Unknown}, address : Int \cup {Unknown}, bytes : Seq(Nat),
            function : Symbols \cup {Unknown}]

Base(g, c) == g.biases[c] + g[c].start
Top(g, c) == Base(g, c) + Len(g[c].bytes)

\* What Blink loads: images that share no memory, a program of fixed address at it.
ASSUME GuestsAssumption ==
  /\ Nearby \in Nat /\ Observed \in Nat /\ MinSignature \in Nat \ {0} /\ MaxWindow \in Nat /\ Enough \in Nat
  /\ Unknown \notin Candidates \cup [image : Candidates, bias : Int] \cup Matches \cup Reports
  /\ \A g \in Guests :
       /\ g.fixed \in BOOLEAN /\ g.biases \in [Candidates -> Nat] /\ (g.fixed => g.biases["program"] = 0)
       /\ \A c \in Candidates : Loadable(g[c])
       /\ g.functions \subseteq Symbols
       /\ Top(g, "program") <= Base(g, "library") \/ Top(g, "library") <= Base(g, "program")

VARIABLES
  guest,
  place,  \* the last place observed: [region, index]
  known,  \* knownBiases: the images whose bias is known, and the bias
  match,  \* what the resolver answered: [image, address, bias]
  crash   \* the report of a fatal signal

imageVars == <<guest, place, known, match, crash>>

-----------------------------------------------------------------------------
(***************************************************************************)
(* The guest's memory                                                      *)
(***************************************************************************)
SegmentEnd(r) == guest[r].start + Len(guest[r].bytes)
AddressOf(image, i) == image.start + image.from[i]
InMemory(r, i) == guest.biases[r] + AddressOf(guest[r], i)

\* What the debugger shows around an instruction.
Lines(r, i) ==
  LET image == guest[r]
      first == IF i > Nearby THEN i - Nearby ELSE 1
      last == IF i + Nearby < Len(image.from) THEN i + Nearby ELSE Len(image.from) - 1
  IN [k \in 1..last - first + 1 |->
        [address |-> InMemory(r, first + k - 1),
         bytes |-> SubSeq(image.bytes, image.from[first + k - 1] + 1, image.from[first + k])]]

\* The bytes from an instruction on; after the segment the page is zero.
BytesAt(r, i) ==
  LET rest == SubSeq(guest[r].bytes, guest[r].from[i] + 1, Len(guest[r].bytes))
  IN SubSeq(rest \o [k \in 1..Observed |-> 0], 1, Observed)

-----------------------------------------------------------------------------
(***************************************************************************)
(* The window of bytes around a line                                       *)
(***************************************************************************)
BytesOf(lines, first, last) ==
  LET upTo[k \in first - 1..last] == IF k < first THEN <<>> ELSE upTo[k - 1] \o lines[k].bytes
  IN upTo[last]

Contiguous(lines, first, last) ==
  \A k \in first..last - 1 : lines[k].address + Len(lines[k].bytes) = lines[k + 1].address

FitsWindow(lines, first, last) ==
  Contiguous(lines, first, last) /\ Len(BytesOf(lines, first, last)) <= MaxWindow

\* As many lines after the cursor as fit.
LastLine(lines, cursor) ==
  LET after == {l \in cursor..Len(lines) : FitsWindow(lines, cursor, l)}
  IN CHOOSE l \in after : \A k \in after : k <= l

\* Before it, as few as are needed.
FirstLine(lines, cursor, last) ==
  LET Short(f) == \A k \in f + 1..cursor : Len(BytesOf(lines, k, last)) < Enough
      before == {f \in 1..cursor : FitsWindow(lines, f, last) /\ Short(f)}
  IN CHOOSE f \in before : \A k \in before : f <= k

\* Mutant: the address of the window is that of the cursor.
WindowAtCursor(lines, cursor) ==
  LET last == LastLine(lines, cursor)
  IN [address |-> lines[cursor].address, bytes |-> BytesOf(lines, FirstLine(lines, cursor, last), last)]

Window(lines, cursor) ==
  LET last == LastLine(lines, cursor)
      first == FirstLine(lines, cursor, last)
  IN [address |-> lines[first].address, bytes |-> BytesOf(lines, first, last)]

\* The line at an address.
CursorLine(lines, rip) == CHOOSE k \in DOMAIN lines : lines[k].address = rip

-----------------------------------------------------------------------------
(***************************************************************************)
(* Resolution                                                              *)
(***************************************************************************)
Occurs(bytes, code, offset) == SubSeq(code, offset + 1, offset + Len(bytes)) = bytes

\* Mutant: the last byte of the segment is left out.
MatchesBiasShort(c, bias, rip, bytes) ==
  /\ rip - bias >= guest[c].start
  /\ rip - bias + Len(bytes) < SegmentEnd(c)
  /\ Occurs(bytes, guest[c].bytes, rip - bias - guest[c].start)

MatchesBias(c, bias, rip, bytes) ==
  /\ rip - bias >= guest[c].start
  /\ rip - bias + Len(bytes) <= SegmentEnd(c)
  /\ Occurs(bytes, guest[c].bytes, rip - bias - guest[c].start)

Cached(rip, bytes) ==
  {[image |-> c, bias |-> known[c]] : c \in {d \in DOMAIN known : MatchesBias(d, known[d], rip, bytes)}}

\* Every place of every image where a signature that was seen at an address occurs.
Signed(address, bytes) ==
  UNION {{[image |-> c, bias |-> address - guest[c].start - o] :
            o \in {p \in 0..Len(guest[c].bytes) - Len(bytes) : Occurs(bytes, guest[c].bytes, p)}} :
         c \in Candidates}

Only(found) == IF \E m \in found : found = {m} THEN CHOOSE m \in found : TRUE ELSE Unknown

Remember(c, bias) == [d \in DOMAIN known \cup {c} |-> IF d = c THEN bias ELSE known[d]]

\* What is found by a known bias is final; otherwise a signature must be unique.
ResolveImage(rip, bytes, signature) ==
  LET cached == Cached(rip, bytes)
      signed == IF Len(signature.bytes) < MinSignature THEN {} ELSE Signed(signature.address, signature.bytes)
      answer == IF cached # {} THEN Only(cached) ELSE Only(signed)
  IN /\ match' = IF answer = Unknown THEN Unknown
                 ELSE [image |-> answer.image, bias |-> answer.bias, address |-> rip - answer.bias]
     /\ known' = IF cached = {} /\ answer # Unknown THEN Remember(answer.image, answer.bias) ELSE known

-----------------------------------------------------------------------------
ImagesInit ==
  /\ guest \in Guests
  /\ place = Unknown /\ match = Unknown /\ crash = Unknown
  /\ known = [c \in (IF guest.fixed THEN {"program"} ELSE {}) |-> 0]

\* The debugger stops at an instruction and its lines are resolved.
Step ==
  \E r \in Candidates : \E i \in Instructions(guest[r]) :
    LET lines == Lines(r, i)
        rip == InMemory(r, i)
        cursor == CursorLine(lines, rip)
    IN /\ crash = Unknown
       /\ place' = [region |-> r, index |-> i]
       /\ UNCHANGED <<guest, crash>>
       /\ ResolveImage(rip, lines[cursor].bytes, Window(lines, cursor))

\* The program's segment at a fixed address.
FixedProgram(rip) ==
  guest.fixed /\ guest["program"].start <= rip /\ rip < SegmentEnd("program")

\* The function of the program at an address: of those that begin before it,
\* the last one that has no size or goes on beyond it, or else the last one.
FunctionAt(address) ==
  LET before == {f \in guest.functions : f.value <= address}
      fitting == {f \in before : f.size = 0 \/ address < f.value + f.size}
      Later(fs) == CHOOSE f \in fs : \A g \in fs : g.value <= f.value
  IN IF fitting # {} THEN Later(fitting) ELSE IF before # {} THEN Later(before) ELSE Unknown

\* The report prefers the image found by the bytes to that of the address.
Report(found, rip, bytes) ==
  LET address == IF found # Unknown THEN rip - found.bias ELSE IF FixedProgram(rip) THEN rip ELSE Unknown
      image == IF found # Unknown THEN found.image ELSE IF FixedProgram(rip) THEN "program" ELSE Unknown
  IN [image |-> image, address |-> address, bytes |-> bytes,
      function |-> IF image = "program" THEN FunctionAt(address) ELSE Unknown]

\* A fatal signal ends the process; the engine may not tell the bytes.
Crash ==
  \E r \in Candidates : \E i \in Instructions(guest[r]) :
    LET rip == InMemory(r, i)
    IN \E bytes \in {<<>>, BytesAt(r, i)} :
       /\ crash = Unknown
       /\ place' = [region |-> r, index |-> i]
       /\ IF Len(bytes) < MinSignature THEN match' = Unknown /\ UNCHANGED known
          ELSE ResolveImage(rip, bytes, [address |-> rip, bytes |-> bytes])
       /\ crash' = Report(match', rip, bytes)
       /\ UNCHANGED guest

ImagesNext == Step \/ Crash

ImagesSpec == ImagesInit /\ [][ImagesNext]_imageVars

-----------------------------------------------------------------------------
(***************************************************************************)
(* Properties                                                              *)
(***************************************************************************)
ImagesTypeOK ==
  /\ place = Unknown \/ place.region \in Candidates
  /\ DOMAIN known \subseteq Candidates
  /\ match = Unknown \/ match.image \in DOMAIN known

Truly(m) == m.image = place.region /\ m.address = AddressOf(guest[place.region], place.index)

\* What was observed lies in the segment of an image.
Inside ==
  /\ place # Unknown
  /\ crash = Unknown \/ AddressOf(guest[place.region], place.index) + Len(crash.bytes)
                       <= SegmentEnd(place.region)

\* The resolver fails closed: the image it names is the one at the address,
\* where it is loaded, if what it saw lies in it (RuntimeImageResolver).
MatchIsTrue == Inside /\ match # Unknown => Truly(match)

\* A bias that is remembered is the image's.
KnownIsTrue == Inside => \A c \in DOMAIN known : known[c] = guest.biases[c]

\* Once the bias of an image is known every later step in it is resolved, even
\* where the bytes occur in several images.
KnownStaysResolved ==
  [][\A c \in DOMAIN known : Step /\ place'.region = c => match' # Unknown /\ match'.image = c]_imageVars

\* What is known of an image is never given up for something else.
KnownIsKept == [][Step => \A c \in DOMAIN known : known'[c] = known[c]]_imageVars

\* A crash outside the program never names a function of it, and one in a
\* program at its fixed address always names the program
\* (captureBlinkFatalSignal).
CrashNamesItsImage ==
  Inside /\ crash # Unknown =>
    /\ crash.function # Unknown => place.region = "program"
    /\ crash.image # Unknown => crash.image = place.region
    /\ guest.fixed /\ place.region = "program" => crash.image = "program"

\* The image and bias remembered, the match shown and the image a crash is assigned
\* to are those the guest is in.
ImagesAreTrue == ImagesTypeOK /\ KnownIsTrue /\ MatchIsTrue /\ CrashNamesItsImage

\* Within a session an image that is known stays known, and its addresses resolved.
ImagesStayKnown == KnownStaysResolved /\ KnownIsKept
===============================================================================
