------------------------------- MODULE Library -------------------------------
(***************************************************************************)
(* Calls of the sequential routines the programs share: the string library *)
(* (CString), the monitor's command line (ConsoleLine), printf (Printf),   *)
(* the drawing library (Gfx) and the IPv6 checksum (Checksum).  A caller   *)
(* picks a routine and arguments it may be called with; the state after    *)
(* the call holds both the arguments and what the routine has done.        *)
(***************************************************************************)
EXTENDS CString, ConsoleLine, Printf, Gfx, Checksum

CONSTANTS MemSize,      \* bytes of memory the moves work on
          Strings,      \* strings for the string routines
          Delimited,    \* strings for strtok
          Delimiters,   \* sets of delimiters, as strings
          Lines,        \* command lines
          Mods,         \* what stands between % and a conversion
          Numbers,      \* integer arguments
          Surface,      \* surface to draw on
          Coords,       \* coordinates
          Texts,        \* character sequences to draw
          Channels,     \* values of a colour channel
          Addresses,    \* two bytes of an IPv6 address
          Payloads      \* packets with zeros at offset 2

VARIABLES call, result

vars == <<call, result>>

Idle == [fn |-> "idle"]

Init == call = Idle /\ result = Idle

Calls(arguments, value) == call' = arguments /\ result' = value

Return == call # Idle /\ call' = Idle /\ result' = Idle

-----------------------------------------------------------------------------
(* libc/src/string                                                         *)

Blank == [a \in 0..MemSize-1 |-> a + 1]

CallMove ==
  /\ call = Idle
  /\ \E d, s \in 0..MemSize-1 : \E n \in 0..MemSize - Max({d, s}) :
       \/ /\ d = s \/ d + n <= s \/ s + n <= d
          /\ Calls([fn |-> "memcpy", d |-> d, s |-> s, n |-> n],
                   memcpy(Blank, d, s, n))
       \/ Calls([fn |-> "memmove", d |-> d, s |-> s, n |-> n],
                memmove(Blank, d, s, n))

CallSet ==
  /\ call = Idle
  /\ \E s \in 0..MemSize-1, c \in {0, 77, Byte + 99} : \E n \in 0..MemSize - s :
       Calls([fn |-> "memset", s |-> s, c |-> c, n |-> n],
             memset(Blank, s, c, n))

\* Two strings in memory, with room behind each; the rest is not zero.
Room == 8
Memory(p, q) ==
  [a \in 0..2 * Room - 1 |->
     LET s == IF a < Room THEN p ELSE q
         i == a % Room
     IN CASE i < Len(s) -> s[i + 1] [] i = Len(s) -> 0 [] OTHER -> 99]

CallString ==
  /\ call = Idle
  /\ \E p, q \in Strings, n \in 0..4 :
       LET m == Memory(p, q)
           Does(fn, value) == Calls([fn |-> fn, p |-> p, q |-> q, n |-> n], value)
       IN \/ Does("strncpy", strncpy(m, 0, Room, n))
          \/ Does("strncat", strncat(m, 0, Room, n))
          \/ Does("strncmp", strncmp(m, 0, Room, n))
          \/ Does("memcmp", memcmp(m, 0, Room, n))
          \/ n = 0 /\ Does("strcpy", strcpy(m, 0, Room))
          \/ n = 0 /\ Does("strcat", strcat(m, 0, Room))
          \/ n = 0 /\ Does("strcmp", strcmp(m, 0, Room))
          \/ n = 0 /\ Does("strstr", strstr(m, 0, Room))
          \/ n <= 1 /\ Does("strchr", strchr(m, 0, n))
          \/ n <= 1 /\ Does("strrchr", strrchr(m, 0, n))

\* Calls of strtok until it answers NULL: the first with the string, the
\* others without.
Strtok(mem, saved, s, tokens) ==
  LET r == strtok(mem, saved, s, Room)
  IN r @@ [tokens |-> IF r.token = NULL THEN tokens
                      ELSE Append(tokens, r.token)]

CallStrtok ==
  /\ call = Idle
  /\ \E p \in Delimited, q \in Delimiters :
       Calls([fn |-> "strtok", p |-> p, q |-> q],
             Strtok(Memory(p, q), NULL, 0, <<>>))

AgainStrtok ==
  /\ call.fn = "strtok" /\ result.token # NULL
  /\ result' = Strtok(result.mem, result.saved, NULL, result.tokens)
  /\ UNCHANGED call

-----------------------------------------------------------------------------
(* boot/console.c, libc/src/printf.c, net/ipv6.c                           *)

CallLine ==
  /\ call = Idle
  /\ \E line \in Lines :
       Calls([fn |-> "console_line", line |-> line], console_line(line))

\* The byte before the buffer, the buffer and the memory behind it.
Buffer == [i \in 0..40 |-> "?"]

CallPrintf ==
  /\ call = Idle
  /\ \E mods \in Mods, c \in Conversions \cup {"q"}, len \in {0, 1, 5, 30} :
       \E arg \in CASE c = "s" -> {NullString, <<"a", "b", "c">>, <<>>}
                    [] c = "c" -> {"z"}
                    [] c \in {"%", "n", "q"} -> {0}
                    [] OTHER   -> Numbers :
         Calls([fn |-> "vsnprintf", mods |-> mods, c |-> c, len |-> len,
                arg |-> arg],
               vsnprintf(Buffer, len, Format(<<"A">>, mods, c, <<"B", "C">>),
                         <<arg>>))

CallChecksum ==
  /\ call = Idle
  /\ \E src, dst \in Addresses, nh \in 1..Octet-1, payload \in Payloads :
       LET length == <<Len(payload) \div Octet, Len(payload) % Octet>>
       IN Calls([fn |-> "checksum_ip6", length |-> length, nh |-> nh,
                 src |-> src, dst |-> dst, payload |-> payload],
                checksum_ip6(length, nh, src, dst, payload))

-----------------------------------------------------------------------------
(* libgfx                                                                  *)

CallDraw ==
  /\ call = Idle
  /\ \E x, y \in Coords :
       \/ Calls([fn |-> "plot", x |-> x, y |-> y],
                plot16(Surface, x, y, Surface.fgcolor))
       \/ \E x1, y1 \in Coords :
            Calls([fn |-> "fill", x |-> x, y |-> y, x1 |-> x1, y1 |-> y1],
                  gfx_fill(Surface, x, y, x1, y1, Surface.fgcolor))
       \/ \E s \in Texts :
            Calls([fn |-> "puts", x |-> x, y |-> y, s |-> s],
                  gfx_puts(Surface, x, y, s))

CallClear ==
  /\ call = Idle
  /\ Calls([fn |-> "clear"], gfx_clear(Surface, Surface.fgcolor))

CallColor ==
  /\ call = Idle
  /\ \E r, g, b \in Channels :
       Calls([fn |-> "color", r |-> r, g |-> g, b |-> b],
             color16(r * 65536 + g * 256 + b))

CallText ==
  /\ call = Idle
  /\ \E cx, cy \in Coords, s \in Texts :
       Calls([fn |-> "txt", cx |-> cx, cy |-> cy, s |-> s],
             txt_puts(txt_goto(txt_init(Surface), cx, cy), s))

Next == \/ Return \/ CallMove \/ CallSet \/ CallString \/ CallStrtok
        \/ AgainStrtok \/ CallLine \/ CallPrintf \/ CallChecksum \/ CallDraw
        \/ CallClear \/ CallColor \/ CallText

Spec == Init /\ [][Next]_vars

-----------------------------------------------------------------------------
(* Properties.                                                             *)

Moved(mem, d, s, n) ==
  [a \in DOMAIN mem |-> IF a \in d..d+n-1 THEN mem[s + (a - d)] ELSE mem[a]]

\* s, and zeros, written from at on.
Written(mem, at, s, zeros) ==
  [a \in DOMAIN mem |-> CASE a \in at..at+Len(s)-1 -> s[a - at + 1]
                          [] a \in at+Len(s)..at+Len(s)+zeros-1 -> 0
                          [] OTHER -> mem[a]]

\* Comparison of two byte sequences: the order of the first difference, which
\* the library gets right when it fits into a signed char.
Ordered(p, q, sign) ==
  LET differ == {i \in 1..Min({Len(p), Len(q)}) : p[i] # q[i]}
      i      == Min(differ)
  IN IF differ = {} THEN sign = 0
     ELSE /\ sign # 0
          /\ p[i] - q[i] \in -128..127 => (sign < 0 <=> p[i] < q[i])

FirstN(s, n) == SubSeq(s, 1, Min({Len(s), n}))

Found(s, q) == {i \in 0..Len(s) - Len(q) : SubSeq(s, i + 1, i + Len(q)) = q}

(* The word-at-a-time moves of libc/src/string, whatever the alignment and *)
(* the overlap, move exactly the bytes asked for, and the string routines  *)
(* write, compare and find what their loops say, terminators included;     *)
(* strncpy, whose loops overlap by one, writes one byte more than count.   *)
StringsExact ==
  LET m     == Memory(call.p, call.q)
      taken == FirstN(call.q, call.n)
      Z(s)  == Append(s, 0)
  IN CASE call.fn \in {"memcpy", "memmove"} ->
            result = Moved(Blank, call.d, call.s, call.n)
       [] call.fn = "memset" ->
            result = Written(Blank, call.s,
                             [i \in 1..call.n |-> call.c % Byte], 0)
       [] call.fn = "strcpy" -> result = Written(m, 0, call.q, 1)
       [] call.fn = "strcat" -> result = Written(m, 0, call.p \o call.q, 1)
       [] call.fn = "strncpy" ->
            result = Written(m, 0, taken,
                             IF Len(call.q) < call.n
                             THEN call.n + 1 - Len(call.q) ELSE 0)
       [] call.fn = "strncat" -> result = Written(m, 0, call.p \o taken, 1)
       [] call.fn = "strcmp" -> Ordered(Z(call.p), Z(call.q), result)
       [] call.fn = "strncmp" ->
            Ordered(FirstN(Z(call.p), call.n), FirstN(Z(call.q), call.n),
                    result)
       [] call.fn = "memcmp" ->
            Ordered([i \in 1..call.n |-> m[i - 1]],
                    [i \in 1..call.n |-> m[Room + i - 1]], result)
       [] call.fn = "strstr" ->
            result = IF Found(call.p, call.q) = {} THEN NULL
                     ELSE Min(Found(call.p, call.q))
       [] call.fn = "strchr" ->
            result = IF Found(Z(call.p), <<call.n>>) = {} THEN NULL
                     ELSE Min(Found(Z(call.p), <<call.n>>))
       [] call.fn = "strrchr" ->
            result = IF call.n = 0 THEN 0
                     ELSE IF Found(call.p, <<call.n>>) = {} THEN NULL
                     ELSE Max(Found(call.p, <<call.n>>))
       [] OTHER -> TRUE

\* The words of p between characters of q.
Split(p, q) ==
  LET word == {i \in DOMAIN p : p[i] \notin Range(q)}
      last(i) == Min({j \in i..Len(p) : j + 1 \notin word})
  IN [n \in 1..Cardinality({i \in word : i - 1 \notin word}) |->
        LET i == SetToSortSeq({k \in word : k - 1 \notin word}, <)[n]
        IN SubSeq(p, i, last(i))]

StringAt(mem, p) == [i \in 1..strlen(mem, p) |-> mem[p + i - 1]]

(* The monitor's tokeniser takes every line apart into its words, though   *)
(* it cuts the line up in place.  The command is looked up by the first    *)
(* one; it is called exactly when it takes as many arguments as there are, *)
(* more are refused and missing ones are zero; each argument is the value  *)
(* of its word modulo the width of a register.  One token need not be a    *)
(* word: the one that fills the table runs on to the end of the line       *)
(* (console.c:181 leaves the loop before its terminator is written), but   *)
(* no command is ever called with it.  The tokens of strtok are the words  *)
(* between delimiters, and stay valid to the end.                          *)
TokensAreWords ==
  /\ call.fn = "console_line" => LineExact(call.line, result)
  /\ call.fn = "strtok" =>
       LET words == Split(call.p, call.q)
           got   == [n \in DOMAIN result.tokens |->
                       StringAt(result.mem, result.tokens[n])]
       IN IF result.token = NULL THEN got = words
          ELSE Len(got) <= Len(words) /\
               \A n \in 1..Len(got) : got[n] = words[n]

(* vsnprintf terminates its buffer, keeps the longest prefix, writes       *)
(* nothing outside and returns the length of the whole text; the text is   *)
(* the format's with the directive replaced: a string or a null pointer's  *)
(* name padded to the width, a character, a percent sign, an unknown       *)
(* directive as it stands, or a number that reads back as the argument at  *)
(* the size the directive names, sign included, at every extreme value.    *)
(* Three exceptions, each exactly as the code has it: a left-justified     *)
(* number is put out without its sign (printf.c:583); the digits behind a  *)
(* '.' count as digits of the width, though the comment at printf.c:445    *)
(* says they are eaten; and a buffer of length 0 is "terminated" one byte  *)
(* before its start (printf.c:85), the only byte outside ever written.     *)
FormatExact ==
  call.fn = "vsnprintf" =>
    LET text  == _printf_engine(Format(<<"A">>, call.mods, call.c,
                                       <<"B", "C">>), <<call.arg>>).out
        field == SubSeq(text, 2, Len(text) - 2)
    IN /\ BufferExact(<<"A">>, Buffer, call.len, text, result)
       /\ text = <<"A">> \o field \o <<"B", "C">>
       /\ FieldExact(field, call.mods, call.c, call.arg)

\* Cell of character n of a text without newlines put at (cx, cy).
CellCorner(ts, cx, cy, n) ==
  LET cell == (cy * ts.cw + cx + n - 1) % (ts.cw * ts.ch)
  IN <<(cell % ts.cw) * CH_WIDTH, (cell \div ts.cw) * CH_HEIGHT>>

(* Drawing never writes outside the surface, wherever the coordinates lie  *)
(* and however they wrap, and shows exactly the clipped rectangle and the  *)
(* characters that fit; text in cells wraps from the last column to the    *)
(* next row and from the last row to the first.                            *)
DrawnExact ==
  LET txt == txt_init(Surface)
      In(after) == Inside(Surface, after)
      Rect(x0, y0, x1, y1) ==
        RectShown(Surface, result, x0, y0, x1, y1, Surface.fgcolor)
  IN CASE call.fn = "plot" ->
            In(result) /\ Rect(call.x, call.y, call.x + 1, call.y + 1)
       [] call.fn = "fill" ->
            In(result) /\ Rect(call.x, call.y, call.x1, call.y1)
       [] call.fn = "clear" ->
            In(result) /\ Rect(0, 0, Surface.width, Surface.height)
       [] call.fn = "puts" ->
            /\ In(result)
            /\ TextShown(Surface, result, call.s, [n \in DOMAIN call.s |->
                 <<(call.x + (n - 1) * CH_WIDTH) % Word, call.y>>])
       [] call.fn = "txt" ->
            /\ In(result.gs)
            /\ call.cx < txt.cw /\ call.cy < txt.ch =>
                 /\ result.cx < txt.cw /\ result.cy < txt.ch
                 /\ Range(call.s) \cap Newlines = {} =>
                      TextShown(Surface, result.gs, call.s,
                        [n \in DOMAIN call.s |->
                           CellCorner(txt, call.cx, call.cy, n)])
       [] call.fn = "color" ->
            result = (call.r \div 8) * 2048 + (call.g \div 4) * 32 +
                     call.b \div 8
       [] OTHER -> TRUE

(* A reply of the IPv6 stack passes the receiver's check, for every        *)
(* payload length and every pattern of carries, though the sum is taken on *)
(* little-endian halfwords; the checksum is never zero ("no checksum").    *)
ChecksumVerifies ==
  call.fn = "checksum_ip6" =>
    /\ result \in 1..Half-1
    /\ Verifies(call.length, call.nh, call.src, call.dst,
                Sealed(call.payload, 2, result))
===============================================================================
