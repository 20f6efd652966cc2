------------------------------- MODULE CString -------------------------------
(***************************************************************************)
(* The memory and string routines of libc/src/string as functions on       *)
(* memory: mem maps addresses to bytes, a pointer is an address, and a     *)
(* routine yields memory as it leaves it.  The loops keep their order and  *)
(* their phases, because the copies may overlap.  Addresses lie below 2^31 *)
(* (memmove compares them as signed longs).                                *)
(***************************************************************************)
EXTENDS Integers, Sequences, SequencesExt, FiniteSetsExt

CONSTANT lsize   \* bytes in a word (4)

ASSUME LsizeAssumption == lsize \in Nat \ {0}

NULL == -1       \* no pointer
Byte == 256

\* Iterations of a loop in the order they happen.
Up(n) == [i \in 1..n |-> i - 1]
Down(n) == [i \in 1..n |-> n - i]

\* for (...; len > 0; len--) *d++ = *s++, size bytes at a time.
Move(mem, d, s, size, iterations) ==
  FoldLeft(LAMBDA m, i : [a \in DOMAIN m |->
                            IF a \in d + i * size..d + i * size + size - 1
                            THEN m[s + (a - d)] ELSE m[a]],
           mem, iterations)

\* Bytes to move one by one before words can be moved.
Unaligned(d, s, count, few, toBoundary) ==
  IF d % lsize = 0 /\ s % lsize = 0 THEN 0
  ELSE IF d % lsize # s % lsize \/ few THEN count
  ELSE toBoundary

MoveUp(mem, d, s, count) ==
  LET len   == Unaligned(d, s, count, count < lsize, lsize - (d % lsize))
      words == (count - len) \div lsize
      done  == len + words * lsize
      first == Move(mem, d, s, 1, Up(len))
      bulk  == Move(first, d + len, s + len, lsize, Up(words))
  IN Move(bulk, d + done, s + done, 1, Up(count - done))

MoveDown(mem, d, s, count) ==
  LET len   == Unaligned(d + count, s + count, count, count <= lsize,
                         (d + count) % lsize)
      words == (count - len) \div lsize
      rest  == count - len - words * lsize
      first == Move(mem, d + count - len, s + count - len, 1, Down(len))
      bulk  == Move(first, d + rest, s + rest, lsize, Down(words))
  IN Move(bulk, d, s, 1, Down(rest))

memcpy(mem, d, s, count) ==
  IF count = 0 \/ d = s THEN mem ELSE MoveUp(mem, d, s, count)

\* Mutant of memmove: overlap is not looked at.
memmove_upwards(mem, d, s, count) == memcpy(mem, d, s, count)

memmove(mem, d, s, count) ==
  IF count = 0 \/ d = s THEN mem
  ELSE IF d < s THEN MoveUp(mem, d, s, count)
  ELSE MoveDown(mem, d, s, count)

Fill(mem, from, n, c) ==
  [a \in DOMAIN mem |-> IF a \in from..from+n-1 THEN c % Byte ELSE mem[a]]

memset(mem, s, c, count) ==
  LET len   == (-s) % lsize
      words == (count - len) \div lsize
  IN IF count > len
     THEN LET first == Fill(mem, s, len, c)
              bulk  == Fill(first, s + len, words * lsize, c)
          IN Fill(bulk, s + len + words * lsize, (count - len) % lsize, c)
     ELSE Fill(mem, s, count, c)

strlen(mem, s) == Min({i \in 0..Max(DOMAIN mem) - s : mem[s + i] = 0})

strcpy(mem, d, s) == Move(mem, d, s, 1, Up(strlen(mem, s) + 1))

strcat(mem, d, s) == strcpy(mem, d + strlen(mem, d), s)

\* The first loop leaves i at the terminator it has already copied, so the
\* second one pads from there: one byte more than count.
strncpy(mem, d, s, count) ==
  LET i == Min({strlen(mem, s), count})
  IN IF i = count
     THEN Move(mem, d, s, 1, Up(count))
     ELSE Fill(Move(mem, d, s, 1, Up(i + 1)), d + i + 1, count - i, 0)

strncat(mem, d, s, count) ==
  LET end == d + strlen(mem, d)
      n   == Min({strlen(mem, s), count})
  IN IF count = 0 THEN mem
     ELSE Fill(Move(mem, end, s, 1, Up(n)), end + n, 1, 0)

\* The difference of two bytes, kept in a signed char.
Difference(a, b) == ((a - b + Byte \div 2) % Byte) - Byte \div 2

\* Offset at which a comparison of at most count bytes stops: a difference, or
\* a byte in ends.
Stops(mem, p, q, count, ends) ==
  Min({i \in 0..count - 1 : mem[p + i] # mem[q + i] \/ mem[p + i] \in ends}
      \cup {count})

Compare(mem, p, q, count, ends) ==
  LET i == Stops(mem, p, q, count, ends)
  IN IF i = count THEN 0 ELSE Difference(mem[p + i], mem[q + i])

strncmp(mem, p, q, count) == Compare(mem, p, q, count, {0})

strcmp(mem, p, q) == strncmp(mem, p, q, strlen(mem, p) + 1)

memcmp(mem, p, q, count) == Compare(mem, p, q, count, {})

strstr(mem, p, q) ==
  LET l1   == strlen(mem, p)
      l2   == strlen(mem, q)
      hits == {i \in 0..l1 - l2 : memcmp(mem, p + i, q, l2) = 0}
  IN IF l2 = 0 THEN p
     ELSE IF hits = {} THEN NULL
     ELSE p + Min(hits)

\* strchr finds the terminator as well; strrchr does not look at it, and
\* answers the start of the string when it is asked for it.
strchr(mem, s, c) ==
  LET hits == {i \in 0..strlen(mem, s) : mem[s + i] = c % Byte}
  IN IF hits = {} THEN NULL ELSE s + Min(hits)

strrchr(mem, s, c) ==
  LET hits == {i \in 0..strlen(mem, s) - 1 : mem[s + i] = c}
  IN IF hits # {} THEN s + Max(hits)
     ELSE IF c = 0 THEN s
     ELSE NULL

\* A set of characters given as a string.
Accepted(mem, ct) == {mem[a] : a \in ct..ct + strlen(mem, ct) - 1}

strspn(mem, s, ct) ==
  Min({i \in 0..strlen(mem, s) : mem[s + i] \notin Accepted(mem, ct)})

strpbrk(mem, s, ct) ==
  LET hits == {i \in 0..strlen(mem, s) - 1 : mem[s + i] \in Accepted(mem, ct)}
  IN IF hits = {} THEN NULL ELSE s + Min(hits)

\* One call of strtok with the position kept from the call before: memory,
\* the position it keeps, and the token.
strtok(mem, saved, s, ct) ==
  LET from  == IF s # NULL THEN s ELSE saved
      begin == from + strspn(mem, from, ct)
      end   == strpbrk(mem, begin, ct)
  IN IF from = NULL \/ mem[begin] = 0
     THEN [mem |-> mem, saved |-> NULL, token |-> NULL]
     ELSE IF end = NULL
     THEN [mem |-> mem, saved |-> NULL, token |-> begin]
     ELSE [mem |-> Fill(mem, end, 1, 0), saved |-> end + 1, token |-> begin]
===============================================================================
