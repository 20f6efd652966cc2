----------------------------- MODULE ConsoleLine -----------------------------
(***************************************************************************)
(* How the boot monitor takes a command line apart (boot/console.c): the   *)
(* tokeniser of console_line, which writes its terminators into the line   *)
(* itself, the lookup of the command, and the hexadecimal arguments of     *)
(* console_cmd.  A line is a sequence of character codes; in memory a zero *)
(* follows it.                                                             *)
(***************************************************************************)
EXTENDS Integers, Sequences, SequencesExt, FiniteSetsExt

CONSTANTS MAXTOK,   \* tokens on a line (16)
          Bits      \* bits of a uint32_t (32)

ASSUME ConsoleAssumption == MAXTOK \in Nat \ {0} /\ Bits \in Nat \ {0}

Space == 32

\* Names as character codes, and one entry per argument.
CMDS == << [name |-> <<104, 101, 108, 112>>, args |-> <<>>],          \* help
           [name |-> <<114, 101, 103, 115>>, args |-> <<>>],          \* regs
           [name |-> <<100, 119>>,           args |-> <<"x", "x">>],  \* dw
           [name |-> <<100, 98>>,            args |-> <<"x", "x">>],  \* db
           [name |-> <<115, 116, 111, 112>>, args |-> <<>>],          \* stop
           [name |-> <<99, 111, 110, 116>>,  args |-> <<>>] >>        \* cont

hexval(c) == CASE c \in 97..102 -> c - 97 + 10
               [] c \in 65..70  -> c - 65 + 10
               [] c \in 48..57  -> c - 48
               [] OTHER         -> -1

\* The part of a string before the first character that is no digit.
Digits(s, radix) ==
  SelectInSeq(s, LAMBDA c : hexval(c) \notin 0..radix - 1)

Prefix(s, radix) ==
  IF Digits(s, radix) = 0 THEN s ELSE SubSeq(s, 1, Digits(s, radix) - 1)

atox(s) ==
  FoldLeft(LAMBDA n, c : ((n * 16) % 2^Bits) + hexval(c), 0, Prefix(s, 16))

atoi(s) ==
  FoldLeft(LAMBDA n, c : (n * 10 + hexval(c)) % 2^Bits, 0, Prefix(s, 10))

\* The string a pointer into the line denotes.
Text(mem, p) == SubSeq(mem, p, Min({i \in p..Len(mem) : mem[i] = 0}) - 1)

\* Mutant of Terminated: the blanks between two words are left in place.
TerminatedNot(mem, from, to) == mem

\* The loop that skips blanks writes a terminator over each.
Terminated(mem, from, to) ==
  [i \in DOMAIN mem |-> IF i \in from..to - 1 THEN 0 ELSE mem[i]]

\* The loop of console_line from position line on: memory and the tokens.
RECURSIVE Tokens(_, _, _)
Tokens(mem, line, token) ==
  LET begin == Min({i \in line..Len(mem) : mem[i] # Space})
      cut   == Terminated(mem, line, begin)
      end   == Min({i \in begin..Len(mem) : mem[i] \in {0, Space}})
  IN IF Len(token) = MAXTOK THEN [mem |-> mem, token |-> token]
     ELSE IF mem[begin] = 0 THEN [mem |-> cut, token |-> token]
     ELSE IF mem[end] = 0 THEN [mem |-> cut, token |-> Append(token, begin)]
     ELSE Tokens(cut, end, Append(token, begin))

console_cmd(cmd, args) ==
  LET argc    == Len(args)
      argx(n) == IF n > argc THEN 0
                 ELSE IF cmd.args[n] = "x" THEN atox(args[n])
                 ELSE atoi(args[n])
  IN IF argc > Len(cmd.args) \/ argc > 4 THEN [does |-> "too many arguments"]
     ELSE [does |-> "call", name |-> cmd.name, argc |-> argc,
           argx |-> [n \in 1..Len(cmd.args) |-> argx(n)]]

console_line(line) ==
  LET parsed == Tokens(Append(line, 0), 1, <<>>)
      token  == [n \in DOMAIN parsed.token |->
                   Text(parsed.mem, parsed.token[n])]
      n      == IF token = <<>> THEN 0
                ELSE SelectInSeq(CMDS, LAMBDA cmd : cmd.name = token[1])
  IN [token |-> token] @@
     (IF token = <<>> THEN [does |-> "nothing"]
      ELSE IF n = 0 THEN [does |-> "unknown command"]
      ELSE console_cmd(CMDS[n], Tail(token)))

-----------------------------------------------------------------------------
(* Reference.                                                              *)

\* Where the words of a line start and end.
Starts(line) == {i \in DOMAIN line : line[i] # Space /\
                                     (i = 1 \/ line[i - 1] = Space)}
WordAt(line, i) ==
  SubSeq(line, i, Min({j \in i..Len(line) : line[j] = Space}
                      \cup {Len(line) + 1}) - 1)

\* The words of a line.
Words(line) ==
  LET start == SetToSortSeq(Starts(line), <)
  IN [n \in DOMAIN start |-> WordAt(line, start[n])]

\* The one token that need not be a word: console_line leaves its loop when
\* the table is full, without terminating the token that filled it.
RunsOn(line, n) ==
  n = MAXTOK /\ Cardinality(Starts(line)) >= MAXTOK

\* What is left of the line from its n-th word on.
RestFrom(line, n) ==
  SubSeq(line, SetToSortSeq(Starts(line), <)[n], Len(line))

\* The value of a hexadecimal word, of which only the last digits count.
HexValue(s) ==
  LET digits == Prefix(s, 16)
      value[n \in 0..Len(digits)] ==
        IF n = 0 THEN 0
        ELSE hexval(digits[Len(digits) + 1 - n]) * 16^(n - 1) + value[n - 1]
  IN value[Len(digits)] % 2^Bits

\* What console_line(line) must come to.
LineExact(line, result) ==
  LET words == Words(line)
      count == Min({Len(words), MAXTOK})
      named == {n \in DOMAIN CMDS : words # <<>> /\ CMDS[n].name = words[1]}
      takes == {n \in named : count - 1 <= Len(CMDS[n].args)}
  IN /\ Len(result.token) = count
     /\ \A n \in 1..count :
          result.token[n] = IF RunsOn(line, n) THEN RestFrom(line, n)
                            ELSE words[n]
     /\ result.does = CASE words = <<>>  -> "nothing"
                        [] named = {}    -> "unknown command"
                        [] takes = {}    -> "too many arguments"
                        [] OTHER         -> "call"
     /\ result.does = "call" =>
          /\ result.token = words
          /\ result.name = words[1] /\ result.argc = Len(words) - 1
          /\ Len(result.argx) <= 4
          /\ \A n \in DOMAIN result.argx :
               result.argx[n] = IF n > result.argc THEN 0
                                ELSE HexValue(words[n + 1])
===============================================================================
