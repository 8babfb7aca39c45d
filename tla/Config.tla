-------------------------------- MODULE Config --------------------------------
(***************************************************************************)
(* Config::parse() of include/server/config.hpp: defaults, then the        *)
(* environment, then the command line.  Arguments are opaque texts; Number *)
(* says what the texts that begin with a number denote.                    *)
(***************************************************************************)
EXTENDS Integers, Sequences, SequencesExt

CONSTANTS
  PortBits, IntBits, SizeBits,  \* the widths of uint16_t, int and size_t
  HardwareConcurrency,          \* what std::thread::hardware_concurrency() returns
  Number                        \* the value of each numeric argument

(* The defaults fit into their types. *)
ASSUME ConfigAssumption ==
  /\ PortBits \in Nat /\ IntBits \in Nat /\ SizeBits \in Nat
  /\ 0 < PortBits /\ PortBits < IntBits /\ IntBits <= SizeBits
  /\ 2^PortBits \in Nat /\ 2^IntBits \in Nat /\ 2^SizeBits \in Nat
  /\ 8080 < 2^PortBits /\ 2 < 2^IntBits /\ 50 < 2^SizeBits
  /\ HardwareConcurrency \in 0..(2^IntBits - 1)
  /\ \A s \in DOMAIN Number : Number[s] \in Int

Defaults ==
  [port |-> 8080, thread_count |-> HardwareConcurrency, queue_capacity |-> 50,
   document_root |-> "public"]

(* std::stoi and std::stoul succeed on these; stoul takes a minus sign, and  *)
(* the casts keep the low bits.                                              *)
stoi_ok(s) == s \in DOMAIN Number /\ Number[s] \in -(2^(IntBits - 1))..(2^(IntBits - 1) - 1)
stoul_ok(s) == s \in DOMAIN Number /\ Number[s] \in -(2^SizeBits - 1)..(2^SizeBits - 1)
Cast(s, bits) == Number[s] % 2^bits

(* The options that take the next argument: the setting each assigns, the  *)
(* conversions that succeed, the value.                                    *)
ValueOptions == {"--port", "--threads", "--capacity", "--root"}
Setting(o) ==
  CASE o = "--port" -> "port" [] o = "--threads" -> "thread_count"
    [] o = "--capacity" -> "queue_capacity" [] o = "--root" -> "document_root"
Converts(o, s) ==
  CASE o \in {"--port", "--threads"} -> stoi_ok(s)
    [] o = "--capacity" -> stoul_ok(s)
    [] o = "--root" -> TRUE
Value(o, s) ==
  CASE o = "--port" -> Cast(s, PortBits) [] o = "--threads" -> Cast(s, IntBits)
    [] o = "--capacity" -> Cast(s, SizeBits) [] o = "--root" -> s
Assign(cfg, o, s) == [cfg EXCEPT ![Setting(o)] = Value(o, s)]

(* PORT and QUEUE_CAPACITY: a set of at most one text each.  One that does *)
(* not convert is ignored.  No other variable is looked up.                *)
Environment(env) ==
  LET port == {s \in env.PORT : Converts("--port", s)}
      cap == {s \in env.QUEUE_CAPACITY : Converts("--capacity", s)}
  IN  [Defaults EXCEPT
         !.port = IF port = {} THEN @ ELSE Value("--port", CHOOSE s \in port : TRUE),
         !.queue_capacity = IF cap = {} THEN @ ELSE Value("--capacity", CHOOSE s \in cap : TRUE)]

(* Mutant of Take: the value is looked at as an option again. *)
TakeOnlyOption(st, o, s) ==
  IF Converts(o, s) THEN [st EXCEPT !.cfg = Assign(@, o, s)]
                    ELSE [st EXCEPT !.end = "terminate"]

(* An option takes the argument after it, which the loop then skips. *)
Take(st, o, s) ==
  IF Converts(o, s) THEN [st EXCEPT !.cfg = Assign(@, o, s), !.skip = TRUE]
                    ELSE [st EXCEPT !.end = "terminate"]

(* The loop over argv.  It ends in "serve", in the "exit" of --help or in  *)
(* an exception that ends the process ("terminate").  An option that comes *)
(* last has no value and is ignored, like any other argument.              *)
Loop(cfg0, argv) ==
  LET step(st, i) ==
        CASE st.end # "serve" -> st
          [] st.end = "serve" /\ st.skip -> [st EXCEPT !.skip = FALSE]
          [] st.end = "serve" /\ ~st.skip ->
               CASE argv[i] \in ValueOptions /\ i < Len(argv) -> Take(st, argv[i], argv[i + 1])
                 [] argv[i] \in {"--help", "-h"} -> [st EXCEPT !.end = "exit"]
                 [] OTHER -> st
  IN  FoldLeftDomain(step, [cfg |-> cfg0, skip |-> FALSE, end |-> "serve"], argv)

(* Mutant of parse: the number of threads is checked before the command line. *)
parseChecksFirst(env, argv) ==
  LET e == Environment(env)
      r == Loop([e EXCEPT !.thread_count = IF @ = 0 THEN 2 ELSE @], argv)
  IN  [cfg |-> r.cfg, end |-> r.end]

parse(env, argv) ==
  LET r == Loop(Environment(env), argv)
  IN  [cfg |-> [r.cfg EXCEPT !.thread_count = IF @ = 0 THEN 2 ELSE @], end |-> r.end]

-----------------------------------------------------------------------------
(***************************************************************************)
(* What the command line means, without a loop.  Options are the positions *)
(* not taken as the value of the option before them; of several uses of an *)
(* option the last counts; the first --help or bad value ends it all.      *)
(* Without a use, the variable that README, Command-Line Options, names    *)
(* for the option counts, if its text converts, and then the default.      *)
(***************************************************************************)
Options(argv) ==
  CHOOSE S \in SUBSET DOMAIN argv :
    \A i \in DOMAIN argv : i \in S <=> ~(i - 1 \in S /\ argv[i - 1] \in ValueOptions)

Uses(argv, o) == {i \in Options(argv) : argv[i] = o /\ i < Len(argv)}

Stops(argv) ==
  {i \in Options(argv) :
     \/ argv[i] \in {"--help", "-h"}
     \/ argv[i] \in ValueOptions /\ i < Len(argv) /\ ~Converts(argv[i], argv[i + 1])}

MeansEnd(argv) ==
  IF Stops(argv) = {} THEN "serve"
  ELSE IF argv[CHOOSE i \in Stops(argv) : \A j \in Stops(argv) : i <= j] \in {"--help", "-h"}
       THEN "exit" ELSE "terminate"

Given(env, o) ==
  {s \in CASE o = "--port" -> env.PORT [] o = "--threads" -> env.THREADS
           [] o = "--capacity" -> env.QUEUE_CAPACITY [] o = "--root" -> {} : Converts(o, s)}

(* A set of one value. *)
Means(env, argv, o) ==
  LET uses == Uses(argv, o)
      text == argv[(CHOOSE i \in uses : \A j \in uses : i >= j) + 1]
  IN  IF uses # {} THEN {Value(o, text)}
      ELSE IF Given(env, o) # {} THEN {Value(o, s) : s \in Given(env, o)}
      ELSE {Defaults[Setting(o)]}

(* The setting of o is what o means; no threads mean two. *)
AsMeant(cfg, env, argv, o) ==
  cfg[Setting(o)] \in {IF o = "--threads" /\ m = 0 THEN 2 ELSE m : m \in Means(env, argv, o)}

(* The parser does not look at THREADS, which the table names. *)
Unread(env, argv, o) == o = "--threads" /\ Uses(argv, o) = {} /\ Given(env, o) # {}

=============================================================================
