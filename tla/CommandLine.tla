---------------------------- MODULE CommandLine ----------------------------
(***************************************************************************)
(* The mmap-chunker command: argument loops, the checks after them, the    *)
(* dispatch to an engine and the rows it prints.                           *)
(*                                                                         *)
(* Arguments arrive one at a time: `given` is what the loop has consumed,  *)
(* each element an option with the argument after it (EndOfArgs when there *)
(* is none) or a lone argument.  An argument is a token; Number, Decimal   *)
(* and HexDigits say what the standard parsers make of it.  The plan is    *)
(* abstracted to the number of ranges it has (0 for an empty file, at most *)
(* --parts; PartitionPlanner, SourcePlanner and LogicalPlanner model how   *)
(* they are found), and a row to the index it begins with.                 *)
(***************************************************************************)
EXTENDS Integers, Sequences, FiniteSets

CONSTANTS Tokens,     \* arguments that do not begin with '-'
          Number,     \* [token |-> value] for what parse::<usize> accepts
          Decimal,    \* tokens made of ASCII digits only
          HexDigits,  \* [token |-> digits] for tokens of hex digits
          MIN_WINDOW_BYTES,
          FileNames,  \* tokens that stand for a FILE
          MaxFiles,   \* bound on the FILEs of one partition-files command
          MaxRanges,  \* bound on the ranges of a plan
          None, Invalid, EndOfArgs

ASSUME CommandLineAssumption ==
    /\ DOMAIN Number \subseteq Tokens /\ Decimal \subseteq Tokens
    /\ DOMAIN HexDigits \subseteq Tokens
    /\ FileNames \subseteq Tokens
    /\ MIN_WINDOW_BYTES \in Nat \ {0} /\ MaxFiles \in Nat \ {0} /\ MaxRanges \in Nat
    /\ EndOfArgs \notin Tokens /\ Invalid \notin Tokens
    /\ \A value \in DOMAIN Number : Number[value] \in Nat
    /\ None \notin Nat /\ Invalid \notin Nat
    /\ None \notin {"ok", "usage", "plan", "write"}

VARIABLES
    pc,       \* "run", "args", "checks", "emit" or "exit"
    command,  \* None until the first argument is read
    given,    \* the arguments consumed so far
    opts,     \* the locals of the argument loop
    engine,   \* the planner the command was handed to
    count,    \* the ranges that planner returned
    rows,     \* row indices still to be written
    output,   \* rows that reached stdout
    status    \* None, "ok", "usage", "plan" or "write": why main returned

vars == <<pc, command, given, opts, engine, count, rows, output, status>>
planned == <<engine, count, rows, output>>

Values == Tokens \cup {EndOfArgs}
------------------------------------------------------------------------------
(* Value parsers; EndOfArgs ("missing value") fails them all. *)
parse_parts(value) ==
    IF value \in DOMAIN Number /\ Number[value] # 0 THEN Number[value] ELSE Invalid

parse_worker(value) ==
    IF value \in DOMAIN Number THEN Number[value] ELSE Invalid

parse_source(value) ==
    IF value \in {"mmap", "windowed", "pread"} THEN value ELSE Invalid

parse_window(value) ==
    IF value \in DOMAIN Number /\ Number[value] >= MIN_WINDOW_BYTES
    THEN Number[value] ELSE Invalid

(* Digits only: "+10" is a usize but not a delimiter byte. *)
parse_delimiter_byte(value) ==
    IF value \in Decimal \cap DOMAIN Number /\ Number[value] <= 255
    THEN <<Number[value]>> ELSE Invalid

decode_hex_pair(hi, lo) == 16 * hi + lo

parse_delimiter_hex(value) ==
    IF value \notin DOMAIN HexDigits THEN Invalid
    ELSE LET digits == HexDigits[value]
         IN  IF digits = <<>> \/ Len(digits) % 2 # 0 THEN Invalid
             ELSE [i \in 1..(Len(digits) \div 2) |->
                      decode_hex_pair(digits[2 * i - 1], digits[2 * i])]
------------------------------------------------------------------------------
Defaults ==
    [files |-> <<>>, parts |-> None, delimiter |-> <<10>>, delimiter_seen |-> FALSE,
     worker |-> None, source |-> "mmap", source_seen |-> FALSE, window |-> None]

Init ==
    /\ pc = "run"
    /\ command = None
    /\ given = <<>>
    /\ opts = Defaults
    /\ engine = None
    /\ count = 0
    /\ rows = <<>>
    /\ output = <<>>
    /\ status = None

(* Every Err reaches main, which prints it to stderr and fails. *)
main_fails(why) ==
    /\ pc' = "exit"
    /\ status' = why
    /\ UNCHANGED <<command, opts, planned>>

ExitCode == IF status = "ok" THEN "SUCCESS" ELSE "FAILURE"

(* The first argument: a command, or --help / --version standing alone.    *)
run ==
    /\ pc = "run"
    /\ \/ \E c \in {"partition", "partition-files"} :
            /\ command' = c
            /\ pc' = "args"
            /\ UNCHANGED <<given, opts, planned, status>>
       \/ /\ given' = <<<<"--help", EndOfArgs>>>>
          /\ pc' = "exit"
          /\ status' = "ok"
          /\ UNCHANGED <<command, opts, planned>>
       \/ \E c \in Values : given' = <<<<"unknown", c>>>> /\ main_fails("usage")
------------------------------------------------------------------------------
Consume(name, value) == given' = Append(given, <<name, value>>)

(* An option: rejected when already seen or when its value is missing or   *)
(* does not parse, otherwise stored.                                       *)
Store(seen, parsed, updated) ==
    IF seen \/ parsed = Invalid THEN main_fails("usage")
    ELSE opts' = updated /\ UNCHANGED <<pc, command, planned, status>>

PartsOption(value) ==
    /\ Consume("--parts", value)
    /\ Store(opts.parts # None, parse_parts(value),
             [opts EXCEPT !.parts = parse_parts(value)])

DelimiterByteOption(value) ==
    /\ Consume("--delimiter-byte", value)
    /\ Store(opts.delimiter_seen, parse_delimiter_byte(value),
             [opts EXCEPT !.delimiter_seen = TRUE,
                          !.delimiter = parse_delimiter_byte(value)])

(* Plausible slip: only --delimiter-byte asks whether a delimiter was seen. *)
SecondDelimiterWins(value) ==
    /\ Consume("--delimiter-hex", value)
    /\ Store(FALSE, parse_delimiter_hex(value),
             [opts EXCEPT !.delimiter_seen = TRUE,
                          !.delimiter = parse_delimiter_hex(value)])

DelimiterHexOption(value) ==
    /\ Consume("--delimiter-hex", value)
    /\ Store(opts.delimiter_seen, parse_delimiter_hex(value),
             [opts EXCEPT !.delimiter_seen = TRUE,
                          !.delimiter = parse_delimiter_hex(value)])

WorkerOption(value) ==
    /\ Consume("--worker", value)
    /\ Store(opts.worker # None, parse_worker(value),
             [opts EXCEPT !.worker = parse_worker(value)])

SourceOption(value) ==
    /\ Consume("--source", value)
    /\ Store(opts.source_seen, parse_source(value),
             [opts EXCEPT !.source_seen = TRUE, !.source = parse_source(value)])

WindowOption(value) ==
    /\ Consume("--window", value)
    /\ Store(opts.window # None, parse_window(value),
             [opts EXCEPT !.window = parse_window(value)])

(* Anything else beginning with '-'. *)
UnexpectedOption(name) == Consume("unexpected", name) /\ main_fails("usage")

SharedOption ==
    \E value \in Values :
        \/ PartsOption(value) \/ DelimiterByteOption(value) \/ DelimiterHexOption(value)
        \/ SourceOption(value) \/ WindowOption(value)

(* --help as the only argument after the command. *)
CommandHelp ==
    /\ given = <<>>
    /\ Consume("--help", EndOfArgs)
    /\ pc' = "exit"
    /\ status' = "ok"
    /\ UNCHANGED <<command, opts, planned>>

ArgumentsEnd ==
    pc' = "checks" /\ UNCHANGED <<command, given, opts, planned, status>>
------------------------------------------------------------------------------
(* Plausible slip: the worker after the last range is given a row. *)
SelectedInclusive(n) ==
    IF opts.worker = None THEN [i \in 1..n |-> i - 1]
    ELSE IF opts.worker <= n THEN <<opts.worker>> ELSE <<>>

(* The engines.  Opening, mapping or reading the file may fail; otherwise  *)
(* the plan has some number of ranges and the rows wanted are selected.    *)
Selected(n) ==
    IF opts.worker = None THEN [i \in 1..n |-> i - 1]
    ELSE IF opts.worker < n THEN <<opts.worker>> ELSE <<>>

PlanWith(kind) ==
    \/ main_fails("plan") /\ UNCHANGED given
    \/ \E n \in {c \in 0..MaxRanges : c <= opts.parts} :
         /\ engine' = kind
         /\ count' = n
         /\ rows' = Selected(n)
         /\ pc' = "emit"
         /\ UNCHANGED <<command, given, opts, output, status>>

emit_partitions == PlanWith("byte")
emit_partitions_pattern == PlanWith("pattern")
emit_partitions_sourced == PlanWith("sourced")

emit_partitions_for_delimiter ==
    IF Len(opts.delimiter) = 1 THEN emit_partitions ELSE emit_partitions_pattern

emit_file_partitions == PlanWith("files")
emit_file_partitions_sourced == PlanWith("files sourced")

(* One writeln, or the flush after the last; either may fail. *)
emit_indexed_chunks ==
    /\ pc = "emit"
    /\ \/ /\ rows # <<>>
          /\ output' = Append(output, Head(rows))
          /\ rows' = Tail(rows)
          /\ UNCHANGED <<pc, command, given, opts, engine, count, status>>
       \/ /\ rows = <<>>
          /\ pc' = "exit"
          /\ status' = "ok"
          /\ UNCHANGED <<command, given, opts, planned>>
       \/ main_fails("write") /\ UNCHANGED given
------------------------------------------------------------------------------
WindowWithoutWindowed == opts.window # None /\ opts.source # "windowed"

(* The checks after the argument loop, in the order of the code. *)
PartitionChecks ==
    IF \/ opts.files = <<>>
       \/ opts.parts = None
       \/ opts.worker # None /\ opts.worker >= opts.parts
       \/ WindowWithoutWindowed
    THEN main_fails("usage") /\ UNCHANGED given
    ELSE IF opts.source = "mmap" THEN emit_partitions_for_delimiter
    ELSE emit_partitions_sourced

PartitionFilesChecks ==
    IF opts.parts = None \/ opts.files = <<>> \/ WindowWithoutWindowed
    THEN main_fails("usage") /\ UNCHANGED given
    ELSE IF opts.source = "mmap" THEN emit_file_partitions
    ELSE emit_file_partitions_sourced

(* A second FILE is rejected. *)
OneFile(name) ==
    /\ Consume("FILE", name)
    /\ Store(opts.files # <<>>, name, [opts EXCEPT !.files = <<name>>])

AnotherFile(name) ==
    /\ Len(opts.files) < MaxFiles
    /\ Consume("FILE", name)
    /\ Store(FALSE, name, [opts EXCEPT !.files = Append(opts.files, name)])

run_partition ==
    /\ command = "partition"
    /\ \/ /\ pc = "args"
          /\ \/ SharedOption \/ CommandHelp \/ ArgumentsEnd \/ UnexpectedOption("-x")
             \/ \E value \in Values : WorkerOption(value)
             \/ \E name \in FileNames : OneFile(name)
       \/ pc = "checks" /\ PartitionChecks

run_partition_files ==
    /\ command = "partition-files"
    /\ \/ /\ pc = "args"
          /\ \/ SharedOption \/ CommandHelp \/ ArgumentsEnd
             \/ \E name \in {"-x", "--worker"} : UnexpectedOption(name)
             \/ \E name \in FileNames : AnotherFile(name)
       \/ pc = "checks" /\ PartitionFilesChecks

Exit == pc = "exit" /\ UNCHANGED vars

Next == run \/ run_partition \/ run_partition_files \/ emit_indexed_chunks \/ Exit

Spec == Init /\ [][Next]_vars
------------------------------------------------------------------------------
(* The grammar of the usage text, independent of the order of arguments.   *)
Occurrences(names) == {i \in DOMAIN given : given[i][1] \in names}

Meaning(name, value) ==
    CASE name = "--parts" -> parse_parts(value)
      [] name = "--worker" -> parse_worker(value)
      [] name = "--source" -> parse_source(value)
      [] name = "--window" -> parse_window(value)
      [] name = "--delimiter-byte" -> parse_delimiter_byte(value)
      [] name = "--delimiter-hex" -> parse_delimiter_hex(value)
      [] name = "FILE" -> value
      [] OTHER -> Invalid

Parsed(i) == Meaning(given[i][1], given[i][2])

(* Whatever follows, these arguments can begin a command line. *)
Viable ==
    /\ \A i \in DOMAIN given : Parsed(i) # Invalid
    /\ \A name \in {"--parts", "--worker", "--source", "--window"} :
          Cardinality(Occurrences({name})) <= 1
    /\ Cardinality(Occurrences({"--delimiter-byte", "--delimiter-hex"})) <= 1
    /\ command = "partition" => Cardinality(Occurrences({"FILE"})) <= 1
    /\ command = "partition-files" => Occurrences({"--worker"}) = {}

(* The value of an option, or its default. *)
Asked(names, default) ==
    IF Occurrences(names) = {} THEN default
    ELSE Parsed(CHOOSE i \in Occurrences(names) : TRUE)

Grammatical ==
    LET parts == Asked({"--parts"}, None)
        worker == Asked({"--worker"}, None)
    IN  /\ Viable
        /\ Occurrences({"FILE"}) # {}
        /\ parts # None
        /\ worker # None => worker < parts
        /\ Occurrences({"--window"}) # {} => Asked({"--source"}, "mmap") = "windowed"

(* A command line reaches a planner exactly when it is a sentence of the   *)
(* usage grammar, wherever its options stand, and the planner it reaches   *)
(* gets the values given, with --delimiter-byte and --delimiter-hex        *)
(* excluding each other; an argument list is refused before its end only   *)
(* when no continuation of it is a sentence.                               *)
GrammarDecides ==
    /\ status \in {"plan", "write"} \/ pc = "emit" =>
          /\ Grammatical
          /\ opts.parts = Asked({"--parts"}, None)
          /\ opts.worker = Asked({"--worker"}, None)
          /\ opts.source = Asked({"--source"}, "mmap")
          /\ opts.window = Asked({"--window"}, None)
          /\ opts.delimiter = Asked({"--delimiter-byte", "--delimiter-hex"}, <<10>>)
          /\ Len(opts.files) = Cardinality(Occurrences({"FILE"}))
    /\ status = "usage" => ~Grammatical
    /\ pc \in {"args", "checks"} => Viable

(* Rows appear on stdout only once the whole plan exists, in order and     *)
(* without a gap; only a failed write can leave some of them there with a  *)
(* failing exit code; and success prints every range, or with --worker K   *)
(* the range of worker K alone, if the plan has one.                       *)
AllOrNothing ==
    LET wanted == IF opts.worker = None THEN {i \in 0..count : i < count}
                  ELSE {i \in {opts.worker} : i < count}
    IN  /\ {output[j] : j \in DOMAIN output} \subseteq wanted
        /\ \A i, j \in DOMAIN output : i < j => output[i] < output[j]
        /\ \A j \in DOMAIN output, i \in wanted : i < output[j] => \E k \in 1..j : output[k] = i
        /\ pc = "exit" /\ ExitCode = "SUCCESS" => Len(output) = Cardinality(wanted)
        /\ status \in {"usage", "plan"} => output = <<>>
==============================================================================
