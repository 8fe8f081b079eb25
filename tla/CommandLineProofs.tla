------------------------ MODULE CommandLineProofs ------------------------
(***************************************************************************)
(* The command line for any tokens, any standard parsers, any number of    *)
(* FILEs and of ranges, and argument lists of every length.                *)
(***************************************************************************)
EXTENDS CommandLine, FiniteSetTheorems, TLAPS

(* An argument of `given`, and the locals of the argument loop. *)
Names == {"--parts", "--worker", "--source", "--window", "--delimiter-byte",
          "--delimiter-hex", "FILE", "--help", "unexpected", "unknown"}

Arg == Names \X (Values \cup {"-x", "--worker"})

Options ==
    [files : Seq(FileNames), parts : Nat \cup {None},
     delimiter : {<<10>>} \cup {parse_delimiter_byte(v) : v \in Values}
                          \cup {parse_delimiter_hex(v) : v \in Values},
     delimiter_seen : BOOLEAN, worker : Nat \cup {None},
     source : {"mmap", "windowed", "pread"}, source_seen : BOOLEAN,
     window : Nat \cup {None}]

(* Where option names stand in the argument list g, and that x is what     *)
(* their only occurrence means, or the default when there is none.         *)
Occ(g, names) == {i \in DOMAIN g : g[i][1] \in names}

Tracks(g, names, x, default) ==
    IF Occ(g, names) = {} THEN x = default
    ELSE \E i \in Occ(g, names) : Occ(g, names) = {i} /\ x = Meaning(g[i][1], g[i][2])

DelimiterNames == {"--delimiter-byte", "--delimiter-hex"}

(* The locals o are what the arguments g of command c say. *)
Reading(g, o, c) ==
    /\ g \in Seq(Arg) /\ o \in Options
    /\ \A i \in DOMAIN g : Meaning(g[i][1], g[i][2]) # Invalid
    /\ Tracks(g, {"--parts"}, o.parts, None)
    /\ Tracks(g, {"--worker"}, o.worker, None)
    /\ Tracks(g, {"--source"}, o.source, "mmap")
    /\ Tracks(g, {"--window"}, o.window, None)
    /\ Tracks(g, DelimiterNames, o.delimiter, <<10>>)
    /\ o.source_seen <=> Occ(g, {"--source"}) # {}
    /\ o.delimiter_seen <=> Occ(g, DelimiterNames) # {}
    /\ IsFiniteSet(Occ(g, {"FILE"})) /\ Cardinality(Occ(g, {"FILE"})) = Len(o.files)
    /\ c = "partition" => Len(o.files) <= 1
    /\ c = "partition-files" => Occ(g, {"--worker"}) = {}
    /\ c \in {"partition", "partition-files"}

(* The rows a worker option w selects from n ranges. *)
Sel(w, n) ==
    IF w = None THEN [i \in 1..n |-> i - 1] ELSE IF w < n THEN <<w>> ELSE <<>>

StageInv ==
    /\ pc \in {"run", "args", "checks", "emit", "exit"}
    /\ status \in {None, "ok", "usage", "plan", "write"}
    /\ pc # "exit" <=> status = None
    /\ pc = "run" => given = <<>> /\ opts = Defaults

(* Past the checks. *)
Accepted == status \in {"plan", "write"} \/ pc = "emit"

ReadInv == pc \in {"args", "checks"} \/ Accepted => Reading(given, opts, command)

CheckedInv ==
    Accepted => /\ opts.files # <<>> /\ opts.parts # None
                /\ opts.worker # None => opts.worker < opts.parts
                /\ ~WindowWithoutWindowed

RefusedInv == status = "usage" => ~Grammatical

(* What is on stdout and what is still to be written are the selected rows. *)
RowsInv ==
    /\ opts \in Options /\ count \in Nat
    /\ output \in Seq(Nat) /\ rows \in Seq(Nat)
    /\ Len(output) + Len(rows) = Len(Sel(opts.worker, count))
    /\ \A j \in 1..Len(output) : output[j] = Sel(opts.worker, count)[j]
    /\ \A j \in 1..Len(rows) : rows[j] = Sel(opts.worker, count)[Len(output) + j]
    /\ pc \in {"run", "args", "checks"} \/ status \in {"usage", "plan"} => count = 0
    /\ status = "ok" => rows = <<>>

CommandInv == StageInv /\ ReadInv /\ CheckedInv /\ RefusedInv /\ RowsInv
------------------------------------------------------------------------------
(* What the parsers make of a value is a number, a mode or Invalid. *)
LEMMA ParsersTyped ==
    ASSUME NEW v
    PROVE  /\ parse_parts(v) \in (Nat \ {0}) \cup {Invalid}
           /\ parse_worker(v) \in Nat \cup {Invalid}
           /\ parse_source(v) \in {"mmap", "windowed", "pread"} \cup {Invalid}
           /\ parse_window(v) \in Nat \cup {Invalid}
BY CommandLineAssumption DEF parse_parts, parse_worker, parse_source, parse_window

(* The grammar reads each argument with the parser of its option. *)
LEMMA Meanings ==
    ASSUME NEW v
    PROVE  /\ Meaning("--parts", v) = parse_parts(v)
           /\ Meaning("--worker", v) = parse_worker(v)
           /\ Meaning("--source", v) = parse_source(v)
           /\ Meaning("--window", v) = parse_window(v)
           /\ Meaning("--delimiter-byte", v) = parse_delimiter_byte(v)
           /\ Meaning("--delimiter-hex", v) = parse_delimiter_hex(v)
           /\ Meaning("FILE", v) = v
           /\ Meaning("unexpected", v) = Invalid
           /\ Meaning("unknown", v) = Invalid
BY DEF Meaning

(* One more argument adds one occurrence of its own name and of no other. *)
LEMMA OccAppend ==
    ASSUME NEW g \in Seq(Arg), NEW name \in Names, NEW value \in Values \cup {"-x", "--worker"},
           NEW names
    PROVE  LET h == Append(g, <<name, value>>)
           IN  /\ h \in Seq(Arg) /\ DOMAIN h = DOMAIN g \cup {Len(g) + 1}
               /\ Len(g) + 1 \notin DOMAIN g
               /\ \A i \in DOMAIN g : h[i] = g[i]
               /\ h[Len(g) + 1] = <<name, value>>
               /\ name \notin names => Occ(h, names) = Occ(g, names)
               /\ name \in names => Occ(h, names) = Occ(g, names) \cup {Len(g) + 1}
               /\ Len(g) + 1 \notin Occ(g, names)
  <1> DEFINE a == <<name, value>>  h == Append(g, a)
  <1>1. a \in Arg /\ a[1] = name
    BY DEF Arg
  <1> HIDE DEF a
  <1>2. h \in Seq(Arg) /\ Len(h) = Len(g) + 1 /\ Len(g) \in Nat
    BY <1>1
  <1>3. DOMAIN h = 1..(Len(g) + 1) /\ DOMAIN g = 1..Len(g)
    BY <1>2
  <1>4. \A i \in 1..Len(g) : h[i] = g[i]
    BY <1>1
  <1>5. h[Len(g) + 1] = a
    BY <1>1
  <1>6. DOMAIN h = DOMAIN g \cup {Len(g) + 1} /\ Len(g) + 1 \notin DOMAIN g
    BY <1>2, <1>3
  <1>7. \A i \in DOMAIN g : h[i] = g[i]
    BY <1>3, <1>4
  <1> HIDE DEF h
  <1>8. name \notin names => Occ(h, names) = Occ(g, names)
    BY <1>1, <1>5, <1>6, <1>7 DEF Occ
  <1>9. name \in names => Occ(h, names) = Occ(g, names) \cup {Len(g) + 1}
    BY <1>1, <1>5, <1>6, <1>7 DEF Occ
  <1>10. Len(g) + 1 \notin Occ(g, names)
    BY <1>6 DEF Occ
  <1> QED
    BY <1>2, <1>5, <1>6, <1>7, <1>8, <1>9, <1>10 DEF h, a

(* An argument does not disturb what the other options say. *)
LEMMA TrackOther ==
    ASSUME NEW g \in Seq(Arg), NEW name \in Names, NEW value \in Values \cup {"-x", "--worker"},
           NEW names, NEW x, NEW d, name \notin names, Tracks(g, names, x, d)
    PROVE  Tracks(Append(g, <<name, value>>), names, x, d)
  <1> DEFINE h == Append(g, <<name, value>>)
  <1>1. Occ(h, names) = Occ(g, names)
    BY OccAppend
  <1>2. \A i \in Occ(g, names) : h[i] = g[i]
    BY OccAppend DEF Occ
  <1> HIDE DEF h
  <1>3. Tracks(h, names, x, d)
    BY <1>1, <1>2 DEF Tracks
  <1> QED
    BY <1>3 DEF h

(* The first occurrence of an option is its value. *)
LEMMA TrackNew ==
    ASSUME NEW g \in Seq(Arg), NEW name \in Names, NEW value \in Values \cup {"-x", "--worker"},
           NEW names, NEW d, name \in names, Occ(g, names) = {}
    PROVE  Tracks(Append(g, <<name, value>>), names, Meaning(name, value), d)
  <1> DEFINE h == Append(g, <<name, value>>)
  <1>1. Occ(h, names) = {Len(g) + 1}
    BY OccAppend
  <1>2. h[Len(g) + 1][1] = name /\ h[Len(g) + 1][2] = value
    BY OccAppend
  <1> HIDE DEF h
  <1>3. Tracks(h, names, Meaning(name, value), d)
    BY <1>1, <1>2 DEF Tracks
  <1> QED
    BY <1>3 DEF h

(* A second one is one too many for the grammar. *)
LEMMA TwiceIsMany ==
    ASSUME NEW g \in Seq(Arg), NEW name \in Names, NEW value \in Values \cup {"-x", "--worker"},
           NEW names, name \in names, NEW i, Occ(g, names) = {i}
    PROVE  ~(Cardinality(Occ(Append(g, <<name, value>>), names)) <= 1)
  <1>1. Occ(Append(g, <<name, value>>), names) = {i} \cup {Len(g) + 1}
    BY OccAppend
  <1>2. Len(g) + 1 \notin {i}
    BY OccAppend
  <1>3. IsFiniteSet({i}) /\ Cardinality({i}) = 1
    BY FS_Singleton
  <1>4. Cardinality({i} \cup {Len(g) + 1}) = Cardinality({i}) + 1
    BY <1>2, <1>3, FS_AddElement
  <1>5. Cardinality(Occ(Append(g, <<name, value>>), names)) = Cardinality({i}) + 1
    BY <1>1, <1>4, Zenon
  <1> QED
    BY <1>3, <1>5

(* A tracked option occurs at most once and its value is the one asked for. *)
LEMMA TrackedOnce ==
    ASSUME NEW g, NEW names, NEW x, NEW d, Tracks(g, names, x, d)
    PROVE  /\ Cardinality(Occ(g, names)) <= 1
           /\ x = IF Occ(g, names) = {} THEN d
                  ELSE LET i == CHOOSE i \in Occ(g, names) : TRUE IN Meaning(g[i][1], g[i][2])
  <1>1. CASE Occ(g, names) = {}
    <2>1. Cardinality(Occ(g, names)) = 0
      BY <1>1, FS_EmptySet
    <2> QED
      BY <1>1, <2>1 DEF Tracks
  <1>2. CASE Occ(g, names) # {}
    <2>1. PICK i \in Occ(g, names) : Occ(g, names) = {i} /\ x = Meaning(g[i][1], g[i][2])
      BY <1>2 DEF Tracks
    <2>2. Cardinality(Occ(g, names)) = 1
      BY <2>1, FS_Singleton
    <2>3. (CHOOSE j \in Occ(g, names) : TRUE) = i
      BY <2>1
    <2> QED
      BY <1>2, <2>1, <2>2, <2>3
  <1> QED
    BY <1>1, <1>2
------------------------------------------------------------------------------
(* The `seen` tests of the loop are right: a local differs from its default *)
(* exactly when its option has been read.                                   *)
LEMMA SeenIsRead ==
    ASSUME NEW g, NEW o, NEW c, Reading(g, o, c)
    PROVE  /\ o.parts = None <=> Occ(g, {"--parts"}) = {}
           /\ o.worker = None <=> Occ(g, {"--worker"}) = {}
           /\ o.window = None <=> Occ(g, {"--window"}) = {}
           /\ o.files = <<>> <=> Occ(g, {"FILE"}) = {}
  <1>1. \A names, x, d, i : Tracks(g, names, x, d) /\ i \in Occ(g, names)
             => g[i][1] \in names /\ x = Meaning(g[i][1], g[i][2])
    BY DEF Tracks, Occ
  <1>2. \A i \in DOMAIN g : Meaning(g[i][1], g[i][2]) # Invalid
    BY DEF Reading
  <1>3. \A names, i : i \in Occ(g, names) => i \in DOMAIN g
    BY DEF Occ
  <1>4. None \notin Nat
    BY CommandLineAssumption
  <1>5. o.parts = None <=> Occ(g, {"--parts"}) = {}
    <2>1. Tracks(g, {"--parts"}, o.parts, None)
      BY DEF Reading
    <2>2. ASSUME NEW i \in Occ(g, {"--parts"}) PROVE o.parts # None
      <3>1. o.parts = parse_parts(g[i][2]) /\ o.parts # Invalid
        BY <2>1, <1>1, <1>2, <1>3, Meanings
      <3> QED
        BY <3>1, <1>4, ParsersTyped
    <2> QED
      BY <2>1, <2>2 DEF Tracks
  <1>6. o.worker = None <=> Occ(g, {"--worker"}) = {}
    <2>1. Tracks(g, {"--worker"}, o.worker, None)
      BY DEF Reading
    <2>2. ASSUME NEW i \in Occ(g, {"--worker"}) PROVE o.worker # None
      <3>1. o.worker = parse_worker(g[i][2]) /\ o.worker # Invalid
        BY <2>1, <1>1, <1>2, <1>3, Meanings
      <3> QED
        BY <3>1, <1>4, ParsersTyped
    <2> QED
      BY <2>1, <2>2 DEF Tracks
  <1>7. o.window = None <=> Occ(g, {"--window"}) = {}
    <2>1. Tracks(g, {"--window"}, o.window, None)
      BY DEF Reading
    <2>2. ASSUME NEW i \in Occ(g, {"--window"}) PROVE o.window # None
      <3>1. o.window = parse_window(g[i][2]) /\ o.window # Invalid
        BY <2>1, <1>1, <1>2, <1>3, Meanings
      <3> QED
        BY <3>1, <1>4, ParsersTyped
    <2> QED
      BY <2>1, <2>2 DEF Tracks
  <1>8. o.files = <<>> <=> Occ(g, {"FILE"}) = {}
    <2>1. IsFiniteSet(Occ(g, {"FILE"})) /\ Cardinality(Occ(g, {"FILE"})) = Len(o.files)
      BY DEF Reading
    <2>2. Cardinality(Occ(g, {"FILE"})) = 0 <=> Occ(g, {"FILE"}) = {}
      BY <2>1, FS_EmptySet
    <2>3. o.files \in Seq(FileNames)
      BY DEF Reading, Options
    <2>4. Len(o.files) = 0 <=> o.files = <<>>
      BY <2>3
    <2> QED
      BY <2>1, <2>2, <2>4
  <1> QED
    BY <1>5, <1>6, <1>7, <1>8

(* What one more valid argument leaves as it was. *)
LEMMA ReadFrame ==
    ASSUME NEW g, NEW o, NEW c, Reading(g, o, c),
           NEW name \in Names, NEW value \in Values \cup {"-x", "--worker"},
           Meaning(name, value) # Invalid
    PROVE  LET h == Append(g, <<name, value>>)
           IN  /\ h \in Seq(Arg)
               /\ \A i \in DOMAIN h : Meaning(h[i][1], h[i][2]) # Invalid
               /\ name # "--parts" => Tracks(h, {"--parts"}, o.parts, None)
               /\ name # "--worker" => /\ Tracks(h, {"--worker"}, o.worker, None)
                                       /\ Occ(h, {"--worker"}) = Occ(g, {"--worker"})
               /\ name # "--source" => /\ Tracks(h, {"--source"}, o.source, "mmap")
                                       /\ Occ(h, {"--source"}) = Occ(g, {"--source"})
               /\ name # "--window" => Tracks(h, {"--window"}, o.window, None)
               /\ name \notin DelimiterNames =>
                      /\ Tracks(h, DelimiterNames, o.delimiter, <<10>>)
                      /\ Occ(h, DelimiterNames) = Occ(g, DelimiterNames)
               /\ name # "FILE" => Occ(h, {"FILE"}) = Occ(g, {"FILE"})
  <1> DEFINE h == Append(g, <<name, value>>)
  <1>1. g \in Seq(Arg) /\ \A i \in DOMAIN g : Meaning(g[i][1], g[i][2]) # Invalid
    BY DEF Reading
  <1>2. h \in Seq(Arg) /\ DOMAIN h = DOMAIN g \cup {Len(g) + 1}
    BY <1>1, OccAppend
  <1>3. \A i \in DOMAIN g : h[i] = g[i]
    BY <1>1, OccAppend
  <1>4. h[Len(g) + 1] = <<name, value>>
    BY <1>1, OccAppend
  <1>5. \A names : name \notin names => Occ(h, names) = Occ(g, names)
    BY <1>1, OccAppend
  <1>6. \A names, x, d : name \notin names /\ Tracks(g, names, x, d) => Tracks(h, names, x, d)
    BY <1>1, TrackOther
  <1> HIDE DEF h
  <1>7. \A i \in DOMAIN h : Meaning(h[i][1], h[i][2]) # Invalid
    BY <1>1, <1>2, <1>3, <1>4
  <1>8. name # "--parts" => Tracks(h, {"--parts"}, o.parts, None)
    BY <1>6 DEF Reading
  <1>9. name # "--worker" => /\ Tracks(h, {"--worker"}, o.worker, None)
                             /\ Occ(h, {"--worker"}) = Occ(g, {"--worker"})
    BY <1>5, <1>6 DEF Reading
  <1>10. name # "--source" => /\ Tracks(h, {"--source"}, o.source, "mmap")
                              /\ Occ(h, {"--source"}) = Occ(g, {"--source"})
    BY <1>5, <1>6 DEF Reading
  <1>11. name # "--window" => Tracks(h, {"--window"}, o.window, None)
    BY <1>6 DEF Reading
  <1>12. name \notin DelimiterNames =>
             /\ Tracks(h, DelimiterNames, o.delimiter, <<10>>)
             /\ Occ(h, DelimiterNames) = Occ(g, DelimiterNames)
    BY <1>5, <1>6 DEF Reading
  <1>13. name # "FILE" => Occ(h, {"FILE"}) = Occ(g, {"FILE"})
    BY <1>5
  <1> QED
    BY <1>2, <1>7, <1>8, <1>9, <1>10, <1>11, <1>12, <1>13 DEF h

(* The argument name may be read: nothing it excludes has been.            *)
Fresh(o, c, name) ==
    /\ name = "--parts" => o.parts = None
    /\ name = "--worker" => o.worker = None /\ c = "partition"
    /\ name = "--source" => ~o.source_seen
    /\ name = "--window" => o.window = None
    /\ name \in DelimiterNames => ~o.delimiter_seen
    /\ name = "FILE" /\ c = "partition" => o.files = <<>>

(* p is o with the value x of the argument name (the FILE v) stored.       *)
Stored(o, name, x, v, p) ==
    /\ p \in Options
    /\ p.parts = IF name = "--parts" THEN x ELSE o.parts
    /\ p.worker = IF name = "--worker" THEN x ELSE o.worker
    /\ p.source = IF name = "--source" THEN x ELSE o.source
    /\ p.source_seen = IF name = "--source" THEN TRUE ELSE o.source_seen
    /\ p.window = IF name = "--window" THEN x ELSE o.window
    /\ p.delimiter = IF name \in DelimiterNames THEN x ELSE o.delimiter
    /\ p.delimiter_seen = IF name \in DelimiterNames THEN TRUE ELSE o.delimiter_seen
    /\ p.files = IF name = "FILE" THEN Append(o.files, v) ELSE o.files

(* An argument that is new and valid is stored where the grammar finds it: *)
(* o are the locals before it, p those after.                              *)
LEMMA StoredRead ==
    ASSUME NEW g, NEW o, NEW c, Reading(g, o, c),
           NEW name \in Names, NEW v \in Values, Meaning(name, v) # Invalid,
           Fresh(o, c, name), NEW p, Stored(o, name, Meaning(name, v), v, p)
    PROVE  Reading(Append(g, <<name, v>>), p, c)
  <1> DEFINE h == Append(g, <<name, v>>)
  <1>0. v \in Values \cup {"-x", "--worker"}
    OBVIOUS
  <1>1. g \in Seq(Arg) /\ o \in Options
    BY DEF Reading
  <1>2. \A names, d : name \in names /\ Occ(g, names) = {} => Tracks(h, names, Meaning(name, v), d)
    BY <1>0, <1>1, TrackNew
  <1>3. \A names : name \in names => Occ(h, names) = Occ(g, names) \cup {Len(g) + 1}
    BY <1>0, <1>1, OccAppend
  <1>4. /\ h \in Seq(Arg)
        /\ \A i \in DOMAIN h : Meaning(h[i][1], h[i][2]) # Invalid
        /\ name # "--parts" => Tracks(h, {"--parts"}, o.parts, None)
        /\ name # "--worker" => /\ Tracks(h, {"--worker"}, o.worker, None)
                                /\ Occ(h, {"--worker"}) = Occ(g, {"--worker"})
        /\ name # "--source" => /\ Tracks(h, {"--source"}, o.source, "mmap")
                                /\ Occ(h, {"--source"}) = Occ(g, {"--source"})
        /\ name # "--window" => Tracks(h, {"--window"}, o.window, None)
        /\ name \notin DelimiterNames =>
               /\ Tracks(h, DelimiterNames, o.delimiter, <<10>>)
               /\ Occ(h, DelimiterNames) = Occ(g, DelimiterNames)
        /\ name # "FILE" => Occ(h, {"FILE"}) = Occ(g, {"FILE"})
    BY <1>0, ReadFrame, Zenon
  <1>5. Len(g) + 1 \notin Occ(g, {"FILE"})
    BY <1>0, <1>1, OccAppend
  <1> HIDE DEF h
  <1>6. Tracks(h, {"--parts"}, p.parts, None)
    BY <1>2, <1>4, SeenIsRead DEF Fresh, Stored
  <1>7. Tracks(h, {"--worker"}, p.worker, None)
    BY <1>2, <1>4, SeenIsRead DEF Fresh, Stored
  <1>8. /\ Tracks(h, {"--source"}, p.source, "mmap")
        /\ p.source_seen <=> Occ(h, {"--source"}) # {}
    BY <1>2, <1>3, <1>4 DEF Reading, Fresh, Stored
  <1>9. Tracks(h, {"--window"}, p.window, None)
    BY <1>2, <1>4, SeenIsRead DEF Fresh, Stored
  <1>10. /\ Tracks(h, DelimiterNames, p.delimiter, <<10>>)
         /\ p.delimiter_seen <=> Occ(h, DelimiterNames) # {}
    <2>1. CASE name \notin DelimiterNames
      <3>1. o.delimiter_seen <=> Occ(g, DelimiterNames) # {}
        BY DEF Reading
      <3> QED
        BY <2>1, <3>1, <1>4, Zenon DEF Stored
    <2>2. CASE name \in DelimiterNames
      <3>1. Occ(g, DelimiterNames) = {}
        BY <2>2 DEF Reading, Fresh
      <3>2. Tracks(h, DelimiterNames, p.delimiter, <<10>>)
        BY <2>2, <3>1, <1>2, Zenon DEF Stored
      <3>3. Occ(h, DelimiterNames) # {}
        BY <2>2, <1>3
      <3> QED
        BY <2>2, <3>2, <3>3 DEF Stored
    <2> QED
      BY <2>1, <2>2
  <1>11. /\ IsFiniteSet(Occ(h, {"FILE"})) /\ Cardinality(Occ(h, {"FILE"})) = Len(p.files)
         /\ c = "partition" => Len(p.files) <= 1
    <2>1. /\ IsFiniteSet(Occ(g, {"FILE"})) /\ Cardinality(Occ(g, {"FILE"})) = Len(o.files)
          /\ c = "partition" => Len(o.files) <= 1
      BY DEF Reading
    <2>2. CASE name # "FILE"
      BY <2>1, <2>2, <1>4, Zenon DEF Stored
    <2>3. CASE name = "FILE"
      <3>1. Occ(h, {"FILE"}) = Occ(g, {"FILE"}) \cup {Len(g) + 1}
        BY <2>3, <1>3
      <3>2. /\ IsFiniteSet(Occ(g, {"FILE"}) \cup {Len(g) + 1})
            /\ Cardinality(Occ(g, {"FILE"}) \cup {Len(g) + 1}) = Cardinality(Occ(g, {"FILE"})) + 1
        BY <2>1, <1>5, FS_AddElement
      <3>3. IsFiniteSet(Occ(h, {"FILE"})) /\ Cardinality(Occ(h, {"FILE"})) = Len(o.files) + 1
        BY <2>1, <3>1, <3>2, Zenon
      <3>4. o.files \in Seq(FileNames) /\ p.files \in Seq(FileNames)
        BY <1>1 DEF Options, Stored
      <3>5. Len(p.files) = Len(o.files) + 1
        BY <2>3, <3>4 DEF Stored
      <3>6. c = "partition" => Len(o.files) = 0
        BY <2>3 DEF Fresh
      <3> QED
        BY <3>3, <3>5, <3>6
    <2> QED
      BY <2>2, <2>3
  <1>12. c = "partition-files" => Occ(h, {"--worker"}) = {}
    BY <1>4 DEF Reading, Fresh
  <1>13. Reading(h, p, c)
    BY <1>4, <1>6, <1>7, <1>8, <1>9, <1>10, <1>11, <1>12 DEF Reading, Stored
  <1> QED
    BY <1>13 DEF h

(* What the grammar accepts of an argument list g, as a prefix. *)
ViableList(g, c) ==
    /\ \A i \in DOMAIN g : Meaning(g[i][1], g[i][2]) # Invalid
    /\ \A name \in {"--parts", "--worker", "--source", "--window"} :
          Cardinality(Occ(g, {name})) <= 1
    /\ Cardinality(Occ(g, DelimiterNames)) <= 1
    /\ c = "partition" => Cardinality(Occ(g, {"FILE"})) <= 1
    /\ c = "partition-files" => Occ(g, {"--worker"}) = {}

(* What was read so far can still become a grammatical command line. *)
LEMMA ReadingIsViable ==
    ASSUME NEW g, NEW o, NEW c, Reading(g, o, c)
    PROVE  ViableList(g, c)
BY TrackedOnce DEF Reading, ViableList

(* An argument the loop refuses makes every continuation ungrammatical. *)
LEMMA RefusedIsUngrammatical ==
    ASSUME NEW g, NEW o, NEW c, Reading(g, o, c),
           NEW name \in Names, NEW v \in Values \cup {"-x", "--worker"},
           Meaning(name, v) = Invalid \/ ~Fresh(o, c, name)
    PROVE  ~ViableList(Append(g, <<name, v>>), c)
  <1> DEFINE h == Append(g, <<name, v>>)
  <1>1. g \in Seq(Arg) /\ o \in Options
    BY DEF Reading
  <1>2. Len(g) + 1 \in DOMAIN h /\ h[Len(g) + 1] = <<name, v>>
    BY <1>1, OccAppend
  <1>3. \A names, i : name \in names /\ Occ(g, names) = {i} => ~(Cardinality(Occ(h, names)) <= 1)
    BY <1>1, TwiceIsMany
  <1>4. name = "--worker" => Occ(h, {"--worker"}) # {}
    BY <1>2 DEF Occ
  <1> HIDE DEF h
  <1>5. CASE Meaning(name, v) = Invalid
    BY <1>5, <1>2 DEF ViableList, h
  <1>6. CASE name = "--parts" /\ o.parts # None
    <2>1. PICK i : Occ(g, {"--parts"}) = {i}
      BY <1>6 DEF Reading, Tracks
    <2> QED
      BY <1>6, <2>1, <1>3 DEF ViableList, h
  <1>7. CASE name = "--worker" /\ (o.worker # None \/ c # "partition")
    <2>1. CASE o.worker # None
      <3>1. PICK i : Occ(g, {"--worker"}) = {i}
        BY <2>1 DEF Reading, Tracks
      <3> QED
        BY <1>7, <3>1, <1>3 DEF ViableList, h
    <2>2. CASE c # "partition"
      BY <1>7, <2>2, <1>4 DEF Reading, ViableList, h
    <2> QED
      BY <1>7, <2>1, <2>2
  <1>8. CASE name = "--source" /\ o.source_seen
    <2>1. PICK i : Occ(g, {"--source"}) = {i}
      BY <1>8 DEF Reading, Tracks
    <2> QED
      BY <1>8, <2>1, <1>3 DEF ViableList, h
  <1>9. CASE name = "--window" /\ o.window # None
    <2>1. PICK i : Occ(g, {"--window"}) = {i}
      BY <1>9 DEF Reading, Tracks
    <2> QED
      BY <1>9, <2>1, <1>3 DEF ViableList, h
  <1>10. CASE name \in DelimiterNames /\ o.delimiter_seen
    <2>1. PICK i : Occ(g, DelimiterNames) = {i}
      <3>1. Tracks(g, DelimiterNames, o.delimiter, <<10>>) /\ Occ(g, DelimiterNames) # {}
        BY <1>10 DEF Reading
      <3> QED
        BY <3>1 DEF Tracks
    <2>2. ~(Cardinality(Occ(h, DelimiterNames)) <= 1)
      BY <1>10, <2>1, <1>3
    <2> QED
      BY <2>2, Zenon DEF ViableList, h
  <1>11. CASE name = "FILE" /\ c = "partition" /\ o.files # <<>>
    <2>1. /\ IsFiniteSet(Occ(g, {"FILE"})) /\ Cardinality(Occ(g, {"FILE"})) = Len(o.files)
          /\ Len(o.files) <= 1 /\ o.files \in Seq(FileNames)
      BY <1>11 DEF Reading, Options
    <2>2. Len(o.files) = 1
      <3>1. \A files \in Seq(FileNames) : files # <<>> => Len(files) \in Nat \ {0}
        OBVIOUS
      <3>2. Len(o.files) \in Nat \ {0}
        BY <2>1, <1>11, <3>1
      <3> DEFINE n == Len(o.files)
      <3>3. n <= 1 /\ n \in Nat \ {0}
        BY <2>1, <3>2
      <3> HIDE DEF n
      <3>4. n = 1
        BY <3>3
      <3> QED
        BY <3>4 DEF n
    <2>3. PICK i : Occ(g, {"FILE"}) = {i}
      BY <2>1, <2>2, FS_Singleton
    <2> QED
      BY <1>11, <2>3, <1>3 DEF ViableList, h
  <1> QED
    BY <1>5, <1>6, <1>7, <1>8, <1>9, <1>10, <1>11 DEF Fresh
------------------------------------------------------------------------------
(* The selected rows: a sequence of naturals, empty when there is no range. *)
LEMMA SelTyped ==
    ASSUME NEW w \in Nat \cup {None}, NEW n \in Nat
    PROVE  /\ Sel(w, n) \in Seq(Nat)
           /\ w = None => Len(Sel(w, n)) = n /\ \A j \in 1..n : Sel(w, n)[j] = j - 1
           /\ w # None => /\ w < n => Len(Sel(w, n)) = 1 /\ Sel(w, n)[1] = w
                          /\ ~(w < n) => Len(Sel(w, n)) = 0
           /\ n = 0 => Len(Sel(w, n)) = 0
  <1>1. CASE w = None
    <2> DEFINE s == [i \in 1..n |-> i - 1]
    <2>1. s \in Seq(Nat) /\ Len(s) = n /\ \A j \in 1..n : s[j] = j - 1
      OBVIOUS
    <2>2. Sel(w, n) = s
      BY <1>1 DEF Sel
    <2> HIDE DEF s
    <2> QED
      BY <1>1, <2>1, <2>2
  <1>2. CASE w # None
    <2>1. w \in Nat
      BY <1>2
    <2> QED
      BY <1>2, <2>1 DEF Sel
  <1> QED
    BY <1>1, <1>2

(* No range, no row: nothing is selected of a plan of no ranges. *)
LEMMA SelOfNothing ==
    ASSUME NEW w \in Nat \cup {None}
    PROVE  Len(Sel(w, 0)) = 0
  BY SelTyped, ZenonT(60)

(* On arguments read so far, the grammar asks what the checks test. *)
LEMMA ChecksDecide ==
    ASSUME Reading(given, opts, command)
    PROVE  /\ Viable
           /\ opts.parts = Asked({"--parts"}, None)
           /\ opts.worker = Asked({"--worker"}, None)
           /\ opts.source = Asked({"--source"}, "mmap")
           /\ opts.window = Asked({"--window"}, None)
           /\ opts.delimiter = Asked(DelimiterNames, <<10>>)
           /\ Len(opts.files) = Cardinality(Occurrences({"FILE"}))
           /\ Grammatical <=> /\ opts.files # <<>> /\ opts.parts # None
                              /\ opts.worker # None => opts.worker < opts.parts
                              /\ ~WindowWithoutWindowed
  <1>1. \A names : Occurrences(names) = Occ(given, names)
    BY DEF Occurrences, Occ
  <1>2. Viable
    BY <1>1, ReadingIsViable DEF Viable, ViableList, Parsed, DelimiterNames
  <1>3. \A names, x, d : Tracks(given, names, x, d) => x = Asked(names, d)
    <2> TAKE names, x, d
    <2> HAVE Tracks(given, names, x, d)
    <2>1. x = IF Occ(given, names) = {} THEN d
              ELSE LET i == CHOOSE i \in Occ(given, names) : TRUE
                   IN  Meaning(given[i][1], given[i][2])
      BY TrackedOnce
    <2> QED
      BY <1>1, <2>1, Zenon DEF Asked, Parsed
  <1>4. opts.parts = Asked({"--parts"}, None)
    BY <1>3 DEF Reading
  <1>5. opts.worker = Asked({"--worker"}, None)
    BY <1>3 DEF Reading
  <1>6. opts.source = Asked({"--source"}, "mmap")
    BY <1>3 DEF Reading
  <1>7. opts.window = Asked({"--window"}, None)
    BY <1>3 DEF Reading
  <1>8. opts.delimiter = Asked(DelimiterNames, <<10>>)
    BY <1>3 DEF Reading
  <1>9. Len(opts.files) = Cardinality(Occurrences({"FILE"}))
    <2>1. Cardinality(Occ(given, {"FILE"})) = Len(opts.files)
      BY DEF Reading
    <2> QED
      BY <1>1, <2>1, Zenon
  <1>10. Occurrences({"FILE"}) # {} <=> opts.files # <<>>
    BY <1>1, SeenIsRead
  <1>11. Occurrences({"--window"}) # {} <=> opts.window # None
    BY <1>1, SeenIsRead
  <1>12. Grammatical <=> /\ opts.files # <<>> /\ opts.parts # None
                         /\ opts.worker # None => opts.worker < opts.parts
                         /\ ~WindowWithoutWindowed
    BY <1>2, <1>4, <1>5, <1>6, <1>10, <1>11 DEF Grammatical, WindowWithoutWindowed
  <1> QED
    BY <1>2, <1>4, <1>5, <1>6, <1>7, <1>8, <1>9, <1>12
------------------------------------------------------------------------------
(* After any step, the arguments the command now has are judged as a list. *)
LEMMA ViableForm == Viable' <=> ViableList(given', command')
BY DEF Viable, ViableList, Occurrences, Occ, Parsed, DelimiterNames

(* Every way out with a usage error. *)
LEMMA RefuseKeeps ==
    ASSUME CommandInv, pc \in {"run", "args", "checks"}, main_fails("usage"), ~Grammatical'
    PROVE  CommandInv'
  <1>1. pc' = "exit" /\ status' = "usage" /\ opts' = opts /\ count' = count
        /\ rows' = rows /\ output' = output
    BY DEF main_fails, planned
  <1>3. StageInv'
    BY <1>1, CommandLineAssumption DEF StageInv
  <1>4. ReadInv' /\ CheckedInv' /\ RefusedInv'
    BY <1>1 DEF ReadInv, CheckedInv, RefusedInv, Accepted
  <1>5. RowsInv'
    BY <1>1 DEF CommandInv, RowsInv
  <1> QED
    BY <1>3, <1>4, <1>5 DEF CommandInv

(* Every argument that is consumed and the loop going on. *)
LEMMA StoredKeeps ==
    ASSUME CommandInv, pc \in {"run", "args"}, pc' \in {"args", "checks"},
           UNCHANGED <<planned, status>>,
           Reading(given', opts', command')
    PROVE  CommandInv'
  <1>1. status' = status /\ count' = count /\ rows' = rows /\ output' = output
    BY DEF planned
  <1>2. status = None /\ count = 0
    BY CommandLineAssumption DEF CommandInv, StageInv, RowsInv
  <1>3. StageInv'
    BY <1>1, <1>2 DEF CommandInv, StageInv
  <1>4. ReadInv'
    BY DEF ReadInv
  <1>5. CheckedInv' /\ RefusedInv'
    BY <1>1, <1>2, CommandLineAssumption DEF CheckedInv, RefusedInv, Accepted
  <1>6. RowsInv'
    <2>1. opts' \in Options /\ opts \in Options
      BY DEF Reading, CommandInv, RowsInv
    <2>2. opts'.worker \in Nat \cup {None} /\ opts.worker \in Nat \cup {None}
      BY <2>1 DEF Options
    <2>3. Len(Sel(opts'.worker, 0)) = 0 /\ Len(Sel(opts.worker, 0)) = 0
      BY <2>2, SelOfNothing
    <2>4. /\ output \in Seq(Nat) /\ rows \in Seq(Nat)
          /\ Len(output) + Len(rows) = Len(Sel(opts.worker, 0))
      BY <1>2 DEF CommandInv, RowsInv
    <2>5. Len(output) = 0 /\ Len(rows) = 0
      BY <2>3, <2>4
    <2>6. status' # "ok"
      BY <1>1, <1>2, CommandLineAssumption
    <2> QED
      BY <1>1, <1>2, <2>1, <2>3, <2>4, <2>5, <2>6 DEF RowsInv
  <1> QED
    BY <1>3, <1>4, <1>5, <1>6 DEF CommandInv

(* One argument of the loop: name with the value v, read as `parsed`.      *)
LEMMA StoreKeeps ==
    ASSUME CommandInv, pc = "args", NEW name \in Names, NEW v \in Values,
           NEW seen \in BOOLEAN, NEW parsed, NEW p,
           Consume(name, v), Store(seen, parsed, p),
           parsed = Meaning(name, v),
           seen <=> ~Fresh(opts, command, name),
           ~seen /\ parsed # Invalid => Stored(opts, name, parsed, v, p)
    PROVE  CommandInv'
  <1>1. Reading(given, opts, command)
    BY DEF CommandInv, ReadInv
  <1>2. given' = Append(given, <<name, v>>)
    BY DEF Consume
  <1>3. CASE seen \/ parsed = Invalid
    <2>1. main_fails("usage")
      BY <1>3 DEF Store
    <2>2. command' = command
      BY <2>1 DEF main_fails
    <2>3. v \in Values \cup {"-x", "--worker"}
      OBVIOUS
    <2>4. ~ViableList(Append(given, <<name, v>>), command)
      BY <1>1, <1>3, <2>3, RefusedIsUngrammatical, Zenon
    <2>5. ~ViableList(given', command')
      BY <1>2, <2>2, <2>4
    <2>6. ~Grammatical'
      BY <2>5, ViableForm DEF Grammatical
    <2> QED
      BY <2>1, <2>6, RefuseKeeps
  <1>4. CASE ~(seen \/ parsed = Invalid)
    <2>1. opts' = p /\ UNCHANGED <<pc, command, planned, status>>
      BY <1>4 DEF Store
    <2>2. Stored(opts, name, Meaning(name, v), v, p)
      BY <1>4, Zenon
    <2>3. Reading(Append(given, <<name, v>>), p, command)
      BY <1>1, <1>4, <2>2, StoredRead, Zenon
    <2>4. Reading(given', opts', command')
      BY <1>2, <2>1, <2>3
    <2> QED
      BY <2>1, <2>4, StoredKeeps
  <1> QED
    BY <1>3, <1>4

(* The locals after each option, and when it may be read. *)
LEMMA SharedOptionKeeps ==
    ASSUME CommandInv, pc = "args", SharedOption
    PROVE  CommandInv'
  <1>1. opts \in Options
    BY DEF CommandInv, RowsInv
  <1>2. PICK v \in Values :
           \/ PartsOption(v) \/ DelimiterByteOption(v) \/ DelimiterHexOption(v)
           \/ SourceOption(v) \/ WindowOption(v)
    BY DEF SharedOption
  <1>3. CASE PartsOption(v)
    <2> DEFINE p == [opts EXCEPT !.parts = parse_parts(v)]
    <2>1. Consume("--parts", v) /\ Store(opts.parts # None, parse_parts(v), p)
      BY <1>3 DEF PartsOption
    <2>2. parse_parts(v) = Meaning("--parts", v)
      BY Meanings
    <2>3. (opts.parts # None) <=> ~Fresh(opts, command, "--parts")
      BY DEF Fresh, DelimiterNames
    <2>4. parse_parts(v) # Invalid => Stored(opts, "--parts", parse_parts(v), v, p)
      BY <1>1, ParsersTyped DEF Stored, Options, DelimiterNames
    <2>5. "--parts" \in Names /\ (opts.parts # None) \in BOOLEAN
      BY DEF Names
    <2> HIDE DEF p
    <2> QED
      BY <2>1, <2>2, <2>3, <2>4, <2>5, StoreKeeps
  <1>4. CASE DelimiterByteOption(v)
    <2> DEFINE p == [opts EXCEPT !.delimiter_seen = TRUE, !.delimiter = parse_delimiter_byte(v)]
    <2>1. Consume("--delimiter-byte", v) /\ Store(opts.delimiter_seen, parse_delimiter_byte(v), p)
      BY <1>4 DEF DelimiterByteOption
    <2>2. parse_delimiter_byte(v) = Meaning("--delimiter-byte", v)
      BY Meanings
    <2>3. opts.delimiter_seen <=> ~Fresh(opts, command, "--delimiter-byte")
      BY <1>1 DEF Fresh, DelimiterNames, Options
    <2>4. Stored(opts, "--delimiter-byte", parse_delimiter_byte(v), v, p)
      BY <1>1 DEF Stored, Options, DelimiterNames
    <2>5. "--delimiter-byte" \in Names /\ opts.delimiter_seen \in BOOLEAN
      BY <1>1 DEF Names, Options
    <2> HIDE DEF p
    <2> QED
      BY <2>1, <2>2, <2>3, <2>4, <2>5, StoreKeeps
  <1>5. CASE DelimiterHexOption(v)
    <2> DEFINE p == [opts EXCEPT !.delimiter_seen = TRUE, !.delimiter = parse_delimiter_hex(v)]
    <2>1. Consume("--delimiter-hex", v) /\ Store(opts.delimiter_seen, parse_delimiter_hex(v), p)
      BY <1>5 DEF DelimiterHexOption
    <2>2. parse_delimiter_hex(v) = Meaning("--delimiter-hex", v)
      BY Meanings
    <2>3. opts.delimiter_seen <=> ~Fresh(opts, command, "--delimiter-hex")
      BY <1>1 DEF Fresh, DelimiterNames, Options
    <2>4. Stored(opts, "--delimiter-hex", parse_delimiter_hex(v), v, p)
      BY <1>1 DEF Stored, Options, DelimiterNames
    <2>5. "--delimiter-hex" \in Names /\ opts.delimiter_seen \in BOOLEAN
      BY <1>1 DEF Names, Options
    <2> HIDE DEF p
    <2> QED
      BY <2>1, <2>2, <2>3, <2>4, <2>5, StoreKeeps
  <1>6. CASE SourceOption(v)
    <2> DEFINE p == [opts EXCEPT !.source_seen = TRUE, !.source = parse_source(v)]
    <2>1. Consume("--source", v) /\ Store(opts.source_seen, parse_source(v), p)
      BY <1>6 DEF SourceOption
    <2>2. parse_source(v) = Meaning("--source", v)
      BY Meanings
    <2>3. opts.source_seen <=> ~Fresh(opts, command, "--source")
      BY <1>1 DEF Fresh, DelimiterNames, Options
    <2>4. parse_source(v) # Invalid => Stored(opts, "--source", parse_source(v), v, p)
      BY <1>1, ParsersTyped DEF Stored, Options, DelimiterNames
    <2>5. "--source" \in Names /\ opts.source_seen \in BOOLEAN
      BY <1>1 DEF Names, Options
    <2> HIDE DEF p
    <2> QED
      BY <2>1, <2>2, <2>3, <2>4, <2>5, StoreKeeps
  <1>7. CASE WindowOption(v)
    <2> DEFINE p == [opts EXCEPT !.window = parse_window(v)]
    <2>1. Consume("--window", v) /\ Store(opts.window # None, parse_window(v), p)
      BY <1>7 DEF WindowOption
    <2>2. parse_window(v) = Meaning("--window", v)
      BY Meanings
    <2>3. (opts.window # None) <=> ~Fresh(opts, command, "--window")
      BY DEF Fresh, DelimiterNames
    <2>4. parse_window(v) # Invalid => Stored(opts, "--window", parse_window(v), v, p)
      BY <1>1, ParsersTyped DEF Stored, Options, DelimiterNames
    <2>5. "--window" \in Names /\ (opts.window # None) \in BOOLEAN
      BY DEF Names
    <2> HIDE DEF p
    <2> QED
      BY <2>1, <2>2, <2>3, <2>4, <2>5, StoreKeeps
  <1> QED
    BY <1>2, <1>3, <1>4, <1>5, <1>6, <1>7

(* --worker, which only `partition` knows. *)
LEMMA WorkerKeeps ==
    ASSUME CommandInv, pc = "args", command = "partition", NEW v \in Values, WorkerOption(v)
    PROVE  CommandInv'
  <1> DEFINE p == [opts EXCEPT !.worker = parse_worker(v)]
  <1>1. opts \in Options
    BY DEF CommandInv, RowsInv
  <1>2. Consume("--worker", v) /\ Store(opts.worker # None, parse_worker(v), p)
    BY DEF WorkerOption
  <1>3. parse_worker(v) = Meaning("--worker", v)
    BY Meanings
  <1>4. (opts.worker # None) <=> ~Fresh(opts, command, "--worker")
    BY DEF Fresh, DelimiterNames
  <1>5. parse_worker(v) # Invalid => Stored(opts, "--worker", parse_worker(v), v, p)
    BY <1>1, ParsersTyped DEF Stored, Options, DelimiterNames
  <1>6. "--worker" \in Names /\ (opts.worker # None) \in BOOLEAN
    BY DEF Names
  <1> HIDE DEF p
  <1> QED
    BY <1>2, <1>3, <1>4, <1>5, <1>6, StoreKeeps

(* The FILE of `partition`, and one more FILE of `partition-files`. *)
LEMMA FileKeeps ==
    ASSUME CommandInv, pc = "args", NEW name \in FileNames,
           \/ command = "partition" /\ OneFile(name)
           \/ command = "partition-files" /\ AnotherFile(name)
    PROVE  CommandInv'
  <1>1. opts \in Options /\ opts.files \in Seq(FileNames)
    BY DEF CommandInv, RowsInv, Options
  <1>2. name \in Values /\ Meaning("FILE", name) = name /\ "FILE" \in Names
    BY CommandLineAssumption, Meanings DEF Values, Names
  <1>3. CASE command = "partition" /\ OneFile(name)
    <2> DEFINE p == [opts EXCEPT !.files = <<name>>]
    <2>1. Consume("FILE", name) /\ Store(opts.files # <<>>, name, p)
      BY <1>3 DEF OneFile
    <2>2. (opts.files # <<>>) <=> ~Fresh(opts, command, "FILE")
      BY <1>3 DEF Fresh, DelimiterNames
    <2>3. opts.files = <<>> => Stored(opts, "FILE", name, name, p)
      <3>1. <<name>> = Append(<<>>, name) /\ <<name>> \in Seq(FileNames)
        OBVIOUS
      <3> QED
        BY <1>1, <3>1 DEF Stored, Options, DelimiterNames
    <2>4. (opts.files # <<>>) \in BOOLEAN
      OBVIOUS
    <2> HIDE DEF p
    <2> QED
      BY <1>2, <2>1, <2>2, <2>3, <2>4, StoreKeeps
  <1>4. CASE command = "partition-files" /\ AnotherFile(name)
    <2> DEFINE p == [opts EXCEPT !.files = Append(opts.files, name)]
    <2>1. Consume("FILE", name) /\ Store(FALSE, name, p)
      BY <1>4 DEF AnotherFile
    <2>2. FALSE <=> ~Fresh(opts, command, "FILE")
      BY <1>4 DEF Fresh, DelimiterNames
    <2>3. Stored(opts, "FILE", name, name, p)
      <3>1. Append(opts.files, name) \in Seq(FileNames)
        BY <1>1
      <3> QED
        BY <1>1, <3>1 DEF Stored, Options, DelimiterNames
    <2> HIDE DEF p
    <2> QED
      BY <1>2, <2>1, <2>2, <2>3, StoreKeeps
  <1> QED
    BY <1>3, <1>4

(* An option no command knows. *)
LEMMA UnexpectedKeeps ==
    ASSUME CommandInv, pc = "args", NEW name \in {"-x", "--worker"}, UnexpectedOption(name)
    PROVE  CommandInv'
  <1>1. Reading(given, opts, command)
    BY DEF CommandInv, ReadInv
  <1>2. given' = Append(given, <<"unexpected", name>>) /\ main_fails("usage")
    BY DEF UnexpectedOption, Consume
  <1>3. /\ "unexpected" \in Names /\ Meaning("unexpected", name) = Invalid
        /\ name \in Values \cup {"-x", "--worker"}
    BY Meanings DEF Names
  <1>4. ~ViableList(Append(given, <<"unexpected", name>>), command)
    BY <1>1, <1>3, RefusedIsUngrammatical
  <1>5. command' = command
    BY <1>2 DEF main_fails
  <1>6. ~Grammatical'
    BY <1>2, <1>4, <1>5, ViableForm DEF Grammatical
  <1> QED
    BY <1>2, <1>6, RefuseKeeps

(* --help: success with nothing planned. *)
LEMMA HelpKeeps ==
    ASSUME CommandInv, pc \in {"run", "args"}, pc' = "exit", status' = "ok",
           UNCHANGED <<command, opts, planned>>
    PROVE  CommandInv'
  <1>1. count' = count /\ rows' = rows /\ output' = output /\ opts' = opts
    BY DEF planned
  <1>2. StageInv'
    BY CommandLineAssumption DEF StageInv
  <1>3. ReadInv' /\ CheckedInv' /\ RefusedInv'
    BY DEF ReadInv, CheckedInv, RefusedInv, Accepted
  <1>4. RowsInv'
    <2>1. /\ opts \in Options /\ count = 0 /\ output \in Seq(Nat) /\ rows \in Seq(Nat)
          /\ Len(output) + Len(rows) = Len(Sel(opts.worker, 0))
      BY DEF CommandInv, RowsInv
    <2>2. opts.worker \in Nat \cup {None}
      BY <2>1 DEF Options
    <2>3. Len(Sel(opts.worker, 0)) = 0
      BY <2>2, SelOfNothing
    <2>4. Len(rows) = 0
      BY <2>1, <2>3
    <2>5. rows = <<>>
      BY <2>1, <2>4
    <2> QED
      BY <1>1, <2>5 DEF CommandInv, RowsInv
  <1> QED
    BY <1>2, <1>3, <1>4 DEF CommandInv

(* The first argument. *)
LEMMA RunKeeps == CommandInv /\ run => CommandInv'
  <1> SUFFICES ASSUME CommandInv, run PROVE CommandInv'
    OBVIOUS
  <1>1. pc = "run" /\ given = <<>> /\ opts = Defaults
    BY DEF run, CommandInv, StageInv
  <1>2. ASSUME NEW c \in {"partition", "partition-files"}, command' = c, pc' = "args",
               UNCHANGED <<given, opts, planned, status>>
        PROVE  CommandInv'
    <2>1. given' = <<>> /\ opts' = Defaults /\ opts' \in Options
      BY <1>1, <1>2 DEF CommandInv, RowsInv
    <2>2. given' \in Seq(Arg) /\ DOMAIN given' = {} /\ \A names : Occ(given', names) = {}
      BY <2>1 DEF Occ
    <2>3. \A names, d : Tracks(given', names, d, d)
      BY <2>2 DEF Tracks
    <2>4. IsFiniteSet(Occ(given', {"FILE"})) /\ Cardinality(Occ(given', {"FILE"})) = 0
      BY <2>2, FS_EmptySet
    <2>5. /\ opts'.parts = None /\ opts'.worker = None /\ opts'.source = "mmap"
          /\ opts'.window = None /\ opts'.delimiter = <<10>> /\ ~opts'.source_seen
          /\ ~opts'.delimiter_seen /\ Len(opts'.files) = 0
      BY <2>1 DEF Defaults
    <2>6. Reading(given', opts', command')
      BY <1>2, <2>1, <2>2, <2>3, <2>4, <2>5 DEF Reading
    <2> QED
      BY <1>1, <1>2, <2>6, StoredKeeps
  <1>3. ASSUME given' = <<<<"--help", EndOfArgs>>>>, pc' = "exit", status' = "ok",
               UNCHANGED <<command, opts, planned>>
        PROVE  CommandInv'
    BY <1>1, <1>3, HelpKeeps
  <1>4. ASSUME NEW c \in Values, given' = <<<<"unknown", c>>>>, main_fails("usage")
        PROVE  CommandInv'
    <2>1. 1 \in DOMAIN given' /\ given'[1][1] = "unknown" /\ given'[1][2] = c
      BY <1>4
    <2>2. Meaning("unknown", c) = Invalid
      BY Meanings
    <2>3. ~ViableList(given', command')
      BY <2>1, <2>2 DEF ViableList
    <2>4. ~Grammatical'
      BY <2>3, ViableForm DEF Grammatical
    <2> QED
      BY <1>1, <1>4, <2>4, RefuseKeeps
  <1> QED
    BY <1>2, <1>3, <1>4 DEF run
------------------------------------------------------------------------------
(* A planner is called: it fails, or its rows are selected. *)
LEMMA PlanKeeps ==
    ASSUME CommandInv, pc = "checks", NEW kind, PlanWith(kind),
           opts.files # <<>>, opts.parts # None,
           opts.worker # None => opts.worker < opts.parts, ~WindowWithoutWindowed
    PROVE  CommandInv'
  <1>1. /\ Reading(given, opts, command) /\ status = None /\ opts \in Options /\ count = 0
        /\ output \in Seq(Nat) /\ rows \in Seq(Nat)
        /\ Len(output) + Len(rows) = Len(Sel(opts.worker, 0))
    BY DEF CommandInv, ReadInv, StageInv, RowsInv
  <1>2. opts.worker \in Nat \cup {None}
    BY <1>1 DEF Options
  <1>3. Len(Sel(opts.worker, 0)) = 0
    BY <1>2, SelTyped
  <1>4. Len(output) = 0 /\ Len(rows) = 0
    BY <1>1, <1>3
  <1>5. CASE main_fails("plan") /\ UNCHANGED given
    <2>1. /\ pc' = "exit" /\ status' = "plan" /\ given' = given /\ opts' = opts
          /\ command' = command /\ count' = count /\ rows' = rows /\ output' = output
      BY <1>5 DEF main_fails, planned
    <2>2. StageInv'
      BY <2>1, CommandLineAssumption DEF StageInv
    <2>3. ReadInv'
      BY <1>1, <2>1 DEF ReadInv
    <2>4. CheckedInv' /\ RefusedInv'
      BY <2>1 DEF CheckedInv, RefusedInv, WindowWithoutWindowed
    <2>5. RowsInv'
      BY <2>1 DEF CommandInv, RowsInv
    <2> QED
      BY <2>2, <2>3, <2>4, <2>5 DEF CommandInv
  <1>6. ASSUME NEW n \in {c \in 0..MaxRanges : c <= opts.parts},
               engine' = kind, count' = n, rows' = Selected(n), pc' = "emit",
               UNCHANGED <<command, given, opts, output, status>>
        PROVE  CommandInv'
    <2>1. n \in Nat
      BY CommandLineAssumption
    <2>2. rows' = Sel(opts.worker, n)
      BY <1>6 DEF Selected, Sel
    <2>3. StageInv'
      BY <1>1, <1>6, CommandLineAssumption DEF StageInv
    <2>4. ReadInv'
      BY <1>1, <1>6 DEF ReadInv
    <2>5. CheckedInv' /\ RefusedInv'
      BY <1>1, <1>6, CommandLineAssumption DEF CheckedInv, RefusedInv, WindowWithoutWindowed
    <2>6. RowsInv'
      <3>1. Sel(opts.worker, n) \in Seq(Nat)
        BY <1>2, <2>1, SelTyped
      <3>2. /\ opts' = opts /\ output' = output /\ count' = n /\ status' = None /\ pc' = "emit"
        BY <1>1, <1>6
      <3>3. /\ status' # "ok"
            /\ ~(pc' \in {"run", "args", "checks"} \/ status' \in {"usage", "plan"})
        BY <3>2, CommandLineAssumption
      <3>4. \A j \in 1..Len(rows') : rows'[j] = Sel(opts.worker, n)[Len(output) + j]
        BY <1>4, <2>2, <3>1
      <3>5. Len(output) + Len(rows') = Len(Sel(opts.worker, n))
        BY <1>4, <2>2, <3>1
      <3>6. \A j \in 1..Len(output) : output[j] = Sel(opts.worker, n)[j]
        BY <1>4
      <3> QED
        BY <1>1, <2>1, <2>2, <3>1, <3>2, <3>3, <3>4, <3>5, <3>6 DEF RowsInv
    <2> QED
      BY <2>3, <2>4, <2>5, <2>6 DEF CommandInv
  <1> QED
    BY <1>5, <1>6 DEF PlanWith

(* The checks refuse exactly what the grammar does. *)
LEMMA ChecksKeep ==
    ASSUME CommandInv, pc = "checks",
           \/ command = "partition" /\ PartitionChecks
           \/ command = "partition-files" /\ PartitionFilesChecks
    PROVE  CommandInv'
  <1> DEFINE sound == /\ opts.files # <<>> /\ opts.parts # None
                      /\ opts.worker # None => opts.worker < opts.parts
                      /\ ~WindowWithoutWindowed
  <1>1. Reading(given, opts, command)
    BY DEF CommandInv, ReadInv
  <1>2. /\ opts.parts # None => opts.parts \in Nat
        /\ opts.worker # None => opts.worker \in Nat
    BY <1>1 DEF Reading, Options
  <1>3. command = "partition-files" => opts.worker = None
    BY <1>1, SeenIsRead DEF Reading
  <1>4. ASSUME main_fails("usage"), UNCHANGED given, ~sound PROVE CommandInv'
    <2>1. ~Grammatical
      BY <1>1, <1>4, ChecksDecide
    <2>2. given' = given /\ command' = command
      BY <1>4 DEF main_fails
    <2>3. ~Grammatical'
      <3>1. \A names : Occurrences(names)' = Occurrences(names)
        BY <2>2, Zenon DEF Occurrences
      <3>2. \A i : Parsed(i)' = Parsed(i)
        BY <2>2, Zenon DEF Parsed
      <3>3. Viable' <=> Viable
        BY <2>2, <3>1, <3>2 DEF Viable
      <3>4. \A names, default : Asked(names, default)' = Asked(names, default)
        <4> DEFINE Pick(S) == CHOOSE i \in S : TRUE
        <4>1. \A names, default :
                Asked(names, default) = IF Occurrences(names) = {} THEN default
                                        ELSE Parsed(Pick(Occurrences(names)))
          BY DEF Asked
        <4>2. \A names, default :
                Asked(names, default)' = IF Occurrences(names)' = {} THEN default
                                         ELSE Meaning(given'[Pick(Occurrences(names)')][1],
                                                      given'[Pick(Occurrences(names)')][2])
          BY DEF Asked, Parsed
        <4> HIDE DEF Pick
        <4> QED
          BY <2>2, <3>1, <4>1, <4>2, Zenon DEF Parsed
      <3> QED
        BY <2>1, <3>1, <3>3, <3>4 DEF Grammatical
    <2> QED
      BY <1>4, <2>3, RefuseKeeps
  <1>5. ASSUME NEW kind, PlanWith(kind), sound PROVE CommandInv'
    BY <1>5, PlanKeeps
  <1>6. CASE command = "partition" /\ PartitionChecks
    <2> DEFINE refuse == \/ opts.files = <<>>
                         \/ opts.parts = None
                         \/ opts.worker # None /\ opts.worker >= opts.parts
                         \/ WindowWithoutWindowed
    <2>1. refuse <=> ~sound
      BY <1>2
    <2>2. \/ refuse /\ main_fails("usage") /\ UNCHANGED given
          \/ ~refuse /\ \E kind \in {"byte", "pattern", "sourced"} : PlanWith(kind)
      BY <1>6 DEF PartitionChecks, emit_partitions_for_delimiter, emit_partitions,
                  emit_partitions_pattern, emit_partitions_sourced
    <2> HIDE DEF refuse, sound
    <2> QED
      BY <1>4, <1>5, <2>1, <2>2
  <1>7. CASE command = "partition-files" /\ PartitionFilesChecks
    <2> DEFINE refuse == opts.parts = None \/ opts.files = <<>> \/ WindowWithoutWindowed
    <2>1. refuse <=> ~sound
      BY <1>3, <1>7
    <2>2. \/ refuse /\ main_fails("usage") /\ UNCHANGED given
          \/ ~refuse /\ \E kind \in {"files", "files sourced"} : PlanWith(kind)
      BY <1>7 DEF PartitionFilesChecks, emit_file_partitions, emit_file_partitions_sourced
    <2> HIDE DEF refuse, sound
    <2> QED
      BY <1>4, <1>5, <2>1, <2>2
  <1> QED
    BY <1>6, <1>7

(* A row, the flush, or a failed write. *)
LEMMA EmitKeeps == CommandInv /\ emit_indexed_chunks => CommandInv'
  <1> SUFFICES ASSUME CommandInv, emit_indexed_chunks PROVE CommandInv'
    OBVIOUS
  <1>1. /\ pc = "emit" /\ status = None /\ Accepted
        /\ Reading(given, opts, command)
    BY DEF emit_indexed_chunks, CommandInv, StageInv, ReadInv, Accepted
  <1>2. CheckedInv /\ RowsInv
    BY DEF CommandInv
  <1>3. CASE /\ rows # <<>> /\ output' = Append(output, Head(rows)) /\ rows' = Tail(rows)
             /\ UNCHANGED <<pc, command, given, opts, engine, count, status>>
    <2>1. StageInv' /\ ReadInv' /\ CheckedInv' /\ RefusedInv'
      BY <1>1, <1>2, <1>3, CommandLineAssumption
         DEF CommandInv, StageInv, ReadInv, CheckedInv, RefusedInv, Accepted, WindowWithoutWindowed
    <2>2. RowsInv'
      <3> DEFINE sel == Sel(opts.worker, count)
      <3>1. /\ output \in Seq(Nat) /\ rows \in Seq(Nat)
            /\ Len(output) + Len(rows) = Len(sel)
            /\ \A j \in 1..Len(output) : output[j] = sel[j]
            /\ \A j \in 1..Len(rows) : rows[j] = sel[Len(output) + j]
        BY <1>2 DEF RowsInv
      <3> HIDE DEF sel
      <3>2. /\ Len(rows) \in Nat \ {0} /\ Head(rows) = rows[1] /\ Head(rows) \in Nat
            /\ Tail(rows) \in Seq(Nat) /\ Len(Tail(rows)) = Len(rows) - 1
            /\ \A j \in 1..(Len(rows) - 1) : Tail(rows)[j] = rows[j + 1]
        BY <1>3, <3>1
      <3>3. /\ output' \in Seq(Nat) /\ Len(output') = Len(output) + 1 /\ Len(output) \in Nat
            /\ \A j \in 1..Len(output) : output'[j] = output[j]
            /\ output'[Len(output) + 1] = rows[1]
        BY <1>3, <3>1, <3>2
      <3>4. /\ rows' \in Seq(Nat) /\ Len(rows') = Len(rows) - 1
            /\ \A j \in 1..(Len(rows) - 1) : rows'[j] = rows[j + 1]
        BY <1>3, <3>2
      <3>5. rows[1] = sel[Len(output) + 1]
        BY <3>1, <3>2
      <3>6. \A j \in 1..Len(output') : output'[j] = sel[j]
        <4> TAKE j \in 1..Len(output')
        <4>1. j \in 1..Len(output) \/ j = Len(output) + 1
          BY <3>3
        <4> QED
          BY <4>1, <3>1, <3>3, <3>5
      <3>7. \A j \in 1..Len(rows') : rows'[j] = sel[Len(output') + j]
        <4> TAKE j \in 1..Len(rows')
        <4>1. j \in 1..(Len(rows) - 1) /\ j + 1 \in 1..Len(rows)
          BY <3>2, <3>4
        <4>2. rows'[j] = sel[Len(output) + (j + 1)]
          BY <3>1, <3>4, <4>1
        <4>3. Len(output) + (j + 1) = Len(output') + j
          BY <3>3
        <4> QED
          BY <4>2, <4>3
      <3>8. Len(output') + Len(rows') = Len(sel)
        <4>1. Len(output') = Len(output) + 1 /\ Len(rows') = Len(rows) - 1
          BY <3>3, <3>4
        <4>2. /\ Len(output) + Len(rows) = Len(sel)
              /\ Len(output) \in Nat /\ Len(rows) \in Nat
          BY <3>1, <3>2, <3>3
        <4> QED
          BY <4>1, <4>2
      <3>9. opts' = opts /\ count' = count /\ status' = None /\ pc' = "emit"
        BY <1>1, <1>3
      <3>10. /\ status' # "ok"
             /\ ~(pc' \in {"run", "args", "checks"} \/ status' \in {"usage", "plan"})
        BY <3>9, CommandLineAssumption
      <3>11. sel = Sel(opts'.worker, count') /\ opts' \in Options /\ count' \in Nat
        BY <1>2, <3>9 DEF sel, RowsInv
      <3> QED
        BY <3>3, <3>4, <3>6, <3>7, <3>8, <3>10, <3>11 DEF RowsInv
    <2> QED
      BY <2>1, <2>2 DEF CommandInv
  <1>4. CASE /\ rows = <<>> /\ pc' = "exit" /\ status' = "ok"
             /\ UNCHANGED <<command, given, opts, planned>>
    <2>1. count' = count /\ rows' = rows /\ output' = output /\ opts' = opts
      BY <1>4 DEF planned
    <2>2. StageInv'
      BY <1>4, CommandLineAssumption DEF StageInv
    <2>3. ReadInv' /\ CheckedInv' /\ RefusedInv'
      BY <1>4 DEF ReadInv, CheckedInv, RefusedInv, Accepted
    <2>4. RowsInv'
      BY <1>2, <1>4, <2>1 DEF RowsInv
    <2> QED
      BY <2>2, <2>3, <2>4 DEF CommandInv
  <1>5. CASE main_fails("write") /\ UNCHANGED given
    <2>1. /\ pc' = "exit" /\ status' = "write" /\ given' = given /\ opts' = opts
          /\ command' = command /\ count' = count /\ rows' = rows /\ output' = output
      BY <1>5 DEF main_fails, planned
    <2>2. StageInv'
      BY <2>1, CommandLineAssumption DEF StageInv
    <2>3. ReadInv' /\ CheckedInv' /\ RefusedInv'
      BY <1>1, <1>2, <2>1 DEF ReadInv, CheckedInv, RefusedInv, WindowWithoutWindowed
    <2>4. RowsInv'
      BY <1>2, <2>1 DEF RowsInv
    <2> QED
      BY <2>2, <2>3, <2>4 DEF CommandInv
  <1> QED
    BY <1>3, <1>4, <1>5 DEF emit_indexed_chunks
------------------------------------------------------------------------------
(* A step that changes nothing. *)
LEMMA StutterKeeps == CommandInv /\ UNCHANGED vars => CommandInv'
BY DEF vars, CommandInv, StageInv, ReadInv, CheckedInv, RefusedInv, RowsInv, Accepted,
       WindowWithoutWindowed, Grammatical, Viable, Asked, Occurrences, Parsed

(* A command that has read no argument satisfies the invariant. *)
LEMMA InitInv == Init => CommandInv
  <1> SUFFICES ASSUME Init PROVE CommandInv
    OBVIOUS
  <1>1. /\ pc = "run" /\ given = <<>> /\ opts = Defaults /\ count = 0
        /\ rows = <<>> /\ output = <<>> /\ status = None
    BY DEF Init
  <1>2. opts \in Options /\ opts.worker = None
    BY <1>1 DEF Defaults, Options
  <1>3. StageInv /\ ReadInv /\ CheckedInv /\ RefusedInv
    BY <1>1, CommandLineAssumption DEF StageInv, ReadInv, CheckedInv, RefusedInv, Accepted
  <1>4. RowsInv
    <2>1. Len(Sel(opts.worker, 0)) = 0
      BY <1>2, SelTyped
    <2> QED
      BY <1>1, <1>2, <2>1, CommandLineAssumption DEF RowsInv
  <1> QED
    BY <1>3, <1>4 DEF CommandInv

(* Every step of the parser, the planner and the writer keeps it. *)
LEMMA NextKeeps == CommandInv /\ [Next]_vars => CommandInv'
  <1> SUFFICES ASSUME CommandInv, [Next]_vars PROVE CommandInv'
    OBVIOUS
  <1>1. CASE run
    BY <1>1, RunKeeps
  <1>2. ASSUME pc = "args", CommandHelp PROVE CommandInv'
    BY <1>2, HelpKeeps DEF CommandHelp
  <1>3. ASSUME pc = "args", ArgumentsEnd PROVE CommandInv'
    <2>1. pc' = "checks" /\ UNCHANGED <<command, given, opts, planned, status>>
      BY <1>3 DEF ArgumentsEnd
    <2>2. Reading(given', opts', command')
      BY <1>3, <2>1 DEF CommandInv, ReadInv
    <2> QED
      BY <1>3, <2>1, <2>2, StoredKeeps
  <1>4. CASE run_partition
    <2>1. CASE pc = "args"
      <3>1. command = "partition"
        BY <1>4 DEF run_partition
      <3>2. \/ SharedOption \/ CommandHelp \/ ArgumentsEnd \/ UnexpectedOption("-x")
            \/ \E value \in Values : WorkerOption(value)
            \/ \E name \in FileNames : OneFile(name)
        BY <1>4, <2>1 DEF run_partition
      <3> QED
        BY <2>1, <3>1, <3>2, <1>2, <1>3, SharedOptionKeeps, UnexpectedKeeps, WorkerKeeps, FileKeeps
    <2>2. CASE pc = "checks" /\ PartitionChecks
      BY <1>4, <2>2, ChecksKeep DEF run_partition
    <2> QED
      BY <1>4, <2>1, <2>2 DEF run_partition
  <1>5. CASE run_partition_files
    <2>1. CASE pc = "args"
      <3>1. command = "partition-files"
        BY <1>5 DEF run_partition_files
      <3>2. \/ SharedOption \/ CommandHelp \/ ArgumentsEnd
            \/ \E name \in {"-x", "--worker"} : UnexpectedOption(name)
            \/ \E name \in FileNames : AnotherFile(name)
        BY <1>5, <2>1 DEF run_partition_files
      <3> QED
        BY <2>1, <3>1, <3>2, <1>2, <1>3, SharedOptionKeeps, UnexpectedKeeps, FileKeeps
    <2>2. CASE pc = "checks" /\ PartitionFilesChecks
      BY <1>5, <2>2, ChecksKeep DEF run_partition_files
    <2> QED
      BY <1>5, <2>1, <2>2 DEF run_partition_files
  <1>6. CASE emit_indexed_chunks
    BY <1>6, EmitKeeps
  <1>7. CASE UNCHANGED vars
    BY <1>7, StutterKeeps
  <1> QED
    BY <1>1, <1>4, <1>5, <1>6, <1>7 DEF Next, Exit

(* The inductive invariant: the locals are what the grammar makes of the   *)
(* arguments read so far, and stdout with the rows still to be written are *)
(* the rows selected from the plan.                                        *)
THEOREM CommandInvariant == Spec => []CommandInv
  <1>1. Init => CommandInv
    BY InitInv
  <1>2. CommandInv /\ [Next]_vars => CommandInv'
    BY NextKeeps
  <1> QED
    BY <1>1, <1>2, PTL DEF Spec

(* For every set of tokens and every argument list, of any length and      *)
(* order: the argument loops, the checks and the dispatch of               *)
(* mmap-chunker.rs accept exactly the sentences of the usage grammar, with *)
(* the values they give.                                                   *)
THEOREM GrammarIsDecided == Spec => []GrammarDecides
  <1>1. CommandInv => GrammarDecides
    <2> SUFFICES ASSUME CommandInv PROVE GrammarDecides
      OBVIOUS
    <2>1. Accepted => Reading(given, opts, command)
      BY DEF CommandInv, ReadInv
    <2>2. Accepted => /\ Grammatical
                      /\ opts.parts = Asked({"--parts"}, None)
                      /\ opts.worker = Asked({"--worker"}, None)
                      /\ opts.source = Asked({"--source"}, "mmap")
                      /\ opts.window = Asked({"--window"}, None)
                      /\ opts.delimiter = Asked(DelimiterNames, <<10>>)
                      /\ Len(opts.files) = Cardinality(Occurrences({"FILE"}))
      BY <2>1, ChecksDecide DEF CommandInv, CheckedInv
    <2>3. status = "usage" => ~Grammatical
      BY DEF CommandInv, RefusedInv
    <2>4. pc \in {"args", "checks"} => Viable
      BY ChecksDecide DEF CommandInv, ReadInv
    <2> QED
      BY <2>2, <2>3, <2>4, Zenon DEF GrammarDecides, Accepted, DelimiterNames
  <1> QED
    BY <1>1, CommandInvariant, PTL

(* For every plan: what emit_indexed_chunks has written is a gapless       *)
(* prefix of the selected rows, all of them on success, and nothing when   *)
(* the command line or the planner failed.                                 *)
THEOREM RowsAreAllOrNothing == Spec => []AllOrNothing
  <1>1. CommandInv => AllOrNothing
    <2> SUFFICES ASSUME CommandInv PROVE AllOrNothing
      OBVIOUS
    <2> DEFINE w == opts.worker  sel == Sel(w, count)
               wanted == IF w = None THEN {i \in 0..count : i < count}
                         ELSE {i \in {w} : i < count}
    <2>1. w \in Nat \cup {None} /\ count \in Nat
      BY DEF CommandInv, RowsInv, Options
    <2>2. /\ output \in Seq(Nat) /\ rows \in Seq(Nat)
          /\ Len(output) + Len(rows) = Len(sel)
          /\ \A j \in 1..Len(output) : output[j] = sel[j]
      BY DEF CommandInv, RowsInv
    <2>3. DOMAIN output = 1..Len(output) /\ Len(output) \in Nat /\ Len(output) <= Len(sel)
      <3> HIDE DEF sel
      <3> QED
        BY <2>2
    <2>4. /\ w = None => Len(sel) = count /\ \A j \in 1..count : sel[j] = j - 1
          /\ w # None => /\ w < count => Len(sel) = 1 /\ sel[1] = w
                         /\ ~(w < count) => Len(sel) = 0
      BY <2>1, SelTyped
    <2>5. status = "ok" => Len(output) = Len(sel)
      <3>1. status = "ok" => rows = <<>>
        BY DEF CommandInv, RowsInv
      <3>2. rows = <<>> => Len(rows) = 0
        OBVIOUS
      <3> HIDE DEF sel
      <3> QED
        BY <2>2, <2>3, <3>1, <3>2
    <2>6. status \in {"usage", "plan"} => output = <<>>
      <3>1. status \in {"usage", "plan"} => count = 0
        BY DEF CommandInv, RowsInv
      <3>2. count = 0 => Len(sel) = 0
        BY <2>1, SelTyped
      <3> HIDE DEF sel
      <3> QED
        BY <2>2, <2>3, <3>1, <3>2
    <2>7. ExitCode = "SUCCESS" => status = "ok"
      BY DEF ExitCode
    <2> HIDE DEF sel, w
    <2>8. CASE w = None
      <3>1. wanted = 0..(count - 1)
        BY <2>1, <2>8
      <3>2. \A j \in DOMAIN output : output[j] = j - 1 /\ j \in 1..count
        BY <2>1, <2>2, <2>3, <2>4, <2>8
      <3>3. Cardinality(0..(count - 1)) = count
        BY <2>1, FS_Interval
      <3>4. {output[j] : j \in DOMAIN output} \subseteq wanted
        <4>1. \A j \in DOMAIN output : output[j] \in 0..(count - 1)
          BY <2>1, <3>2
        <4> QED
          BY <3>1, <4>1, Zenon
      <3>5. \A i, j \in DOMAIN output : i < j => output[i] < output[j]
        BY <2>3, <3>2
      <3>6. ASSUME NEW j \in DOMAIN output, NEW i \in wanted, i < output[j]
            PROVE  \E k \in 1..j : output[k] = i
        <4>1. i \in Nat /\ i + 1 \in 1..j /\ i + 1 \in DOMAIN output
          BY <2>1, <2>3, <3>1, <3>2, <3>6
        <4>2. output[i + 1] = i
          BY <3>2, <4>1
        <4> QED
          BY <4>1, <4>2
      <3>7. status = "ok" => Len(output) = Cardinality(wanted)
        <4>1. Cardinality(wanted) = count
          BY <3>1, <3>3, Zenon
        <4> QED
          BY <2>4, <2>5, <2>8, <4>1
      <3> QED
        BY <2>6, <2>7, <3>4, <3>5, <3>6, <3>7 DEF AllOrNothing, w
    <2>9. CASE w # None
      <3>1. w \in Nat
        BY <2>1, <2>9
      <3>2. CASE w < count
        <4>1. wanted = {w}
          BY <2>9, <3>2
        <4>2. \A j \in DOMAIN output : output[j] = w /\ j = 1
          <5>1. Len(sel) = 1 /\ sel[1] = w
            BY <2>4, <2>9, <3>2
          <5>2. \A j \in DOMAIN output : j = 1 /\ output[j] = sel[j]
            BY <2>2, <2>3, <5>1
          <5> QED
            BY <5>1, <5>2
        <4>3. status = "ok" => Len(output) = Cardinality(wanted)
          <5>1. Cardinality(wanted) = 1
            BY <4>1, FS_Singleton
          <5> QED
            BY <2>4, <2>5, <2>9, <3>2, <5>1
        <4>4. {output[j] : j \in DOMAIN output} \subseteq wanted
          BY <4>1, <4>2
        <4>5. \A i, j \in DOMAIN output : i < j => output[i] < output[j]
          BY <4>2
        <4>6. ASSUME NEW j \in DOMAIN output, NEW i \in wanted, i < output[j]
              PROVE  \E k \in 1..j : output[k] = i
          BY <3>1, <4>1, <4>2, <4>6
        <4> QED
          BY <2>6, <2>7, <4>3, <4>4, <4>5, <4>6 DEF AllOrNothing, w
      <3>3. CASE ~(w < count)
        <4>1. wanted = {}
          BY <2>9, <3>3
        <4>2. DOMAIN output = {} /\ Len(output) = 0
          BY <2>3, <2>4, <2>9, <3>3
        <4>3. Cardinality(wanted) = 0
          BY <4>1, FS_EmptySet
        <4>4. {output[j] : j \in DOMAIN output} \subseteq wanted
          BY <4>2
        <4> QED
          BY <2>6, <4>1, <4>2, <4>3, <4>4 DEF AllOrNothing, w
      <3> QED
        BY <3>2, <3>3
    <2> QED
      BY <2>8, <2>9
  <1> QED
    BY <1>1, CommandInvariant, PTL
==========================================================================
