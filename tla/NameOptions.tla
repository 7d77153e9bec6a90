----------------------------- MODULE NameOptions -----------------------------
(***************************************************************************)
(* How libDAI makes an inference algorithm from a name with options, such as *)
(* BP[tol=1e-9,updates=SEQMAX] (src/alldai.cpp, src/properties.cpp,          *)
(* include/dai/properties.h): sets of properties as texts, nested in one     *)
(* another, and aliases, which stand for a name with options, that may be an *)
(* alias again.                                                            *)
(*                                                                         *)
(* A text is a sequence of tokens: brackets, commas, equal signs, and words. *)
(* A PropertySet is a function from keys to texts.                          *)
(***************************************************************************)
EXTENDS Integers, FiniteSetsExt, SequencesExt, Functions, TLC

CONSTANTS
    AliasNames, Algorithms,  \* the names that may be aliases, and those of algorithms
    Keys,
    MaxSteps                 \* bound: aliases that are followed

VARIABLES
    aliases,  \* the aliases file, name to text
    name, opts,
    looped,
    origins   \* history: the options of the texts met so far

optionVars == <<aliases, name, opts, looped, origins>>

(* operator<< of a PropertySet.                                            *)
Written(ps) ==
    LET keys == SetToSeq(DOMAIN ps)
        pairs == [k \in DOMAIN keys |-> (IF k = 1 THEN << >> ELSE <<",">>) \o <<keys[k], "=">> \o ps[keys[k]]]
    IN  <<"[">> \o FlattenSeq(pairs) \o <<"]">>

(* The level of brackets at which position `at' is, counted from `start'.    *)
Level(text, start, at) ==
    LET number(token) == Cardinality({n \in start .. at : text[n] = token})
    IN  number("[") - number("]")

(* Up to the comma that is not within brackets, or the last bracket.         *)
ValueEnd(text, start, N) ==
    Min({n \in start .. N : text[n] = "," /\ Level(text, start, n) = 0} \cup {N + 1})

(* operator>>: values stay texts.  A key that comes twice has the last value.*)
(* The set is empty for a text that is malformed.                           *)
Readings(text) ==
    LET N == Len(text) - 1
        rest[start \in 2 .. N + 2] ==
            LET keyEnd == Min({n \in start + 1 .. N : text[n] = "="} \cup {N + 1})
                end == ValueEnd(text, keyEnd + 1, N)
                value == SubSeq(text, keyEnd + 1, end - 1)
            IN  CASE start > N -> {<< >>}
                  [] keyEnd = N + 1 \/ Level(text, keyEnd + 1, end - 1) # 0 -> {}
                  [] OTHER -> {ps @@ (text[start] :> value) : ps \in rest[end + 1]}
    IN  IF N < 1 \/ text[1] # "[" \/ text[N + 1] # "]" THEN {} ELSE rest[2]

Read(text) == CHOOSE ps \in Readings(text) : TRUE

(* parseNameProperties without aliases.                                     *)
NameOf(text) == text[1]

OptsOf(text) == IF Len(text) = 1 THEN << >> ELSE Read(Tail(text))

(* Mutant of Set: new properties are only added.                            *)
SetIfNew(ps, newProps) == ps @@ newProps

(* PropertySet::set: new properties override.                               *)
Set(ps, newProps) == newProps @@ ps

-----------------------------------------------------------------------------
(* Options that tell where they come from; one of them is itself a set.      *)
OptionsFrom(source, keys) ==
    [k \in keys |-> IF k = "iaopts" THEN Written([l \in {"tol", "verbose"} |-> <<source>>]) ELSE <<source>>]

Texts(source) ==
    {<<n>> : n \in AliasNames \cup Algorithms}
    \cup {<<n>> \o Written(OptionsFrom(source, keys)) : n \in AliasNames \cup Algorithms, keys \in SUBSET Keys}

Init ==
    /\ \E defined \in SUBSET AliasNames :
          aliases \in {f \in [defined -> UNION {Texts(a) : a \in AliasNames}] : \A a \in defined : f[a] \in Texts(a)}
    /\ \E text \in Texts("given") : name = NameOf(text) /\ opts = OptsOf(text) /\ origins = <<OptsOf(text)>>
    /\ looped = FALSE

(* One round of the loop over aliases.  Only a name that stands for itself   *)
(* ends it.                                                                *)
Follow ==
    /\ name \in DOMAIN aliases /\ ~looped
    /\ Len(origins) <= MaxSteps
    /\ name' = NameOf(aliases[name])
    /\ opts' = Set(OptsOf(aliases[name]), opts)
    /\ looped' = (name' = name)
    /\ origins' = Append(origins, OptsOf(aliases[name]))
    /\ UNCHANGED aliases

Next == Follow

-----------------------------------------------------------------------------
(* Names that lead to themselves by way of others.                          *)
Target(a) == NameOf(aliases[a])

CyclesOfTwo == \E a, b \in DOMAIN aliases : a # b /\ Target(a) = b /\ Target(b) = a

(* What is nested in brackets is read back whole; of the options that an      *)
(* algorithm ends up with, the one given first on the way from the name to    *)
(* the algorithm wins over those of the aliases behind it; and the way ends,  *)
(* with as many steps as there are aliases at most, unless two of them lead   *)
(* to each other.                                                          *)
OptionsAreResolved ==
    /\ Readings(Written(opts)) = {opts}
    /\ DOMAIN opts = UNION {DOMAIN origins[n] : n \in DOMAIN origins}
    /\ \A k \in DOMAIN opts :
          LET first == Min({n \in DOMAIN origins : k \in DOMAIN origins[n]})
          IN  opts[k] = origins[first][k]
    /\ Len(origins) - 1 > Cardinality(DOMAIN aliases) => CyclesOfTwo
    /\ looped => Target(name) = name
=============================================================================
