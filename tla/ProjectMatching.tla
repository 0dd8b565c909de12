--------------------------- MODULE ProjectMatching ---------------------------
(* The project classifier: classification/rules.py (which rule sets are valid),   *)
(* loader.py (which one a run has), matcher.py (the projects a text names),       *)
(* alias_classifier.py and chain.py (the tag). A text and an alias are sequences  *)
(* of atoms as in TextRedaction; nl is a line break and nul the join of fields.   *)
EXTENDS Integers, Sequences, FiniteSets, SequencesExt, FiniteSetsExt, Positions

Unknown == "unknown"

Whitespace == {" ", "nl"}

\* What ends, and what begins, with a character that a word is made of: a call ends
\* with its parenthesis.
WordAtoms == {"f", "F", "g", "-", "t", "u", "s", "str", "Secret", "key"}
Openings == WordAtoms \cup {"call"}

Fold(atoms) == [k \in DOMAIN atoms |-> IF atoms[k] = "F" THEN "f" ELSE atoms[k]]

\* alias_key: folded, runs of whitespace collapsed, ends trimmed.
AliasKey(atoms) ==
    LET Inner(k) == atoms[k] \notin Whitespace
        Keeps(k) == /\ ~Inner(k) /\ k > 1 /\ Inner(k - 1)
                    /\ \E j \in k + 1 .. Len(atoms) : Inner(j)
        left == Ascending({k \in DOMAIN atoms : Inner(k) \/ Keeps(k)})
    IN  Fold([n \in DOMAIN left |-> IF Inner(left[n]) THEN atoms[left[n]] ELSE " "])

----------------------------------------------------------------------------
(* ProjectRule and ProjectRuleSet *)

ProjectRule == [project : STRING, aliases : SUBSET Seq(STRING), priority : Int]

RuleValid(rule) ==
    /\ rule.project # Unknown
    /\ rule.aliases # {}
    /\ \A alias \in rule.aliases : \E k \in DOMAIN alias : alias[k] \in WordAtoms \ {"-"}

RuleSetValid(rules) ==
    /\ \A i \in DOMAIN rules : RuleValid(rules[i])
    /\ \A i, j \in DOMAIN rules : i # j =>
          /\ rules[i].project # rules[j].project
          /\ \A a \in rules[i].aliases, b \in rules[j].aliases : AliasKey(a) # AliasKey(b)

\* load_project_rules: what lies at the path is [state, rules, required]. An absent
\* file is an empty rule set, unless the path was configured.
Loads(file) ==
    \/ file.state = "absent" /\ ~file.required
    \/ file.state = "document" /\ RuleSetValid(file.rules)

RulesOf(file) == IF file.state = "document" THEN file.rules ELSE <<>>

----------------------------------------------------------------------------
(* AliasMatcher *)

Keys(rules) == UNION {{AliasKey(a) : a \in rules[i].aliases} : i \in DOMAIN rules}

\* The project of an alias; a later declaration of the same key replaces it.
ProjectOf(rules, key) ==
    rules[Max({i \in DOMAIN rules : \E a \in rules[i].aliases : AliasKey(a) = key})].project

\* The alias occurs from p to e: its words apart by any whitespace, each edge that
\* is a word character at the end of a word.
OccursAt(text, key, p, e) ==
    /\ Head(key) \in Openings => p = 1 \/ text[p - 1] \notin WordAtoms
    /\ Last(key) \in WordAtoms => e = Len(text) \/ text[e + 1] \notin Openings
    /\ text[p] \notin Whitespace /\ text[e] \notin Whitespace
    /\ AliasKey(SubSeq(text, p, e)) = key

EndsOf(text, key, p) == {e \in p .. Len(text) : OccursAt(text, key, p, e)}

\* finditer over the alternation of the aliases, longest first.
ProjectsNamed(rules, text) ==
    LET From[p \in 1 .. Len(text) + 1] ==
            IF p > Len(text) THEN {}
            ELSE LET here == {key \in Keys(rules) : EndsOf(text, key, p) # {}} IN
                 IF here = {} THEN From[p + 1]
                 ELSE LET key == CHOOSE k \in here : \A other \in here : Len(other) <= Len(k)
                      IN  {ProjectOf(rules, key)} \cup From[Max(EndsOf(text, key, p)) + 1]
    IN  From[1]

----------------------------------------------------------------------------
(* AliasProjectClassifier and ChainedProjectClassifier *)

PriorityOf(rules, project) == rules[CHOOSE i \in DOMAIN rules : rules[i].project = project].priority

\* The highest priority wins, and a tie at the top does not.
Resolve(rules, named) ==
    LET highest == Max({PriorityOf(rules, p) : p \in named})
        tied == {p \in named : PriorityOf(rules, p) = highest}
    IN  IF Cardinality(tied) > 1 THEN Unknown ELSE CHOOSE p \in tied : TRUE

ClassifyText(rules, text) ==
    LET named == ProjectsNamed(rules, text) IN
    IF named = {} THEN Unknown ELSE Resolve(rules, named)

\* Mutant: joined by a line break.
JoinByLine(parts) ==
    FlattenSeq([k \in DOMAIN parts |-> IF k = 1 THEN parts[k] ELSE <<"nl">> \o parts[k]])

\* The parts of a conversation that are not None, apart by a join no alias crosses.
Join(parts) ==
    FlattenSeq([k \in DOMAIN parts |-> IF k = 1 THEN parts[k] ELSE <<"nul">> \o parts[k]])

\* The first classifier that has an answer, and no later one, decides.
Chained(classifiers, parts) ==
    LET answered == {n \in DOMAIN classifiers : ClassifyText(classifiers[n], Join(parts)) # Unknown}
    IN  IF answered = {} THEN Unknown ELSE ClassifyText(classifiers[Min(answered)], Join(parts))

----------------------------------------------------------------------------
(* What a tag may rest on *)

\* Where an alias of the rule set stands, in one field.
Occurrences(rules, field) ==
    {[project |-> ProjectOf(rules, at[1]), first |-> at[2], last |-> at[3]] :
        at \in {o \in Keys(rules) \X (DOMAIN field) \X (DOMAIN field) :
                             o[2] <= o[3] /\ OccursAt(field, o[1], o[2], o[3])}}

\* Projects that stand in some field, and those that stand in one where no other
\* alias begins before and reaches in, or begins with it and is longer.
Standing(rules, parts) == UNION {{o.project : o \in Occurrences(rules, parts[k])} : k \in DOMAIN parts}

StandingFirst(rules, parts) ==
    UNION {{o.project : o \in
              {c \in Occurrences(rules, parts[k]) :
                  \A d \in Occurrences(rules, parts[k]) :
                      ~(d.first < c.first /\ c.first <= d.last) /\ (d.first = c.first => d.last <= c.last)}} :
           k \in DOMAIN parts}
=============================================================================
