-------------------------- MODULE TextNormalization --------------------------
(***************************************************************************)
(* normalize.normalize on texts of tokens, and its two uses: on what the   *)
(* recognizer hears (asr.py), which is stored and shown on the page, and   *)
(* again on the stored text when a file is exported (exporters.py).  Each  *)
(* regular expression is a pass whose lookarounds see the text before it.  *)
(***************************************************************************)
EXTENDS Naturals, Sequences, SequencesExt

CONSTANT MaxLength \* bound on the tokens of a text

\* A prefix and a suffix that take a joiner, any other word, one digit of
\* either script, a joiner (ZWNJ), white space, a Persian mark, brackets.
Tokens == {"mi", "ha", "word", "latin", "persian", "joiner", " ", "mark", "(", ")"}

\* What the expressions look for as [U+0600-U+06FF], and as \d.
PersianChars == {"mi", "ha", "word", "persian", "mark"}
Digits == {"latin", "persian"}

\* The n-th token after (or before) token i, "" beyond the ends.
Near(t, i, n) == IF i + n \in DOMAIN t THEN t[i + n] ELSE ""
Before(t, i, n) == IF n < i THEN t[i - n] ELSE ""

\* Every token replaced by the tokens New makes of it at its place.
Pass(t, New(_)) == FlattenSeq([i \in DOMAIN t |-> New(i)])

Replace(t, i, found, by) == IF found THEN by ELSE <<t[i]>>

JoinPrefixes(t) == Pass(t, LAMBDA i :
    Replace(t, i, t[i] = " " /\ Before(t, i, 1) = "mi" /\ Before(t, i, 2) \notin PersianChars
                  /\ Near(t, i, 1) \in PersianChars, <<"joiner">>))

JoinSuffixes(t) == Pass(t, LAMBDA i :
    Replace(t, i, t[i] = " " /\ Before(t, i, 1) \in PersianChars
                  /\ Near(t, i, 1) = "ha" /\ Near(t, i, 2) \notin PersianChars, <<"joiner">>))

TightenMarks(t) == Pass(t, LAMBDA i :
    Replace(t, i, t[i] = " " /\ Near(t, i, 1) \in {"mark", ")"}, <<>>))

TightenOpening(t) == Pass(t, LAMBDA i :
    Replace(t, i, t[i] = " " /\ Before(t, i, 1) = "(", <<>>))

SpaceAfterMarks(t) == Pass(t, LAMBDA i :
    Replace(t, i, t[i] = "mark" /\ Near(t, i, 1) \notin {"", " "} \cup Digits, <<"mark", " ">>))

SingleJoiners(t) == Pass(t, LAMBDA i :
    Replace(t, i, t[i] = "joiner" /\ Before(t, i, 1) = "joiner", <<>>))

DropStrayJoiners(t) == Pass(t, LAMBDA i :
    Replace(t, i, t[i] = "joiner" /\ ({Before(t, i, 1), Near(t, i, 1)} \ PersianChars) # {}, <<>>))

SingleSpaces(t) == Pass(t, LAMBDA i :
    Replace(t, i, t[i] = " " /\ Before(t, i, 1) = " ", <<>>))

PersianDigits(t) == Pass(t, LAMBDA i : Replace(t, i, t[i] = "latin", <<"persian">>))

Strip(t) == Pass(t, LAMBDA i : Replace(t, i, t[i] = " " /\ i \in {1, Len(t)}, <<>>))

Normalize(text) ==
    LET affixes == JoinSuffixes(JoinPrefixes(text))
        marks   == SpaceAfterMarks(TightenOpening(TightenMarks(affixes)))
        joiners == DropStrayJoiners(SingleJoiners(marks))
    IN  Strip(PersianDigits(SingleSpaces(joiners)))

-----------------------------------------------------------------------------
VARIABLES
    heard,    \* what the recognizer heard
    stored,   \* the segment in results/{job}.json, which the page shows
    exported, \* the same segment in a downloaded file
    stage

textVars == <<heard, stored, exported, stage>>

\* str.strip has been there, and a run of white space is one token.
Texts == {t \in UNION {[1 .. n -> Tokens] : n \in 1 .. MaxLength} :
              /\ t[1] # " " /\ t[Len(t)] # " "
              /\ \A i \in DOMAIN t : t[i] = " " => Before(t, i, 1) # " "}

TextInit == heard \in Texts /\ stored = <<>> /\ exported = <<>> /\ stage = "heard"

\* _transcribe_faster_whisper: an empty text makes no segment.
StoreSegment ==
    /\ stage = "heard" /\ Normalize(heard) # <<>>
    /\ stored' = Normalize(heard) /\ stage' = "stored"
    /\ UNCHANGED <<heard, exported>>

ExportSegment ==
    /\ stage = "stored"
    /\ exported' = Normalize(stored) /\ stage' = "exported"
    /\ UNCHANGED <<heard, stored>>

TextNext == StoreSegment \/ ExportSegment

TextSpec == TextInit /\ [][TextNext]_textVars

\* The file says what the page says: normalizing once more changes nothing.
\* (asr.py and tests/test_normalize.py say so; "20 ام" refutes it: the digits
\* become Persian after the suffixes were joined, so only the second run sees a
\* Persian character before the suffix.)
ScreenMatchesFile == stage = "exported" => exported = stored
=============================================================================
