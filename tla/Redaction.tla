----------------------------- MODULE Redaction -----------------------------
(***************************************************************************)
(* Secrets in what people and agents say, and in what agents read.  The    *)
(* detectors are applied one after the other, each to the text the one     *)
(* before it left, placeholders included.  A turn is redacted before       *)
(* anything is made of it; of a result that was read only the kinds of its *)
(* secrets are kept.                                                       *)
(*                                                                         *)
(* A text is a sequence of words with space between them.  A word stands   *)
(* bare, is assigned (KEY=word) or is the password of a URL; the lines     *)
(* around a private key are words too.  What a pattern matches is told by  *)
(* the value of a word; the entropy of a blob is high.                     *)
(***************************************************************************)
EXTENDS Naturals, Sequences, SequencesExt, FiniteSets, FiniteSetsExt, Places

CONSTANTS
  Value,        \* values of words: "short" has less than six characters
  UserPattern,  \* values that a user's pattern matches
  MaxText       \* bound on the words of a text

ASSUME RedactionAssumption ==
  /\ MaxText \in Nat
  /\ Value \subseteq {"jwt", "anthropic_key", "openai_key", "aws_access_key", "blob",
                      "plain", "short"}

\* builtin_detectors: the most specific first.
Builtin ==
  <<"private_key", "jwt", "anthropic_key", "openai_key", "aws_access_key", "url_credentials",
    "env_secret", "high_entropy">>

Token(frame, value) == [frame |-> frame, value |-> value, mark |-> "none"]
Placeholder(word, kind) == [word EXCEPT !.value = "mark", !.mark = kind]
Block == Placeholder(Token("bare", "mark"), "private_key")

Tokens ==
  {Token(frame, value) : frame \in {"bare", "assign", "url"}, value \in Value} \cup
  {Token("begin", "none"), Token("end", "none")}

VARIABLES
  config,   \* the redactor: [builtin, excluded], whether it has the builtin detectors, and
            \* whether a glob excludes the session
  turn,     \* a turn of a session: [prompt, answer, result], texts
  outcome    \* what is kept of it: [summary, kinds, redactions], or nothing yet

redactionVars == <<config, turn, outcome>>

NothingStored == [done |-> FALSE, summary |-> <<>>, kinds |-> {}, redactions |-> 0]

\* Redactor::new: the builtin detectors unless they are disabled, the user's patterns in
\* any case, and the globs that exclude sessions by their directory.
Redactor(disabled, excluded) == [builtin |-> ~disabled, excluded |-> excluded]

\* from_env: the three variables are independent of each other.
FromEnv == {Redactor(disabled, excluded) : disabled \in BOOLEAN, excluded \in BOOLEAN}

RedactionInit ==
  /\ config \in FromEnv
  /\ config.excluded => config.builtin   \* of an excluded session nothing is looked at
  /\ \E n \in 0..MaxText, part \in {"prompt", "answer", "result"} :
       \E text \in [1..n -> Tokens] :
         turn = [p \in {"prompt", "answer", "result"} |-> IF p = part THEN text ELSE <<>>]
  /\ outcome = NothingStored

\* One of the initial states: nothing was said.
RedactionAtRest ==
  /\ config = Redactor(FALSE, FALSE)
  /\ turn = [p \in {"prompt", "answer", "result"} |-> <<>>]
  /\ outcome = NothingStored

-----------------------------------------------------------------------------
Detectors == (IF config.builtin THEN Builtin ELSE <<>>) \o <<"user_pattern">>

\* What the pattern of a detector matches in one word.
Matches(kind, word) ==
  CASE kind = "openai_key" -> word.value \in {"openai_key", "anthropic_key"}
    [] kind = "url_credentials" -> word.frame = "url"
    [] kind = "env_secret" -> word.frame = "assign" /\ word.value # "short"
    [] kind = "high_entropy" -> word.value = "blob"
    [] kind = "user_pattern" -> word.value \in UserPattern
    [] OTHER -> word.value = kind

EndsAfter(text, i) == {j \in DOMAIN text : j > i /\ text[j].frame = "end"}

\* A private key goes from its first line to the nearest last line.
ReplaceBlocks(text) ==
  LET from[i \in 1..Len(text) + 1] ==
        IF i > Len(text) THEN <<>>
        ELSE IF text[i].frame = "begin" /\ EndsAfter(text, i) # {}
          THEN <<Block>> \o from[Min(EndsAfter(text, i)) + 1]
          ELSE <<text[i]>> \o from[i + 1]
  IN  from[1]

Replace(kind, text) ==
  IF kind = "private_key" THEN ReplaceBlocks(text)
  ELSE [i \in DOMAIN text |->
          IF Matches(kind, text[i]) THEN Placeholder(text[i], kind) ELSE text[i]]

Blocks(text) == {i \in DOMAIN text : text[i] = Block}

Count(kind, text) ==
  IF kind = "private_key" THEN Cardinality(Blocks(ReplaceBlocks(text))) - Cardinality(Blocks(text))
  ELSE Cardinality({i \in DOMAIN text : Matches(kind, text[i])})

\* apply: the text a detector leaves, and one event of its kind per replacement.
Apply(found, kind) ==
  [text |-> Replace(kind, found.text),
   events |-> found.events \o [k \in 1..Count(kind, found.text) |-> kind]]

\* Variant with a fault: every detector starts from the original text.
ScanOriginal(text) ==
  LET after[d \in 0..Len(Detectors)] ==
        IF d = 0 THEN [text |-> text, events |-> <<>>]
        ELSE Apply([after[d - 1] EXCEPT !.text = text], Detectors[d])
  IN  after[Len(Detectors)]

\* scan: what each detector finds in what the ones before it have left.
Scan(text) ==
  LET after[d \in 0..Len(Detectors)] ==
        IF d = 0 THEN [text |-> text, events |-> <<>>]
        ELSE Apply(after[d - 1], Detectors[d])
  IN  after[Len(Detectors)]

ScanKinds(text) == Range(Scan(text).events)

\* redact_turn_audited, then ingest_turn; a summary may quote all it is made of.
IngestTurn ==
  /\ ~outcome.done
  /\ ~config.excluded
  /\ LET prompt == Scan(turn.prompt)
         answer == Scan(turn.answer)
     IN  outcome' = [done |-> TRUE, summary |-> prompt.text \o answer.text,
                    kinds |-> ScanKinds(turn.result),
                    redactions |-> Len(prompt.events) + Len(answer.events)]
  /\ UNCHANGED <<config, turn>>

RedactionNext == IngestTurn

RedactionSpec == RedactionInit /\ [][RedactionNext]_redactionVars

-----------------------------------------------------------------------------
\* Words of the original text that some detector recognises, or that are in a block.
InBlock(text, i) ==
  /\ config.builtin
  /\ \E b \in 1..i : /\ text[b].frame = "begin" /\ EndsAfter(text, b) # {}
                     /\ Min(EndsAfter(text, b)) >= i

Recognised(text, i) ==
  InBlock(text, i) \/ \E k \in Range(Detectors) \ {"private_key"} : Matches(k, text[i])

FirstToMatch(word) ==
  Detectors[Min({k \in DOMAIN Detectors :
                   Detectors[k] # "private_key" /\ Matches(Detectors[k], word)})]

\* "A tier-0 secret can never be persisted in clear", and placeholders "preserve the
\* surrounding text": what a summary is made of holds, apart from placeholders, exactly
\* the words of the turn that no detector recognises there, in their order; so no
\* detector hides a secret from a later one, or takes what another one left.  Each
\* placeholder is audited.  Of a result that was read the kinds are those of the
\* most specific detector of each secret ("Order matters: most specific / multiline
\* first"), and none where nothing is recognised.
NothingRecognisedStays ==
  outcome.done =>
    LET said == turn.prompt \o turn.answer
        left == outcome.summary
        read == turn.result
    IN  /\ Pick(left, {i \in DOMAIN left : left[i].mark = "none"}) =
             Pick(said, {i \in DOMAIN said : ~Recognised(said, i)})
        /\ Cardinality({i \in DOMAIN left : left[i].mark # "none"}) <= outcome.redactions
        /\ \A i \in DOMAIN read :
             (Recognised(read, i) /\ ~InBlock(read, i)) => FirstToMatch(read[i]) \in outcome.kinds
        /\ "openai_key" \in outcome.kinds => \E i \in DOMAIN read : read[i].value = "openai_key"
        /\ outcome.kinds = {} <=> \A i \in DOMAIN read : ~Recognised(read, i)
=============================================================================
