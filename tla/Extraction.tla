----------------------------- MODULE Extraction -----------------------------
(***************************************************************************)
(* extract_tool_calls (_openai.py) and extract_tool_uses (_anthropic.py):  *)
(* from a provider's answer to the tool calls it makes.  An OpenAI answer  *)
(* is a list of choices; an Anthropic answer is treated as one choice,     *)
(* whose shape is never "absent".                                          *)
(***************************************************************************)
EXTENDS Integers, FiniteSets

CONSTANTS
    Choices,   \* choices of an answer
    Width      \* bound: tool calls of an answer

\* The choices of an answer are a list that was read from its body.
ASSUME ExtractionAssumption == Width \in Nat \ {0} /\ IsFiniteSet(Choices)

\* unreadable: no message, or content that is no list; absent: the field with
\* the tool calls is no list.  A choice declares tool calls with its finish or
\* stop reason.  It is malformed if one of its tool calls has another type, no
\* id or name, or arguments that cannot be read.
Choice == [shape: {"readable", "absent", "unreadable"}, declared: BOOLEAN,
           calls: 0 .. Width, malformed: BOOLEAN]

Calls(answer) == {p \in Choices \X (1 .. Width) : p[2] <= answer[p[1]].calls}

\* Tool calls that cannot be normalized stand at place 0 of their choice.
Malformed(answer) == {p \in Choices \X {0} : answer[p[1]].malformed}

Answers ==
    {a \in [Choices -> Choice] :
        /\ Cardinality(Calls(a)) <= Width
        /\ \A c \in Choices : a[c].shape # "readable" => a[c].calls = 0 /\ ~a[c].malformed}

\* Mutant: a tool call that cannot be normalized is left out.
SoundSkipping(choice) ==
    /\ choice.shape # "unreadable"
    /\ choice.declared => choice.calls > 0

\* The extractor raises for none of the parts of a choice.
Sound(choice) ==
    /\ choice.shape # "unreadable"
    /\ ~choice.malformed
    /\ choice.declared => choice.calls > 0

\* One choice that cannot be read spoils the whole answer.
Readable(answer) == \A c \in Choices : Sound(answer[c])
=============================================================================
