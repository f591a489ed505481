-------------------------------- MODULE Evidence --------------------------------
(***************************************************************************)
(* When the body of a model's answer proves that the model works           *)
(* (core/protocol_base.py). A text is what the code tells apart in it:     *)
(* words outside a think block, and a think block. A body is what is left  *)
(* of the JSON after the type tests.                                       *)
(***************************************************************************)
EXTENDS Naturals, SequencesExt

(* _strip_think_blocks, _has_think_blocks: a text with neither is empty    *)
Texts == [words : BOOLEAN, think : BOOLEAN]
Nothing == [words |-> FALSE, think |-> FALSE]

(* _content_as_text: the texts of all parts, joined                        *)
Joined(texts) == [words |-> \E i \in DOMAIN texts : texts[i].words,
                  think |-> \E i \in DOMAIN texts : texts[i].think]

Verdict(visible, reasoning, truncated) ==
  [ok |-> visible \/ reasoning, visible |-> visible,
   reasoning |-> reasoning /\ ~visible, truncated |-> truncated]
Invalid == Verdict(FALSE, FALSE, FALSE)

(* _evidence_openai_chat. A choice that is no object is passed over; its   *)
(* message has a content and may have a separate reasoning.                *)
ChatChoices == [object : BOOLEAN, content : Texts, reasoning : BOOLEAN, cut : BOOLEAN]
Reasons(c) == c.content.think \/ c.reasoning
Speaks(c) == c.object /\ (c.content.words \/ Reasons(c))

ChatFirstOnly(choices) ==
  IF choices # <<>> /\ Speaks(choices[1])
  THEN Verdict(choices[1].content.words, Reasons(choices[1]), choices[1].cut)
  ELSE Invalid
Chat(choices) ==
  LET i == SelectInSeq(choices, Speaks) IN
  IF i # 0
  THEN Verdict(choices[i].content.words, Reasons(choices[i]), choices[i].cut)
  ELSE Verdict(FALSE, FALSE, \E j \in DOMAIN choices : choices[j].object /\ choices[j].cut)

(* _evidence_openai_responses: output_text, and items with a content and a *)
(* reasoning or summary, whose text counts as visible unless in a block    *)
Items == [content : Texts, reasoning : Texts]
Responses(text, items, incomplete) ==
  LET all == Joined(<<text>> \o [i \in DOMAIN items |-> items[i].content]
                             \o [i \in DOMAIN items |-> items[i].reasoning])
      separate == \E i \in DOMAIN items : items[i].reasoning # Nothing
  IN  Verdict(all.words, separate \/ all.think, incomplete)

(* _evidence_anthropic: blocks of type text, of a thinking type, or others *)
Blocks == [type : {"text", "thinking", "other"}, text : Texts]
Messages(blocks, cut) ==
  LET Of(type) == {i \in DOMAIN blocks : blocks[i].type = type /\ blocks[i].text # Nothing}
  IN  Verdict(\E i \in Of("text") : blocks[i].text.words,
              Of("thinking") # {} \/ \E i \in Of("text") : blocks[i].text.think, cut)
================================================================================
