------------------------------ MODULE Narrator ------------------------------
(***************************************************************************)
(* narrator.py: what narrate_event answers, given the configuration, the   *)
(* news it finds and what the language model does.  Pure operators.        *)
(*                                                                         *)
(* A configuration is [pin, groqKey, anthropicKey, httpx, sdk]: the        *)
(* provider NARRATOR_PROVIDER pins ("auto" for none), which keys are set   *)
(* and which client libraries are installed.                               *)
(* A feed is [up, entries]: did the lookup work, and what it returned: a   *)
(* headline, "untitled" for an entry without a title, "malformed" for one  *)
(* whose content, or whose provider or link beside a title, is no object.  *)
(* A reply is "text", "blank" or "fails".                                  *)
(* A narration is [by, cites, mayName, failed]: generated_by, the sources, *)
(* the headlines its text may refer to, and whether error is set.          *)
(***************************************************************************)
EXTENDS Integers, Sequences

NewsLimit == 5

Considered(feed) ==
    SubSeq(feed.entries, 1,
           IF Len(feed.entries) < NewsLimit THEN Len(feed.entries) ELSE NewsLimit)

Titled(entry) == entry \notin {"untitled", "malformed"}

\* fetch_recent_news; the lookup is guarded, the loop over its result is not.
NewsRaises(feed) ==
    feed.up /\ \E i \in DOMAIN Considered(feed) : Considered(feed)[i] = "malformed"

RecentNews(feed) ==
    IF feed.up THEN SelectSeq(Considered(feed), Titled) ELSE <<>>

ResolveProvider(config) ==
    IF config.pin \in {"groq", "anthropic", "none"} THEN config.pin
    ELSE IF config.groqKey THEN "groq"
    ELSE IF config.anthropicKey /\ config.sdk THEN "anthropic"
    ELSE "none"

\* Is the model asked at all?  A missing key or library raises before that.
Reachable(config, provider) ==
    \/ provider = "groq" /\ config.groqKey /\ config.httpx
    \/ provider = "anthropic" /\ config.anthropicKey /\ config.sdk

\* The two transports: the text they return, or an exception.
Synthesized(config, provider, reply) ==
    IF Reachable(config, provider) THEN reply ELSE "fails"

HasText(text) == text = "text"

NoNews == [by |-> "no-news-found", cites |-> <<>>, mayName |-> <<>>, failed |-> FALSE]

\* Mutant of Cited: the first three of the five headlines in the prompt.
CitedThree(news) == IF Len(news) > 3 THEN SubSeq(news, 1, 3) ELSE news

\* The sources of a narration: everything the prompt or the fallback drew on.
Cited(news) == news

HeadlineFallback(news) ==
    IF news = <<>> THEN NoNews
    ELSE [by |-> "headline-fallback", cites |-> Cited(news),
          mayName |-> <<Head(news)>>, failed |-> FALSE]

ApiTag(provider) == IF provider = "groq" THEN "groq-api" ELSE "anthropic-api"

Raised == [by |-> "exception", cites |-> <<>>, mayName |-> <<>>, failed |-> TRUE]

NarrateEvent(config, feed, reply) ==
    LET news == RecentNews(feed)
        provider == ResolveProvider(config)
    IN  IF NewsRaises(feed) THEN Raised
        ELSE IF provider = "none" THEN HeadlineFallback(news)
        ELSE IF news = <<>> THEN NoNews
        ELSE IF HasText(Synthesized(config, provider, reply))
        THEN [by |-> ApiTag(provider), cites |-> Cited(news), mayName |-> news,
              failed |-> FALSE]
        ELSE [HeadlineFallback(news) EXCEPT !.failed = TRUE]
=============================================================================
