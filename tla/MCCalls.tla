------------------------------ MODULE MCCalls ------------------------------
(***************************************************************************)
(* Calls of all eight adapters: every kind of model, the three kinds of    *)
(* timeout, a client with a Timeout of its own, three requests, and        *)
(* answers for each row of the routing tables and each kind of image.      *)
(***************************************************************************)
EXTENDS Calls

Turn(role, text, images) == [role |-> role, text |-> text, images |-> images]
Request(system, turns, limit) == [systemPrompt |-> system, turns |-> turns, limit |-> limit]

Short == Request(NoText, <<Turn("user", "a", <<>>)>>, -1)
Rich == Request("be brief",
                <<Turn("user", NoText, <<"bytes", "nothing", "url">>), Turn("assistant", "b", <<>>),
                  Turn("system", "rule", <<>>), Turn("tool", "c", <<>>),
                  Turn("developer", "e", <<>>), Turn("user", "d", <<"data", "broken", "undecodable">>)>>,
                9)
\* Empty system texts before, between and after others, and a limit that
\* int32 cannot hold.
Rules == Request(NoText,
                 <<Turn("system", NoText, <<>>), Turn("system", "rule", <<>>), Turn("system", NoText, <<>>),
                   Turn("system", "order", <<>>), Turn("system", NoText, <<>>)>>,
                 20)
MCAsked == {Short, Rich, Rules}

Tool(name, keywords) == [name |-> name, keywords |-> keywords]
MCGivenTools == <<Tool("calc", {"type", "properties"}), Tool("search", {"properties", "additionalProperties"})>>
MCEditedTools == <<Tool("other", {"type"}), Tool("search", {})>>

Config(v, model, timeout_, client) ==
  [vendor |-> v, model |-> model, timeout |-> timeout_, client |-> client]
ModelsOf(v) ==
  CASE v = "google" -> Models
    [] v \in {"openai", "minimax", "volcengine"} -> {"chat", "embed", "image"}
    [] v = "ollama" -> {"chat", "embed"}
    [] OTHER -> {"chat"}
MCConfigs ==
  {c \in [vendor : Vendors, model : Models, timeout : {-1, 0, 30}, client : {"none", "timed"}] :
     /\ c.model \in ModelsOf(c.vendor)
     /\ c.client = "timed" => c.timeout = 0 /\ c.model \in {"chat", "image"}}
\* Only the raw methods.
RawConfigs == {c \in MCConfigs : c.vendor = "minimax" /\ c.model = "embed"}

Reply(status, retryAfter, quota, code, blocked, items) ==
  [status |-> status, retryAfter |-> retryAfter, quota |-> quota, code |-> code,
   blocked |-> blocked, items |-> items]
Refused(status) == Reply(status, FALSE, FALSE, 0, FALSE, <<>>)
Ok(code, items) == Reply(200, FALSE, FALSE, code, FALSE, items)
AnItem(b64, url) == [nil |-> FALSE, b64 |-> b64, url |-> url]
NilItem == [nil |-> TRUE, b64 |-> "none", url |-> FALSE]
MCReplies ==
  {Refused(status) : status \in {401, 404, 500, 529}}
    \cup {Reply(429, TRUE, quota, 0, FALSE, <<>>) : quota \in BOOLEAN}
    \cup {Ok(code, <<>>) : code \in {1002, 1004, 2013}}
    \cup {Ok(0, <<>>), Reply(200, FALSE, FALSE, 0, TRUE, <<>>),
          Ok(0, <<AnItem("good", FALSE), AnItem("bad", TRUE), AnItem("none", TRUE)>>),
          Ok(0, <<AnItem("bad", FALSE), NilItem, AnItem("none", TRUE), AnItem("good", TRUE)>>)}
=============================================================================
