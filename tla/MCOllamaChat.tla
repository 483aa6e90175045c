---------------------------- MODULE MCOllamaChat ----------------------------
(* Instances of OllamaChat for TLC.                                         *)
EXTENDS OllamaChat

Plain(role) == [role |-> role, media |-> {}]
With(role, inline) == [role |-> role, media |-> {[kind |-> "image", base64 |-> inline]}]

(* A prompt that passes, and one for each reason not to: a URL in a later   *)
(* message, and media in the system message.                                *)
MCPrompts == {{Plain("system"), With("user", TRUE)},
              {Plain("user"), With("user", FALSE)},
              {With("system", TRUE), Plain("user")}}

Usual == [status |-> "success", mediaType |-> "json", body |-> "object",
          done |-> "true", error |-> "absent", message |-> "text",
          prompt_eval_count |-> "in_range", eval_count |-> "in_range"]

(* The usual answer, answers that differ from it in one place, and some     *)
(* that two of the checks could claim.                                      *)
MCReplies ==
  {Usual,
   [Usual EXCEPT !.status = "other"],
   [Usual EXCEPT !.status = "other", !.mediaType = "other", !.body = "undecodable"],
   [Usual EXCEPT !.mediaType = "other"],
   [Usual EXCEPT !.body = "undecodable"],
   [Usual EXCEPT !.done = "absent"],
   [Usual EXCEPT !.done = "null"],
   [Usual EXCEPT !.error = "text", !.message = "absent"],
   [Usual EXCEPT !.message = "absent"],
   [Usual EXCEPT !.message = "not_a_string", !.eval_count = "absent"],
   [Usual EXCEPT !.message = "oversize_text"],
   [Usual EXCEPT !.prompt_eval_count = "not_an_integer"]}
=============================================================================
