------------------------- MODULE OllamaTranslation -------------------------
(***************************************************************************)
(* What chat() makes of the messages it is given and of the answer Ollama  *)
(* gives: pure functions, with no state.                                   *)
(*                                                                         *)
(* A message is its role and its image and audio parts; text always passes.*)
(* A reply is what the checks tell apart: each field is one of the shapes  *)
(* that some check treats differently from the others.                     *)
(***************************************************************************)

Roles == {"user", "assistant", "system"}

(* A part has its bytes inline, or only the URL of them.                    *)
Part == [kind : {"image", "audio"}, base64 : BOOLEAN]

Message == [role : Roles, media : SUBSET Part]

Reply == [status : {"success", "other"},
          mediaType : {"json", "other"},
          body : {"object", "other_json", "undecodable"},
          done : {"absent", "true", "false", "null"},
          error : {"absent", "empty", "text", "not_a_string"},
          message : {"absent", "not_an_object", "without_content", "text",
                     "oversize_text", "not_a_string"},
          prompt_eval_count : {"absent", "in_range", "out_of_range", "not_an_integer"},
          eval_count : {"absent", "in_range", "out_of_range", "not_an_integer"}]

-----------------------------------------------------------------------------
(* The messages.                                                            *)

(* _flatten_content_parts: there is nobody to fetch a URL.                  *)
FlattenRaises(message) == \E part \in message.media : ~part.base64

(* _attach_media_to_message: Ollama takes no media with a system message.   *)
AttachRaises(message) == message.media # {} /\ message.role = "system"

TranslateRaises(message) == FlattenRaises(message) \/ AttachRaises(message)

Unsupported(messages) == \E message \in messages : TranslateRaises(message)

-----------------------------------------------------------------------------
(* Seeded bugs.                                                             *)

DoneDefaultsFalse(r) == r.done = "true"

-----------------------------------------------------------------------------
(* The answer.                                                              *)

(* _decode_ollama_json.                                                     *)
DecodeRaises(r) == r.mediaType # "json" \/ r.body # "object"

(* response_json.get("done", True), as a condition.                         *)
Done(r) == r.done \in {"absent", "true"}

(* build_chat_result up to the value object.                                *)
BuildRaises(r) ==
  \/ ~Done(r)
  \/ r.error = "text"
  \/ r.message \in {"absent", "not_an_object", "without_content"}

(* OllamaChatResult: a content that is no string has become the empty one,  *)
(* and an absent count 0.                                                   *)
ResultRejected(r) ==
  \/ r.message = "oversize_text"
  \/ {r.prompt_eval_count, r.eval_count} \cap {"out_of_range", "not_an_integer"} # {}

(* The three checks of chat(), in their order.                              *)
Verdict(r) ==
  IF r.status # "success" THEN "status"
  ELSE IF DecodeRaises(r) \/ BuildRaises(r) THEN "not_a_frame"
  ELSE IF ResultRejected(r) THEN "frame_rejected"
  ELSE "accepted"
=============================================================================
