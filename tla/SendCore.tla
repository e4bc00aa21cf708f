------------------------------ MODULE SendCore ------------------------------
(***************************************************************************)
(* The send endpoints of src/handlers/messages.rs: 34 that can be parked   *)
(* (send_X, the HTTP handler, and execute_X, its core) and 5 that cannot.  *)
(* A core is the message it builds, the calls it awaits in order, and the  *)
(* request options that change its course.  How a core runs is SendPath.   *)
(*                                                                         *)
(* A parked body is replayed by dispatch (src/handlers/schedule.rs), which *)
(* finds the core by the endpoint's key; blast jobs come through the same  *)
(* table once validate_body has let them in.                               *)
(***************************************************************************)
EXTENDS Sequences

-----------------------------------------------------------------------------
(* The cores *)

Core(key, message, calls, options) ==
    [key |-> key, message |-> message, calls |-> calls, options |-> options]

Deliver == <<"send_message", "record_outgoing">>

Plain(key, message) == Core(key, message, <<"resolve">> \o Deliver, {})
Media(key, message) ==
    Core(key, message, <<"resolve", "get_media_data", "upload">> \o Deliver, {"uploaded"})

text == Core("text", "extended_text_message",
    <<"resolve", "get_metadata">> \o Deliver, {"bad_mention", "mention_all"})
image == Media("image", "image_message")
\* Mutant: a core that forgets to record.
video_unrecorded == Core("video", "video_message",
    <<"resolve", "get_media_data", "upload", "send_message">>, {"uploaded"})
video == Media("video", "video_message")
audio == Media("audio", "audio_message")
document == Media("document", "document_message")
sticker == Media("sticker", "sticker_message")
location == Plain("location", "location_message")
contact == Plain("contact", "contact_message")
poll == Plain("poll", "poll_creation_message")
buttons == Plain("buttons", "buttons_message")
list == Plain("list", "interactive_message")
interactive == Plain("interactive", "interactive_message")
cta_url == Core("cta-url", "interactive_message",
    <<"resolve", "get_media_data", "upload">> \o Deliver, {"image", "uploaded"})
quick_reply == Core("quick-reply", "interactive_message",
    <<"resolve">> \o Deliver, {"no_buttons"})
newsletter_admin_invite == Plain("newsletter-admin-invite", "newsletter_admin_invite_message")
newsletter_follower_invite == Plain("newsletter-follower-invite", "newsletter_follower_invite_message_v2")
order == Plain("order", "order_message")
invoice == Plain("invoice", "invoice_message")
payment_invite == Plain("payment-invite", "payment_invite_message")
forward_message == Plain("forward", "extended_text_message")
poll_update == Plain("poll-update", "poll_update_message")
buttons_response == Plain("buttons-response", "buttons_response_message")
list_response == Plain("list-response", "list_response_message")
interactive_response == Plain("interactive-response", "interactive_response_message")
highly_structured == Plain("highly-structured", "highly_structured_message")
template_button_reply == Plain("template-button-reply", "template_button_reply_message")
\* comments().send_text builds the message itself; nothing is recorded.
comment == Core("comment", "comment", <<"resolve", "send_comment">>, {})
scheduled_call == Plain("scheduled-call", "scheduled_call_creation_message")
scheduled_call_edit == Plain("scheduled-call-edit", "scheduled_call_edit_message")
payment == Plain("send-payment", "send_payment_message")
\* Mutant: the key of the handler it was copied from.
request_payment_copied == Plain("send-payment", "request_payment_message")
request_payment == Plain("request-payment", "request_payment_message")
cancel_payment_request == Plain("cancel-payment", "cancel_payment_request_message")
decline_payment_request == Plain("decline-payment", "decline_payment_request_message")
newsletter_forward == Plain("newsletter-forward", "extended_text_message")

\* Handlers without send_at.
edit_message   == Core("edit", "edit", <<"resolve", "edit_message">>, {})
send_reaction  == Core("reaction", "reaction", <<"resolve", "send_reaction">>, {})
revoke_message == Core("revoke", "revoke", <<"resolve", "revoke_message">>, {"bad_sender"})
mark_as_read   == Core("read", "receipt", <<"mark_as_read">>, {"bad_sender"})
pin_message    == Core("pin", "pin_in_chat_message", Deliver, {})

Direct == {edit_message, send_reaction, revoke_message, mark_as_read, pin_message}
Endpoints == {
    text, image, video, audio, document, sticker, location, contact, poll,
    buttons, list, interactive, cta_url, quick_reply,
    newsletter_admin_invite, newsletter_follower_invite, order, invoice,
    payment_invite, forward_message, poll_update, buttons_response,
    list_response, interactive_response, highly_structured,
    template_button_reply, comment, scheduled_call, scheduled_call_edit,
    payment, request_payment, cancel_payment_request,
    decline_payment_request, newsletter_forward }

\* The arms of dispatch: the key of a stored body and the core that replays it.
unknown == Core("", "none", << >>, {})
dispatch(key) ==
    CASE key = "text"                         -> text
      [] key = "image"                        -> image
      [] key = "video"                        -> video
      [] key = "audio"                        -> audio
      [] key = "document"                     -> document
      [] key = "sticker"                      -> sticker
      [] key = "location"                     -> location
      [] key = "contact"                      -> contact
      [] key = "poll"                         -> poll
      [] key = "buttons"                      -> buttons
      [] key = "list"                         -> list
      [] key = "interactive"                  -> interactive
      [] key = "cta-url"                      -> cta_url
      [] key = "quick-reply"                  -> quick_reply
      [] key = "newsletter-admin-invite"      -> newsletter_admin_invite
      [] key = "newsletter-follower-invite"   -> newsletter_follower_invite
      [] key = "order"                        -> order
      [] key = "invoice"                      -> invoice
      [] key = "payment-invite"               -> payment_invite
      [] key = "forward"                      -> forward_message
      [] key = "poll-update"                  -> poll_update
      [] key = "buttons-response"             -> buttons_response
      [] key = "list-response"                -> list_response
      [] key = "interactive-response"         -> interactive_response
      [] key = "highly-structured"            -> highly_structured
      [] key = "template-button-reply"        -> template_button_reply
      [] key = "comment"                      -> comment
      [] key = "scheduled-call"               -> scheduled_call
      [] key = "scheduled-call-edit"          -> scheduled_call_edit
      [] key = "send-payment"                 -> payment
      [] key = "request-payment"              -> request_payment
      [] key = "cancel-payment"               -> cancel_payment_request
      [] key = "decline-payment"              -> decline_payment_request
      [] key = "newsletter-forward"           -> newsletter_forward
      [] OTHER -> unknown

\* The same keys once more, as validate_body knows them.
validate_body == {
    "text", "image", "video", "audio", "document", "sticker", "location",
    "contact", "poll", "buttons", "list", "interactive", "cta-url",
    "quick-reply", "newsletter-admin-invite", "newsletter-follower-invite",
    "order", "invoice", "payment-invite", "forward", "poll-update",
    "buttons-response", "list-response", "interactive-response",
    "highly-structured", "template-button-reply", "comment",
    "scheduled-call", "scheduled-call-edit", "send-payment",
    "request-payment", "cancel-payment", "decline-payment",
    "newsletter-forward" }

\* The calls after which WhatsApp has the message, or may have it.
Deliveries == {"send_message", "send_comment", "edit_message", "send_reaction",
               "revoke_message", "mark_as_read"}

\* Without the option they are for, a core leaves out the calls before delivery.
Calls(core, opts) ==
    IF {"mention_all", "image"} \cap core.options \subseteq opts THEN core.calls
    ELSE <<"resolve">> \o Deliver

\* The type under which a message is indexed.
extract_message_content(message, opts) ==
    CASE message = "extended_text_message" -> "text"
      [] message = "image_message"         -> "image"
      [] message = "video_message"         -> "video"
      [] message = "audio_message"         -> IF "ptt" \in opts THEN "ptt" ELSE "audio"
      [] message = "document_message"      -> "document"
      [] message = "sticker_message"       -> "sticker"
      [] message = "location_message"      -> "location"
      [] message = "contact_message"       -> "contact"
      [] message = "poll_creation_message" -> "poll"
      [] message = "poll_update_message"   -> "poll_vote"
      [] message = "buttons_message"       -> "buttons"
      [] OTHER                             -> "unknown"
=============================================================================
