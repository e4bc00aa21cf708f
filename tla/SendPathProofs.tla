--------------------------- MODULE SendPathProofs ---------------------------
(* Proofs about SendPath, for any number of requests: each of the 39 cores    *)
(* delivers once and records afterwards, and is found again by its key; hence *)
(* answers tell the truth and the index agrees with WhatsApp.                 *)
EXTENDS SendPath, SequenceTheorems, TLAPS

-----------------------------------------------------------------------------
(* The cores *)

CallNames == Deliveries \cup {"resolve", "get_metadata", "get_media_data", "upload",
                             "record_outgoing"}

\* Cores that end by recording what they sent.
Records(core) == core.key \notin {"comment", "edit", "reaction", "revoke", "read"}

\* Calls that still hold the one delivery, with the recording after it.
Unsent(calls, core) ==
    LET k == IF Records(core) THEN Len(calls) - 1 ELSE Len(calls)
    IN  /\ calls \in Seq(CallNames) /\ k >= 1 /\ calls[k] \in Deliveries
        /\ \A i \in 1..(k - 1) : calls[i] \notin Deliveries \cup {"record_outgoing"}
        /\ Records(core) => calls[Len(calls)] = "record_outgoing"

\* However the options change its course, a core delivers once, and then records.
Sound(core) ==
    /\ core.key # ""
    /\ \A opts : Unsent(Calls(core, opts), core)

\* An endpoint that can be parked is found again by its key.
Served(core) ==
    /\ Sound(core)
    /\ dispatch(core.key) = core /\ core.key \in validate_body
    /\ core.key \notin {"edit", "reaction", "revoke", "read", "pin"}

LEMMA Tuples ==
    ASSUME NEW S, NEW a \in S, NEW b \in S
    PROVE  /\ <<a>> \in Seq(S) /\ <<a, b>> \in Seq(S)
           /\ \A c \in S : <<a, b, c>> \in Seq(S)
           /\ \A c, d \in S : <<a, b, c, d>> \in Seq(S)
           /\ \A c, d, e \in S : <<a, b, c, d, e>> \in Seq(S)
OBVIOUS

LEMMA JoinOne ==
    ASSUME NEW S, NEW a \in S, NEW b \in S, NEW c \in S
    PROVE  <<c>> \o <<a, b>> = <<c, a, b>>
<1>0. <<a, b>> \in Seq(S) /\ <<c>> \in Seq(S) /\ <<c, a, b>> \in Seq(S)
  BY Tuples
<1>1. Len(<<c>> \o <<a, b>>) = 3 /\ <<c>> \o <<a, b>> \in Seq(S)
  BY <1>0, ConcatProperties
<1>2. \A i \in 1..3 : (<<c>> \o <<a, b>>)[i] = <<c, a, b>>[i]
  BY <1>0
<1> QED
  BY <1>0, <1>1, <1>2, SeqEqual

LEMMA JoinTwo ==
    ASSUME NEW S, NEW a \in S, NEW b \in S, NEW c \in S, NEW d \in S
    PROVE  <<c, d>> \o <<a, b>> = <<c, d, a, b>>
<1>0. <<a, b>> \in Seq(S) /\ <<c, d>> \in Seq(S) /\ <<c, d, a, b>> \in Seq(S)
  BY Tuples
<1>1. Len(<<c, d>> \o <<a, b>>) = 4 /\ <<c, d>> \o <<a, b>> \in Seq(S)
  BY <1>0, ConcatProperties
<1>2. \A i \in 1..4 : (<<c, d>> \o <<a, b>>)[i] = <<c, d, a, b>>[i]
  BY <1>0
<1> QED
  BY <1>0, <1>1, <1>2, SeqEqual

LEMMA JoinThree ==
    ASSUME NEW S, NEW a \in S, NEW b \in S, NEW c \in S, NEW d \in S, NEW e \in S
    PROVE  <<c, d, e>> \o <<a, b>> = <<c, d, e, a, b>>
<1>0. <<a, b>> \in Seq(S) /\ <<c, d, e>> \in Seq(S) /\ <<c, d, e, a, b>> \in Seq(S)
  BY Tuples
<1>1. Len(<<c, d, e>> \o <<a, b>>) = 5 /\ <<c, d, e>> \o <<a, b>> \in Seq(S)
  BY <1>0, ConcatProperties
<1>2. \A i \in 1..5 : (<<c, d, e>> \o <<a, b>>)[i] = <<c, d, e, a, b>>[i]
  BY <1>0
<1> QED
  BY <1>0, <1>1, <1>2, SeqEqual

LEMMA Joint ==
    /\ Deliver \in Seq(CallNames)
    /\ <<"resolve">> \o Deliver \in Seq(CallNames)
    /\ <<"resolve">> \o Deliver = <<"resolve", "send_message", "record_outgoing">>
    /\ <<"resolve", "get_metadata">> \o Deliver \in Seq(CallNames)
    /\ <<"resolve", "get_metadata">> \o Deliver
       = <<"resolve", "get_metadata", "send_message", "record_outgoing">>
    /\ <<"resolve", "get_media_data", "upload">> \o Deliver \in Seq(CallNames)
    /\ <<"resolve", "get_media_data", "upload">> \o Deliver
       = <<"resolve", "get_media_data", "upload", "send_message", "record_outgoing">>
<1>1. /\ "send_message" \in CallNames /\ "record_outgoing" \in CallNames
      /\ "resolve" \in CallNames /\ "get_metadata" \in CallNames
      /\ "get_media_data" \in CallNames /\ "upload" \in CallNames
  BY DEF CallNames, Deliveries
<1>2. Deliver = <<"send_message", "record_outgoing">>
  BY DEF Deliver
<1>3. /\ <<"send_message", "record_outgoing">> \in Seq(CallNames)
      /\ <<"resolve", "send_message", "record_outgoing">> \in Seq(CallNames)
      /\ <<"resolve", "get_metadata", "send_message", "record_outgoing">> \in Seq(CallNames)
      /\ <<"resolve", "get_media_data", "upload", "send_message", "record_outgoing">>
         \in Seq(CallNames)
  BY <1>1
<1>4. <<"resolve">> \o Deliver = <<"resolve", "send_message", "record_outgoing">>
  BY <1>1, <1>2, JoinOne
<1>5. <<"resolve", "get_metadata">> \o Deliver
      = <<"resolve", "get_metadata", "send_message", "record_outgoing">>
  BY <1>1, <1>2, JoinTwo
<1>6. <<"resolve", "get_media_data", "upload">> \o Deliver
      = <<"resolve", "get_media_data", "upload", "send_message", "record_outgoing">>
  BY <1>1, <1>2, JoinThree
<1> QED
  BY <1>2, <1>3, <1>4, <1>5, <1>6

LEMMA Shapes ==
    ASSUME NEW core, Records(core)
    PROVE  /\ Unsent(<<"resolve">> \o Deliver, core)
           /\ Unsent(<<"resolve", "get_metadata">> \o Deliver, core)
           /\ Unsent(<<"resolve", "get_media_data", "upload">> \o Deliver, core)
           /\ Unsent(Deliver, core)
<1>1. Unsent(<<"resolve", "send_message", "record_outgoing">>, core)
  <2> DEFINE s == <<"resolve", "send_message", "record_outgoing">>
  <2>1. s \in Seq(CallNames)
    BY Joint
  <2>2. Len(s) = 3
    OBVIOUS
  <2>3. s[1] = "resolve" /\ s[2] = "send_message" /\ s[3] = "record_outgoing"
    OBVIOUS
  <2> HIDE DEF s
  <2>4. \A i \in 1..1 : s[i] \notin Deliveries \cup {"record_outgoing"}
    BY <2>3 DEF Deliveries
  <2>5. Unsent(s, core)
    BY <2>1, <2>2, <2>3, <2>4 DEF Unsent, Deliveries
  <2> QED
    BY <2>5 DEF s
<1>2. Unsent(<<"resolve", "get_metadata", "send_message", "record_outgoing">>, core)
  <2> DEFINE s == <<"resolve", "get_metadata", "send_message", "record_outgoing">>
  <2>1. s \in Seq(CallNames)
    BY Joint
  <2>2. Len(s) = 4
    OBVIOUS
  <2>3. s[1] = "resolve" /\ s[2] = "get_metadata" /\ s[3] = "send_message" /\ s[4] = "record_outgoing"
    OBVIOUS
  <2> HIDE DEF s
  <2>4. \A i \in 1..2 : s[i] \notin Deliveries \cup {"record_outgoing"}
    BY <2>3 DEF Deliveries
  <2>5. Unsent(s, core)
    BY <2>1, <2>2, <2>3, <2>4 DEF Unsent, Deliveries
  <2> QED
    BY <2>5 DEF s
<1>3. Unsent(<<"resolve", "get_media_data", "upload", "send_message", "record_outgoing">>, core)
  <2> DEFINE s == <<"resolve", "get_media_data", "upload", "send_message", "record_outgoing">>
  <2>1. s \in Seq(CallNames)
    BY Joint
  <2>2. Len(s) = 5
    OBVIOUS
  <2>3. s[1] = "resolve" /\ s[2] = "get_media_data" /\ s[3] = "upload" /\ s[4] = "send_message" /\ s[5] = "record_outgoing"
    OBVIOUS
  <2> HIDE DEF s
  <2>4. \A i \in 1..3 : s[i] \notin Deliveries \cup {"record_outgoing"}
    BY <2>3 DEF Deliveries
  <2>5. Unsent(s, core)
    BY <2>1, <2>2, <2>3, <2>4 DEF Unsent, Deliveries
  <2> QED
    BY <2>5 DEF s
<1>4. Unsent(Deliver, core)
  BY Joint DEF Unsent, Deliveries, Deliver
<1> QED
  BY ONLY Joint, <1>1, <1>2, <1>3, <1>4

LEMMA Unrecorded ==
    ASSUME NEW core, ~Records(core), NEW call \in Deliveries
    PROVE  Unsent(<<"resolve", call>>, core) /\ Unsent(<<call>>, core)
<1>1. call \in CallNames /\ "resolve" \notin Deliveries /\ "resolve" \in CallNames
  BY DEF Deliveries, CallNames
<1>2. <<"resolve", call>> \in Seq(CallNames) /\ <<call>> \in Seq(CallNames)
  BY <1>1
<1> QED
  BY <1>1, <1>2 DEF Unsent

LEMMA SoundPlain ==
    ASSUME NEW key, NEW message,
           key \notin {"", "comment", "edit", "reaction", "revoke", "read"}
    PROVE  Sound(Plain(key, message)) /\ Plain(key, message).key = key
<1> DEFINE c == Plain(key, message)
<1>1. c.key = key /\ c.calls = <<"resolve">> \o Deliver /\ c.options = {}
  BY DEF Plain, Core
<1> HIDE DEF c
<1>2. Records(c)
  BY <1>1 DEF Records
<1>3. \A opts : Calls(c, opts) = <<"resolve">> \o Deliver
  BY <1>1 DEF Calls
<1> QED
  BY <1>1, <1>2, <1>3, Shapes DEF Sound, c

LEMMA SoundMedia ==
    ASSUME NEW key, NEW message,
           key \notin {"", "comment", "edit", "reaction", "revoke", "read"}
    PROVE  Sound(Media(key, message)) /\ Media(key, message).key = key
<1> DEFINE c == Media(key, message)
<1>1. /\ c.key = key /\ c.options = {"uploaded"}
      /\ c.calls = <<"resolve", "get_media_data", "upload">> \o Deliver
  BY DEF Media, Core
<1> HIDE DEF c
<1>2. Records(c)
  BY <1>1 DEF Records
<1>3. \A opts : Calls(c, opts) = <<"resolve", "get_media_data", "upload">> \o Deliver
  BY <1>1 DEF Calls
<1> QED
  BY <1>1, <1>2, <1>3, Shapes DEF Sound, c

LEMMA SoundCore ==
    ASSUME NEW core, core.key # "", Unsent(core.calls, core),
           Records(core) \/ {"mention_all", "image"} \cap core.options = {}
    PROVE  Sound(core)
<1>1. ASSUME NEW opts PROVE Unsent(Calls(core, opts), core)
  <2>1. CASE Calls(core, opts) = core.calls
    BY <2>1
  <2>2. CASE Calls(core, opts) # core.calls
    <3>1. ~({"mention_all", "image"} \cap core.options \subseteq opts)
      BY <2>2 DEF Calls
    <3>2. Records(core) /\ Calls(core, opts) = <<"resolve">> \o Deliver
      BY <3>1 DEF Calls
    <3> QED
      BY <3>2, Shapes
  <2> QED
    BY <2>1, <2>2
<1> QED
  BY <1>1 DEF Sound

LEMMA ServedEndpoints ==
    \A core \in Endpoints : Served(core)
<1>1. Served(location)
  <2>1. Sound(location) /\ location.key = "location"
    BY SoundPlain DEF location
  <2> QED
    BY <2>1 DEF Served, dispatch, validate_body
<1>2. Served(contact)
  <2>1. Sound(contact) /\ contact.key = "contact"
    BY SoundPlain DEF contact
  <2> QED
    BY <2>1 DEF Served, dispatch, validate_body
<1>3. Served(poll)
  <2>1. Sound(poll) /\ poll.key = "poll"
    BY SoundPlain DEF poll
  <2> QED
    BY <2>1 DEF Served, dispatch, validate_body
<1>4. Served(buttons)
  <2>1. Sound(buttons) /\ buttons.key = "buttons"
    BY SoundPlain DEF buttons
  <2> QED
    BY <2>1 DEF Served, dispatch, validate_body
<1>5. Served(list)
  <2>1. Sound(list) /\ list.key = "list"
    BY SoundPlain DEF list
  <2> QED
    BY <2>1 DEF Served, dispatch, validate_body
<1>6. Served(interactive)
  <2>1. Sound(interactive) /\ interactive.key = "interactive"
    BY SoundPlain DEF interactive
  <2> QED
    BY <2>1 DEF Served, dispatch, validate_body
<1>7. Served(newsletter_admin_invite)
  <2>1. Sound(newsletter_admin_invite) /\ newsletter_admin_invite.key = "newsletter-admin-invite"
    BY SoundPlain DEF newsletter_admin_invite
  <2> QED
    BY <2>1 DEF Served, dispatch, validate_body
<1>8. Served(newsletter_follower_invite)
  <2>1. Sound(newsletter_follower_invite) /\ newsletter_follower_invite.key = "newsletter-follower-invite"
    BY SoundPlain DEF newsletter_follower_invite
  <2> QED
    BY <2>1 DEF Served, dispatch, validate_body
<1>9. Served(order)
  <2>1. Sound(order) /\ order.key = "order"
    BY SoundPlain DEF order
  <2> QED
    BY <2>1 DEF Served, dispatch, validate_body
<1>10. Served(invoice)
  <2>1. Sound(invoice) /\ invoice.key = "invoice"
    BY SoundPlain DEF invoice
  <2> QED
    BY <2>1 DEF Served, dispatch, validate_body
<1>11. Served(payment_invite)
  <2>1. Sound(payment_invite) /\ payment_invite.key = "payment-invite"
    BY SoundPlain DEF payment_invite
  <2> QED
    BY <2>1 DEF Served, dispatch, validate_body
<1>12. Served(forward_message)
  <2>1. Sound(forward_message) /\ forward_message.key = "forward"
    BY SoundPlain DEF forward_message
  <2> QED
    BY <2>1 DEF Served, dispatch, validate_body
<1>13. Served(poll_update)
  <2>1. Sound(poll_update) /\ poll_update.key = "poll-update"
    BY SoundPlain DEF poll_update
  <2> QED
    BY <2>1 DEF Served, dispatch, validate_body
<1>14. Served(buttons_response)
  <2>1. Sound(buttons_response) /\ buttons_response.key = "buttons-response"
    BY SoundPlain DEF buttons_response
  <2> QED
    BY <2>1 DEF Served, dispatch, validate_body
<1>15. Served(list_response)
  <2>1. Sound(list_response) /\ list_response.key = "list-response"
    BY SoundPlain DEF list_response
  <2> QED
    BY <2>1 DEF Served, dispatch, validate_body
<1>16. Served(interactive_response)
  <2>1. Sound(interactive_response) /\ interactive_response.key = "interactive-response"
    BY SoundPlain DEF interactive_response
  <2> QED
    BY <2>1 DEF Served, dispatch, validate_body
<1>17. Served(highly_structured)
  <2>1. Sound(highly_structured) /\ highly_structured.key = "highly-structured"
    BY SoundPlain DEF highly_structured
  <2> QED
    BY <2>1 DEF Served, dispatch, validate_body
<1>18. Served(template_button_reply)
  <2>1. Sound(template_button_reply) /\ template_button_reply.key = "template-button-reply"
    BY SoundPlain DEF template_button_reply
  <2> QED
    BY <2>1 DEF Served, dispatch, validate_body
<1>19. Served(scheduled_call)
  <2>1. Sound(scheduled_call) /\ scheduled_call.key = "scheduled-call"
    BY SoundPlain DEF scheduled_call
  <2> QED
    BY <2>1 DEF Served, dispatch, validate_body
<1>20. Served(scheduled_call_edit)
  <2>1. Sound(scheduled_call_edit) /\ scheduled_call_edit.key = "scheduled-call-edit"
    BY SoundPlain DEF scheduled_call_edit
  <2> QED
    BY <2>1 DEF Served, dispatch, validate_body
<1>21. Served(payment)
  <2>1. Sound(payment) /\ payment.key = "send-payment"
    BY SoundPlain DEF payment
  <2> QED
    BY <2>1 DEF Served, dispatch, validate_body
<1>22. Served(request_payment)
  <2>1. Sound(request_payment) /\ request_payment.key = "request-payment"
    BY SoundPlain DEF request_payment
  <2> QED
    BY <2>1 DEF Served, dispatch, validate_body
<1>23. Served(cancel_payment_request)
  <2>1. Sound(cancel_payment_request) /\ cancel_payment_request.key = "cancel-payment"
    BY SoundPlain DEF cancel_payment_request
  <2> QED
    BY <2>1 DEF Served, dispatch, validate_body
<1>24. Served(decline_payment_request)
  <2>1. Sound(decline_payment_request) /\ decline_payment_request.key = "decline-payment"
    BY SoundPlain DEF decline_payment_request
  <2> QED
    BY <2>1 DEF Served, dispatch, validate_body
<1>25. Served(newsletter_forward)
  <2>1. Sound(newsletter_forward) /\ newsletter_forward.key = "newsletter-forward"
    BY SoundPlain DEF newsletter_forward
  <2> QED
    BY <2>1 DEF Served, dispatch, validate_body
<1>26. Served(image)
  <2>1. Sound(image) /\ image.key = "image"
    BY SoundMedia DEF image
  <2> QED
    BY <2>1 DEF Served, dispatch, validate_body
<1>27. Served(video)
  <2>1. Sound(video) /\ video.key = "video"
    BY SoundMedia DEF video
  <2> QED
    BY <2>1 DEF Served, dispatch, validate_body
<1>28. Served(audio)
  <2>1. Sound(audio) /\ audio.key = "audio"
    BY SoundMedia DEF audio
  <2> QED
    BY <2>1 DEF Served, dispatch, validate_body
<1>29. Served(document)
  <2>1. Sound(document) /\ document.key = "document"
    BY SoundMedia DEF document
  <2> QED
    BY <2>1 DEF Served, dispatch, validate_body
<1>30. Served(sticker)
  <2>1. Sound(sticker) /\ sticker.key = "sticker"
    BY SoundMedia DEF sticker
  <2> QED
    BY <2>1 DEF Served, dispatch, validate_body
<1>31. Served(text)
  <2>1. text.key = "text"
    BY DEF text, Core
  <2>2. Unsent(text.calls, text)
    BY <2>1, Shapes, Unrecorded DEF text, Core, Records, Deliveries
  <2>3. Records(text) \/ {"mention_all", "image"} \cap text.options = {}
    BY <2>1 DEF Records, text, Core
  <2>4. Sound(text)
    BY <2>1, <2>2, <2>3, SoundCore
  <2> QED
    BY <2>1, <2>4 DEF Served, dispatch, validate_body
<1>32. Served(cta_url)
  <2>1. cta_url.key = "cta-url"
    BY DEF cta_url, Core
  <2>2. Unsent(cta_url.calls, cta_url)
    BY <2>1, Shapes, Unrecorded DEF cta_url, Core, Records, Deliveries
  <2>3. Records(cta_url) \/ {"mention_all", "image"} \cap cta_url.options = {}
    BY <2>1 DEF Records, cta_url, Core
  <2>4. Sound(cta_url)
    BY <2>1, <2>2, <2>3, SoundCore
  <2> QED
    BY <2>1, <2>4 DEF Served, dispatch, validate_body
<1>33. Served(quick_reply)
  <2>1. quick_reply.key = "quick-reply"
    BY DEF quick_reply, Core
  <2>2. Unsent(quick_reply.calls, quick_reply)
    BY <2>1, Shapes, Unrecorded DEF quick_reply, Core, Records, Deliveries
  <2>3. Records(quick_reply) \/ {"mention_all", "image"} \cap quick_reply.options = {}
    BY <2>1 DEF Records, quick_reply, Core
  <2>4. Sound(quick_reply)
    BY <2>1, <2>2, <2>3, SoundCore
  <2> QED
    BY <2>1, <2>4 DEF Served, dispatch, validate_body
<1>34. Served(comment)
  <2>1. comment.key = "comment"
    BY DEF comment, Core
  <2>2. Unsent(comment.calls, comment)
    BY <2>1, Shapes, Unrecorded DEF comment, Core, Records, Deliveries
  <2>3. Records(comment) \/ {"mention_all", "image"} \cap comment.options = {}
    BY <2>1 DEF Records, comment, Core
  <2>4. Sound(comment)
    BY <2>1, <2>2, <2>3, SoundCore
  <2> QED
    BY <2>1, <2>4 DEF Served, dispatch, validate_body
<1> QED
  BY <1>1, <1>2, <1>3, <1>4, <1>5, <1>6, <1>7, <1>8, <1>9, <1>10, <1>11, <1>12, <1>13, <1>14, <1>15, <1>16, <1>17, <1>18, <1>19, <1>20, <1>21, <1>22, <1>23, <1>24, <1>25, <1>26, <1>27, <1>28, <1>29, <1>30, <1>31, <1>32, <1>33, <1>34 DEF Endpoints

LEMMA DirectCores ==
    \A core \in Direct : Sound(core) /\ core.key \notin validate_body
<1>1. Sound(edit_message) /\ edit_message.key \notin validate_body
  <2>1. edit_message.key = "edit"
    BY DEF edit_message, Core
  <2>2. Unsent(edit_message.calls, edit_message)
    BY <2>1, Unrecorded DEF edit_message, Core, Records, Deliveries
  <2> QED
    BY <2>1, <2>2, SoundCore DEF edit_message, Core, validate_body
<1>2. Sound(send_reaction) /\ send_reaction.key \notin validate_body
  <2>1. send_reaction.key = "reaction"
    BY DEF send_reaction, Core
  <2>2. Unsent(send_reaction.calls, send_reaction)
    BY <2>1, Unrecorded DEF send_reaction, Core, Records, Deliveries
  <2> QED
    BY <2>1, <2>2, SoundCore DEF send_reaction, Core, validate_body
<1>3. Sound(revoke_message) /\ revoke_message.key \notin validate_body
  <2>1. revoke_message.key = "revoke"
    BY DEF revoke_message, Core
  <2>2. Unsent(revoke_message.calls, revoke_message)
    BY <2>1, Unrecorded DEF revoke_message, Core, Records, Deliveries
  <2> QED
    BY <2>1, <2>2, SoundCore DEF revoke_message, Core, validate_body
<1>4. Sound(mark_as_read) /\ mark_as_read.key \notin validate_body
  <2>1. mark_as_read.key = "read"
    BY DEF mark_as_read, Core
  <2>2. Unsent(mark_as_read.calls, mark_as_read)
    BY <2>1, Unrecorded DEF mark_as_read, Core, Records, Deliveries
  <2> QED
    BY <2>1, <2>2, SoundCore DEF mark_as_read, Core, validate_body
<1>5. Sound(pin_message) /\ pin_message.key \notin validate_body
  <2>1. pin_message.key = "pin"
    BY DEF pin_message, Core
  <2>2. Records(pin_message)
    BY <2>1 DEF Records
  <2>3. Unsent(pin_message.calls, pin_message)
    BY <2>2, Shapes DEF pin_message, Core
  <2> QED
    BY <2>1, <2>2, <2>3, SoundCore DEF validate_body
<1> QED
  BY <1>1, <1>2, <1>3, <1>4, <1>5 DEF Direct

-----------------------------------------------------------------------------
(* The inductive invariant *)

AllCores == Endpoints \cup Direct
Options  == UNION {core.options : core \in AllCores}
Requests == [pc : {"idle", "parked", "run", "done"}, asked : AllCores, core : AllCores,
             left : Seq(CallNames), jid : Jids, opts : SUBSET Options, answer : Answers]
Types    == {"text", "image", "video", "audio", "ptt", "document", "sticker", "location",
             "contact", "poll", "poll_vote", "buttons", "unknown"}
Rows     == {NoRow} \cup [type : Types, sender : {"", "self"}]

\* How far a request has come, and what that says of WhatsApp and the index.
Stage(s, r, sent, row, lost) ==
    /\ sent \in {0, 1} /\ row \in Rows
    /\ row # NoRow => sent = 1
    /\ r.core = r.asked /\ r.opts \subseteq r.asked.options
    /\ r.answer # "UnknownEndpoint"
    /\ r.pc # "run" => r.left = << >>
    /\ r.pc \in {"idle", "parked"} => sent = 0
    /\ r.pc = "parked" => r.asked \in Endpoints
    /\ r.pc \in {"idle", "parked", "run"} => r.answer \in {"none", "pending"}
    /\ r.pc = "run" =>
         \/ sent = 0 /\ Unsent(r.left, r.core)
         \/ sent = 1 /\ Records(r.core) /\ r.left = <<"record_outgoing">>
    /\ r.pc = "done" =>
         /\ r.answer \in Refusals => sent = 0
         /\ r.answer = "ok" /\ Records(r.core) => row # NoRow \/ s \in lost

Typed ==
    /\ runtime \in {"absent", "offline", "live"}
    /\ req \in [Sends -> Requests] /\ messages \in [Sends -> Rows]
    /\ accepted \in [Sends -> Nat] /\ unindexed \subseteq Sends
    /\ moves \in 0..MaxMoves

SendInv ==
    /\ Typed
    /\ \A s \in Sends : Stage(s, req[s], accepted[s], messages[s], unindexed)

-----------------------------------------------------------------------------
(* One request, one step *)

LEMMA NextCall ==
    ASSUME NEW core, NEW calls, Unsent(calls, core)
    PROVE  /\ calls # << >> /\ calls \in Seq(CallNames) /\ Head(calls) # "record_outgoing"
           /\ Tail(calls) \in Seq(CallNames)
           /\ Head(calls) \in Deliveries =>
                /\ Records(core) => Len(calls) # 1 /\ Tail(calls) = <<"record_outgoing">>
                /\ ~Records(core) => Len(calls) = 1
           /\ Head(calls) \notin Deliveries => Len(calls) # 1 /\ Unsent(Tail(calls), core)
<1> DEFINE k == IF Records(core) THEN Len(calls) - 1 ELSE Len(calls)
           t == Tail(calls)
<1>1. /\ calls \in Seq(CallNames) /\ Len(calls) \in Nat /\ k >= 1 /\ calls[k] \in Deliveries
      /\ \A i \in 1..(k - 1) : calls[i] \notin Deliveries \cup {"record_outgoing"}
      /\ Records(core) => calls[Len(calls)] = "record_outgoing"
  BY DEF Unsent
<1>2. /\ calls # << >> /\ Head(calls) = calls[1] /\ t \in Seq(CallNames) /\ Len(t) = Len(calls) - 1
      /\ \A i \in 1..Len(t) : t[i] = calls[i + 1]
  BY <1>1
<1>k. k \in Nat /\ (k = Len(calls) \/ k = Len(calls) - 1)
  BY <1>1
<1>d. (Records(core) => k = Len(calls) - 1) /\ (~Records(core) => k = Len(calls))
  OBVIOUS
<1> HIDE DEF t, k
<1>3. calls[1] # "record_outgoing"
  <2>1. CASE k = 1
    BY <1>1, <2>1 DEF Deliveries
  <2>2. CASE k > 1
    BY <1>1, <1>k, <2>2
  <2> QED
    BY <1>1, <1>k, <2>1, <2>2
<1>4. ASSUME calls[1] \in Deliveries
      PROVE  /\ Records(core) => Len(calls) # 1 /\ t = <<"record_outgoing">>
             /\ ~Records(core) => Len(calls) = 1
  <2>1. k = 1
    BY <1>1, <1>k, <1>4
  <2>2. ASSUME Records(core) PROVE Len(calls) # 1 /\ t = <<"record_outgoing">>
    <3>0. Len(calls) = 2 /\ calls[2] = "record_outgoing"
      <4>1. k = Len(calls) - 1 /\ calls[Len(calls)] = "record_outgoing"
        BY <1>1, <1>d, <2>2
      <4>2. Len(calls) = 2
        BY <1>1, <2>1, <4>1
      <4> QED
        BY <4>1, <4>2
    <3>1. Len(t) = 1 /\ t[1] = calls[2]
      BY <1>2, <3>0
    <3> QED
      BY <1>2, <3>0, <3>1
  <2>3. ~Records(core) => Len(calls) = 1
    BY <1>d, <2>1
  <2> QED
    BY <2>2, <2>3
<1>5. ASSUME calls[1] \notin Deliveries PROVE Len(calls) # 1 /\ Unsent(t, core)
  <2> DEFINE m == IF Records(core) THEN Len(t) - 1 ELSE Len(t)
  <2>1. m = k - 1 /\ k > 1 /\ k \in Nat
    BY <1>1, <1>2, <1>k, <1>d, <1>5
  <2>2. m >= 1 /\ t[m] = calls[k]
    BY <1>1, <1>2, <2>1
  <2>3. \A i \in 1..(m - 1) : t[i] = calls[i + 1] /\ i + 1 \in 1..(k - 1)
    BY <1>1, <1>2, <1>k, <2>1
  <2>4. Records(core) => t[Len(t)] = "record_outgoing"
    BY <1>1, <1>2, <2>1
  <2>5. \A i \in 1..(m - 1) : t[i] \notin Deliveries \cup {"record_outgoing"}
    BY <1>1, <2>3
  <2>6. Unsent(t, core)
    BY <1>1, <1>2, <2>2, <2>4, <2>5 DEF Unsent
  <2> QED
    BY <1>1, <1>2, <2>1, <2>6
<1> QED
  BY <1>1, <1>2, <1>3, <1>4, <1>5 DEF t

LEMMA AnyCore ==
    ASSUME NEW core \in AllCores
    PROVE  /\ Sound(core) /\ (core \in Endpoints => Served(core))
           /\ core \in Endpoints \ {comment} => Records(core)
<1>1. core \in Endpoints => Served(core)
  BY ServedEndpoints
<1>2. Sound(core)
  BY <1>1, DirectCores DEF AllCores, Served
<1>3. ASSUME core \in Endpoints \ {comment} PROVE Records(core)
  <2>1. /\ dispatch(core.key) = core /\ core # comment
        /\ core.key \notin {"edit", "reaction", "revoke", "read", "pin"}
    BY <1>1, <1>3 DEF Served
  <2>2. core.key # "comment"
    <3>1. dispatch("comment") = comment
      BY DEF dispatch
    <3> QED
      BY <2>1, <3>1
  <2> QED
    BY <2>1, <2>2 DEF Records
<1> QED
  BY <1>1, <1>2, <1>3

LEMMA Fields ==
    ASSUME NEW r \in Requests
    PROVE  /\ r.pc \in {"idle", "parked", "run", "done"} /\ r.asked \in AllCores
           /\ r.core \in AllCores /\ r.left \in Seq(CallNames) /\ r.jid \in Jids
           /\ r.opts \subseteq Options /\ r.answer \in Answers
BY DEF Requests

LEMMA Ended ==
    ASSUME NEW r \in Requests, NEW a \in Answers
    PROVE  LET e == [r EXCEPT !.pc = "done", !.left = << >>, !.answer = a]
           IN  /\ e \in Requests /\ e.pc = "done" /\ e.left = << >> /\ e.answer = a
               /\ e.core = r.core /\ e.asked = r.asked /\ e.opts = r.opts
<1>1. << >> \in Seq(CallNames)
  OBVIOUS
<1> QED
  BY <1>1 DEF Requests

LEMMA Refused ==
    ASSUME NEW r \in Requests, r.left = << >>, NEW a \in Answers
    PROVE  [r EXCEPT !.pc = "done", !.answer = a]
           = [r EXCEPT !.pc = "done", !.left = << >>, !.answer = a]
BY DEF Requests

LEMMA Goes ==
    ASSUME NEW r \in Requests, NEW calls \in Seq(CallNames)
    PROVE  LET e == [r EXCEPT !.left = calls]
           IN  /\ e \in Requests /\ e.pc = r.pc /\ e.left = calls /\ e.answer = r.answer
               /\ e.core = r.core /\ e.asked = r.asked /\ e.opts = r.opts
BY DEF Requests

LEMMA Local ==
    ASSUME SendInv, NEW s \in Sends, NEW r \in Requests, Set(s, r),
           accepted' \in [Sends -> Nat], messages' \in [Sends -> Rows],
           unindexed \subseteq unindexed', unindexed' \subseteq Sends,
           runtime' = runtime, moves' \in 0..MaxMoves,
           \A x \in Sends : x # s => accepted'[x] = accepted[x] /\ messages'[x] = messages[x],
           Stage(s, r, accepted'[s], messages'[s], unindexed')
    PROVE  SendInv'
<1>1. /\ Typed /\ req \in [Sends -> Requests] /\ req' = [req EXCEPT ![s] = r]
      /\ \A x \in Sends : Stage(x, req[x], accepted[x], messages[x], unindexed)
  BY DEF SendInv, Typed, Set
<1>2. req' \in [Sends -> Requests] /\ req'[s] = r /\ \A x \in Sends : x # s => req'[x] = req[x]
  BY <1>1
<1>3. Typed'
  BY <1>1, <1>2 DEF Typed
<1>4. ASSUME NEW x \in Sends PROVE Stage(x, req'[x], accepted'[x], messages'[x], unindexed')
  <2>1. CASE x = s
    BY <1>2, <2>1
  <2>2. CASE x # s
    <3>1. Stage(x, req'[x], accepted'[x], messages'[x], unindexed)
      BY <1>1, <1>2, <2>2
    <3> QED
      BY ONLY <3>1, unindexed \subseteq unindexed' DEF Stage
  <2> QED
    BY <2>1, <2>2
<1> QED
  BY <1>3, <1>4 DEF SendInv

\* Steps that leave everything but the request alone.
LEMMA OnlyRequest ==
    ASSUME SendInv, NEW s \in Sends, NEW r \in Requests, Set(s, r),
           UNCHANGED <<runtime, messages, accepted, unindexed, moves>>,
           Stage(s, r, accepted[s], messages[s], unindexed)
    PROVE  SendInv'
<1>1. /\ accepted \in [Sends -> Nat] /\ messages \in [Sends -> Rows] /\ unindexed \subseteq Sends
      /\ moves \in 0..MaxMoves
  BY DEF SendInv, Typed
<1> QED
  BY <1>1, Local

-----------------------------------------------------------------------------
(* Entering a core *)

Fresh(s, r) ==
    /\ r \in Requests /\ r.core = r.asked /\ r.opts \subseteq r.asked.options
    /\ r.left = << >> /\ r.answer \in {"none", "pending"}
    /\ accepted[s] = 0 /\ messages[s] = NoRow

LEMMA Inputted ==
    ASSUME SendInv, NEW s \in Sends, req[s].pc = "idle", NEW core \in AllCores, NEW r \in Inputs(core)
    PROVE  Fresh(s, r) /\ r.asked = core
<1>1. Stage(s, req[s], accepted[s], messages[s], unindexed)
  BY DEF SendInv
<1>2. accepted[s] = 0 /\ messages[s] = NoRow
  <2>1. accepted[s] = 0
    BY ONLY <1>1, req[s].pc = "idle" DEF Stage
  <2>2. messages[s] # NoRow => accepted[s] = 1
    BY ONLY <1>1 DEF Stage
  <2> QED
    BY <2>1, <2>2
<1>3. /\ r.asked = core /\ r.core = core /\ r.left = << >> /\ r.answer = "none"
      /\ r.opts \subseteq core.options
  BY DEF Inputs
<1>4. r \in Requests
  <2>1. core.options \subseteq Options
    BY DEF Options
  <2>2. << >> \in Seq(CallNames)
    OBVIOUS
  <2> QED
    BY <2>1, <2>2 DEF Inputs, Requests, Answers
<1> QED
  BY <1>2, <1>3, <1>4 DEF Fresh

LEMMA Ends ==
    ASSUME SendInv, NEW s \in Sends, NEW r, Fresh(s, r),
           NEW a \in Answers \ {"UnknownEndpoint", "ok"},
           Set(s, [r EXCEPT !.pc = "done", !.answer = a]),
           UNCHANGED <<runtime, messages, accepted, unindexed, moves>>
    PROVE  SendInv'
<1> DEFINE e == [r EXCEPT !.pc = "done", !.left = << >>, !.answer = a]
<1>1. /\ e \in Requests /\ e.pc = "done" /\ e.left = << >> /\ e.answer = a
      /\ e.core = r.core /\ e.asked = r.asked /\ e.opts = r.opts
  BY Ended DEF Fresh
<1>2. Set(s, e)
  BY Refused DEF Fresh
<1> HIDE DEF e
<1>3. Stage(s, e, accepted[s], messages[s], unindexed)
  BY <1>1 DEF Stage, Fresh, Rows
<1> QED
  BY <1>1, <1>2, <1>3, OnlyRequest

LEMMA Runs ==
    ASSUME SendInv, NEW s \in Sends, NEW r, Fresh(s, r), Execute(s, r.asked, r),
           UNCHANGED <<runtime, messages, accepted, unindexed, moves>>
    PROVE  SendInv'
<1>1. \/ Set(s, [r EXCEPT !.pc = "done", !.answer = "NotConnected"])
      \/ Set(s, [r EXCEPT !.pc = "done", !.answer = "InvalidJid"])
      \/ Set(s, [r EXCEPT !.pc = "run", !.core = r.asked, !.left = Calls(r.asked, r.opts)])
  <2>1. CASE runtime # "live"
    BY <2>1 DEF Execute
  <2>2. CASE runtime = "live"
    BY <2>2 DEF Execute
  <2> QED
    BY <2>1, <2>2
<1>2. {"NotConnected", "InvalidJid"} \subseteq Answers \ {"UnknownEndpoint", "ok"}
  BY DEF Answers, Refusals
<1>3. ASSUME Set(s, [r EXCEPT !.pc = "run", !.core = r.asked, !.left = Calls(r.asked, r.opts)])
      PROVE  SendInv'
  <2> DEFINE c == Calls(r.asked, r.opts)
             e == [r EXCEPT !.pc = "run", !.core = r.asked, !.left = c]
  <2>1. r \in Requests /\ r.asked \in AllCores
    BY Fields DEF Fresh
  <2>2. Unsent(c, r.asked)
    BY <2>1, AnyCore DEF Sound
  <2>3. c \in Seq(CallNames)
    BY <2>2 DEF Unsent
  <2> HIDE DEF c
  <2>4. /\ e \in Requests /\ e.pc = "run" /\ e.left = c /\ e.core = r.asked
        /\ e.asked = r.asked /\ e.opts = r.opts /\ e.answer = r.answer
    BY <2>1, <2>3 DEF Requests
  <2>5. Set(s, e)
    BY <1>3 DEF c
  <2> HIDE DEF e
  <2>6. Stage(s, e, accepted[s], messages[s], unindexed)
    BY <2>2, <2>4 DEF Stage, Fresh, Rows
  <2> QED
    BY <2>4, <2>5, <2>6, OnlyRequest
<1> QED
  BY <1>1, <1>2, <1>3, Ends

-----------------------------------------------------------------------------
(* The calls of a core *)

\* What a step about request s leaves of the others.
Around(s) ==
    /\ accepted' \in [Sends -> Nat] /\ messages' \in [Sends -> Rows]
    /\ unindexed \subseteq unindexed' /\ unindexed' \subseteq Sends
    /\ runtime' = runtime /\ moves' \in 0..MaxMoves
    /\ \A x \in Sends : x # s => accepted'[x] = accepted[x] /\ messages'[x] = messages[x]

LEMMA Alone ==
    ASSUME SendInv, NEW s, UNCHANGED <<runtime, messages, accepted, unindexed, moves>>
    PROVE  Around(s)
BY DEF SendInv, Typed, Around

LEMMA Running ==
    ASSUME SendInv, NEW s \in Sends, req[s].pc = "run"
    PROVE  /\ req[s] \in Requests /\ req[s].core = req[s].asked
           /\ req[s].opts \subseteq req[s].asked.options
           /\ req[s].answer \in {"none", "pending"}
           /\ messages[s] \in Rows /\ accepted[s] \in {0, 1}
           /\ messages[s] # NoRow => accepted[s] = 1
           /\ \/ accepted[s] = 0 /\ Unsent(req[s].left, req[s].core)
              \/ accepted[s] = 1 /\ Records(req[s].core) /\ req[s].left = <<"record_outgoing">>
<1>1. Stage(s, req[s], accepted[s], messages[s], unindexed) /\ req[s] \in Requests
  BY DEF SendInv, Typed
<1> QED
  BY ONLY <1>1, req[s].pc = "run" DEF Stage

LEMMA Answered ==
    ASSUME SendInv, NEW s \in Sends, req[s].pc = "run",
           NEW a \in Answers \ {"UnknownEndpoint"}, Answer(s, a), Around(s),
           accepted'[s] \in {0, 1}, messages'[s] # NoRow => accepted'[s] = 1,
           a \in Refusals => accepted'[s] = 0,
           a = "ok" /\ Records(req[s].core) => messages'[s] # NoRow \/ s \in unindexed'
    PROVE  SendInv'
<1> DEFINE e == [req[s] EXCEPT !.pc = "done", !.left = << >>, !.answer = a]
<1>1. /\ req[s] \in Requests /\ req[s].core = req[s].asked
      /\ req[s].opts \subseteq req[s].asked.options
  BY Running
<1>2. /\ e \in Requests /\ e.pc = "done" /\ e.left = << >> /\ e.answer = a
      /\ e.core = req[s].core /\ e.asked = req[s].asked /\ e.opts = req[s].opts
  BY <1>1, Ended
<1>3. Set(s, e)
  BY DEF Answer, Finish
<1> HIDE DEF e
<1>4. messages'[s] \in Rows
  BY DEF Around
<1>5. Stage(s, e, accepted'[s], messages'[s], unindexed')
  BY <1>1, <1>2, <1>4 DEF Stage
<1> QED
  BY <1>2, <1>3, <1>5, Local DEF Around

LEMMA Advanced ==
    ASSUME SendInv, NEW s \in Sends, req[s].pc = "run", NEW calls \in Seq(CallNames),
           Set(s, [req[s] EXCEPT !.left = calls]), Around(s),
           messages'[s] # NoRow => accepted'[s] = 1,
           \/ accepted'[s] = 0 /\ Unsent(calls, req[s].core)
           \/ accepted'[s] = 1 /\ Records(req[s].core) /\ calls = <<"record_outgoing">>
    PROVE  SendInv'
<1> DEFINE e == [req[s] EXCEPT !.left = calls]
<1>1. /\ req[s] \in Requests /\ req[s].core = req[s].asked
      /\ req[s].opts \subseteq req[s].asked.options
      /\ req[s].answer \in {"none", "pending"}
  BY Running
<1>2. /\ e \in Requests /\ e.pc = "run" /\ e.left = calls /\ e.answer = req[s].answer
      /\ e.core = req[s].core /\ e.asked = req[s].asked /\ e.opts = req[s].opts
  BY <1>1, Goes
<1>3. Set(s, e)
  OBVIOUS
<1> HIDE DEF e
<1>4. messages'[s] \in Rows
  BY DEF Around
<1>5. Stage(s, e, accepted'[s], messages'[s], unindexed')
  BY <1>1, <1>2, <1>4 DEF Stage
<1> QED
  BY <1>2, <1>3, <1>5, Local DEF Around

\* Up to the delivery every call leads to the next one, or to an answer.
LEMMA Before ==
    ASSUME SendInv, NEW s \in Sends, NEW names, Awaits(s, names),
           names \cap (Deliveries \cup {"record_outgoing"}) = {},
           UNCHANGED <<runtime, messages, accepted, unindexed, moves>>,
           \/ Return(s)
           \/ \E a \in Answers \ {"UnknownEndpoint", "ok"} : Answer(s, a)
    PROVE  SendInv'
<1>1. /\ req[s].pc = "run" /\ req[s].left # << >> /\ Head(req[s].left) \in names
  BY DEF Awaits
<1>2. accepted[s] = 0 /\ messages[s] = NoRow /\ Unsent(req[s].left, req[s].core)
  <2>1. req[s].left # <<"record_outgoing">>
    BY <1>1
  <2> QED
    BY <1>1, <2>1, Running
<1>3. /\ Len(req[s].left) # 1 /\ Tail(req[s].left) \in Seq(CallNames)
      /\ Unsent(Tail(req[s].left), req[s].core)
  BY <1>1, <1>2, NextCall
<1>4. Around(s) /\ accepted'[s] = 0 /\ messages'[s] = NoRow
  BY <1>2, Alone
<1>5. CASE Return(s)
  <2>1. Set(s, [req[s] EXCEPT !.left = Tail(req[s].left)])
    BY <1>3, <1>5 DEF Return
  <2> QED
    BY <1>1, <1>3, <1>4, <2>1, Advanced
<1>6. ASSUME NEW a \in Answers \ {"UnknownEndpoint", "ok"}, Answer(s, a) PROVE SendInv'
  BY <1>1, <1>4, <1>6, Answered
<1> QED
  BY <1>5, <1>6

LEMMA Delivered ==
    ASSUME SendInv, NEW s \in Sends, deliver(s)
    PROVE  SendInv'
<1>1. /\ req[s].pc = "run" /\ req[s].left # << >> /\ Head(req[s].left) \in Deliveries
      /\ UNCHANGED <<runtime, messages, unindexed, moves>>
  BY DEF deliver, Awaits
<1>2. accepted[s] = 0 /\ messages[s] = NoRow /\ Unsent(req[s].left, req[s].core)
  <2>1. req[s].left # <<"record_outgoing">>
    BY <1>1 DEF Deliveries
  <2> QED
    BY <1>1, <2>1, Running
<1>3. /\ Records(req[s].core) =>
           Len(req[s].left) # 1 /\ Tail(req[s].left) = <<"record_outgoing">>
      /\ ~Records(req[s].core) => Len(req[s].left) = 1
      /\ Tail(req[s].left) \in Seq(CallNames)
  BY <1>1, <1>2, NextCall
<1>4. accepted \in [Sends -> Nat] /\ Typed
  BY DEF SendInv, Typed
<1>5. ASSUME Accept(s) \/ accepted' = accepted
      PROVE  Around(s) /\ accepted'[s] \in {0, 1} /\ messages'[s] = NoRow
  BY <1>1, <1>2, <1>4, <1>5 DEF Around, Typed, Accept
<1>6. CASE Accept(s) /\ Return(s)
  <2>1. accepted'[s] = 1 /\ Around(s) /\ messages'[s] = NoRow
    BY <1>2, <1>4, <1>5, <1>6 DEF Accept
  <2>2. CASE Records(req[s].core)
    <3>1. Set(s, [req[s] EXCEPT !.left = Tail(req[s].left)])
      BY <1>3, <1>6, <2>2 DEF Return
    <3> QED
      BY <1>1, <1>3, <2>1, <2>2, <3>1, Advanced
  <2>3. CASE ~Records(req[s].core)
    <3>1. Answer(s, "ok")
      BY <1>3, <1>6, <2>3 DEF Return
    <3>2. "ok" \in Answers \ {"UnknownEndpoint"} /\ "ok" \notin Refusals
      BY DEF Answers, Refusals
    <3> QED
      BY <1>1, <2>1, <2>3, <3>1, <3>2, Answered
  <2> QED
    BY <2>2, <2>3
<1>7. CASE (Accept(s) \/ UNCHANGED accepted) /\ Answer(s, "Internal")
  <2>1. "Internal" \in Answers \ {"UnknownEndpoint"} /\ "Internal" \notin Refusals
    BY DEF Answers, Refusals
  <2>2. Around(s) /\ accepted'[s] \in {0, 1} /\ messages'[s] = NoRow
    BY <1>5, <1>7
  <2> QED
    BY <1>1, <1>7, <2>1, <2>2, Answered
<1> QED
  BY <1>6, <1>7 DEF deliver

LEMMA Inserted ==
    ASSUME SendInv, NEW s \in Sends, NEW sender \in {"", "self"}, insert(s, sender)
    PROVE  /\ messages' \in [Sends -> Rows] /\ messages'[s] # NoRow
           /\ \A x \in Sends : x # s => messages'[x] = messages[x]
<1>1. messages \in [Sends -> Rows]
  BY DEF SendInv, Typed
<1>2. Row(s, sender) \in Rows /\ Row(s, sender) # NoRow
  <2>1. extract_message_content(req[s].core.message, req[s].opts) \in Types
    BY DEF extract_message_content, Types
  <2>2. "none" \notin Types
    BY DEF Types
  <2> QED
    BY <2>1, <2>2 DEF Row, Rows, NoRow
<1>3. messages' = [messages EXCEPT ![s] = IF messages[s] = NoRow THEN Row(s, sender) ELSE messages[s]]
  BY DEF insert
<1> QED
  BY <1>1, <1>2, <1>3

LEMMA Recorded ==
    ASSUME SendInv, NEW s \in Sends, record_outgoing(s)
    PROVE  SendInv'
<1>1. /\ req[s].pc = "run" /\ req[s].left # << >> /\ Head(req[s].left) = "record_outgoing"
      /\ Return(s) /\ runtime' = runtime /\ accepted' = accepted
  BY DEF record_outgoing, Awaits
<1>2. accepted[s] = 1 /\ req[s].left = <<"record_outgoing">>
  <2>1. ~Unsent(req[s].left, req[s].core)
    BY <1>1, NextCall
  <2> QED
    BY <1>1, <2>1, Running
<1>3. Typed /\ messages[s] \in Rows
  BY DEF SendInv, Typed
<1>4. Around(s) /\ (messages'[s] # NoRow \/ s \in unindexed')
  <2>1. CASE insert(s, "") /\ UNCHANGED <<unindexed, moves>>
    <3>1. /\ messages' \in [Sends -> Rows] /\ messages'[s] # NoRow
          /\ \A x \in Sends : x # s => messages'[x] = messages[x]
      BY <2>1, Inserted
    <3> QED
      BY <1>1, <1>3, <2>1, <3>1 DEF Around, Typed
  <2>2. CASE /\ moves < MaxMoves
             /\ moves' = moves + 1
             /\ unindexed' = unindexed \cup {s}
             /\ UNCHANGED messages
    <3>1. moves' \in 0..MaxMoves
      BY <1>3, <2>2, SendPathAssumption DEF Typed
    <3> QED
      BY <1>1, <1>3, <2>2, <3>1 DEF Around, Typed
  <2> QED
    BY <2>1, <2>2 DEF record_outgoing
<1>5. Answer(s, "ok")
  BY <1>1, <1>2 DEF Return
<1>6. "ok" \in Answers \ {"UnknownEndpoint"} /\ "ok" \notin Refusals
  BY DEF Answers, Refusals
<1> QED
  BY <1>1, <1>2, <1>4, <1>5, <1>6, Answered

-----------------------------------------------------------------------------
(* Every step *)

LEMMA SentNow ==
    ASSUME SendInv, NEW s \in Sends, send_now(s)
    PROVE  SendInv'
<1>1. PICK core \in AllCores : \E r \in Inputs(core) : Execute(s, core, r)
  BY DEF send_now, AllCores
<1>2. PICK r \in Inputs(core) : Execute(s, core, r)
  BY <1>1
<1>3. req[s].pc = "idle" /\ UNCHANGED <<runtime, messages, accepted, unindexed, moves>>
  BY DEF send_now
<1>4. Fresh(s, r) /\ r.asked = core
  BY <1>3, Inputted
<1> QED
  BY <1>2, <1>3, <1>4, Runs

LEMMA Scheduled ==
    ASSUME SendInv, NEW s \in Sends, maybe_schedule(s)
    PROVE  SendInv'
<1>1. PICK core \in Endpoints : \E r \in Inputs(core) :
        \/ Set(s, [r EXCEPT !.pc = "done", !.answer = "SessionNotFound"])
        \/ Set(s, [r EXCEPT !.pc = "parked", !.answer = "pending"])
        \/ Set(s, [r EXCEPT !.pc = "done", !.answer = "Internal"])
  BY DEF maybe_schedule
<1>2. PICK r \in Inputs(core) :
        \/ Set(s, [r EXCEPT !.pc = "done", !.answer = "SessionNotFound"])
        \/ Set(s, [r EXCEPT !.pc = "parked", !.answer = "pending"])
        \/ Set(s, [r EXCEPT !.pc = "done", !.answer = "Internal"])
  BY <1>1
<1>3. req[s].pc = "idle" /\ UNCHANGED <<runtime, messages, accepted, unindexed, moves>>
  BY DEF maybe_schedule
<1>4. core \in AllCores
  BY DEF AllCores
<1>5. Fresh(s, r) /\ r.asked = core
  BY <1>3, <1>4, Inputted
<1>6. {"SessionNotFound", "Internal"} \subseteq Answers \ {"UnknownEndpoint", "ok"}
  BY DEF Answers, Refusals
<1>7. ASSUME Set(s, [r EXCEPT !.pc = "parked", !.answer = "pending"]) PROVE SendInv'
  <2> DEFINE e == [r EXCEPT !.pc = "parked", !.answer = "pending"]
  <2>1. r \in Requests
    BY <1>5 DEF Fresh
  <2>2. /\ e \in Requests /\ e.pc = "parked" /\ e.left = r.left /\ e.core = r.core
        /\ e.asked = r.asked /\ e.opts = r.opts /\ e.answer = "pending"
    BY <2>1 DEF Requests, Answers
  <2>3. Set(s, e)
    BY <1>7
  <2> HIDE DEF e
  <2>4. Stage(s, e, accepted[s], messages[s], unindexed)
    BY <1>5, <2>2 DEF Stage, Fresh, Rows
  <2> QED
    BY <1>3, <2>2, <2>3, <2>4, OnlyRequest
<1> QED
  BY <1>2, <1>3, <1>5, <1>6, <1>7, Ends

\* What dispatch finds under the key of a core that is served is that core.
LEMMA Found ==
    ASSUME NEW core \in Endpoints
    PROVE  dispatch(core.key) = core /\ core # unknown
<1>1. Served(core)
  BY ServedEndpoints
<1>2. unknown.key = ""
  BY DEF unknown, Core
<1> QED
  BY <1>1, <1>2 DEF Served, Sound

LEMMA Replayed ==
    ASSUME SendInv, NEW s \in Sends, replay(s)
    PROVE  SendInv'
<1>1. req[s].pc = "parked" /\ UNCHANGED <<runtime, messages, accepted, unindexed, moves>>
  BY DEF replay
<1>2. Stage(s, req[s], accepted[s], messages[s], unindexed) /\ req[s] \in Requests
  BY DEF SendInv, Typed
<1>3. Fresh(s, req[s]) /\ req[s].asked \in Endpoints
  BY ONLY <1>1, <1>2 DEF Stage, Fresh
<1>4. Execute(s, req[s].asked, req[s])
  BY <1>3, Found DEF replay
<1> QED
  BY <1>1, <1>3, <1>4, Runs

LEMMA Blasted ==
    ASSUME SendInv, NEW s \in Sends, blast_send(s)
    PROVE  SendInv'
<1>1. PICK core \in AllCores : \E r \in Inputs(core) :
         IF core.key \notin validate_body
         THEN Set(s, [r EXCEPT !.pc = "done", !.answer = "BadRequest"])
         ELSE IF dispatch(core.key) = unknown
         THEN Set(s, [r EXCEPT !.pc = "done", !.answer = "UnknownEndpoint"])
         ELSE Execute(s, dispatch(core.key), r)
  BY DEF blast_send, AllCores
<1>2. core \notin Endpoints => core.key \notin validate_body
  BY DirectCores DEF AllCores
<1>3. core \in Endpoints => core.key \in validate_body /\ dispatch(core.key) = core /\ core # unknown
  BY ServedEndpoints, Found DEF Served
<1>4. PICK r \in Inputs(core) :
        \/ Set(s, [r EXCEPT !.pc = "done", !.answer = "BadRequest"])
        \/ Execute(s, core, r)
  BY <1>1, <1>2, <1>3
<1>5. req[s].pc = "idle" /\ UNCHANGED <<runtime, messages, accepted, unindexed, moves>>
  BY DEF blast_send
<1>6. Fresh(s, r) /\ r.asked = core
  BY <1>5, Inputted
<1>7. "BadRequest" \in Answers \ {"UnknownEndpoint", "ok"}
  BY DEF Answers, Refusals
<1> QED
  BY <1>4, <1>5, <1>6, <1>7, Ends, Runs

LEMMA Prepared ==
    ASSUME SendInv, NEW s \in Sends, resolve(s) \/ fetch(s) \/ get_media_data(s)
    PROVE  SendInv'
<1>1. UNCHANGED <<runtime, messages, accepted, unindexed, moves>>
  BY DEF resolve, fetch, get_media_data
<1> DEFINE names == {"resolve", "get_metadata", "upload", "get_media_data"}
<1>2. Awaits(s, names)
  BY DEF resolve, fetch, get_media_data, Awaits
<1>3. {"InvalidJid", "BadRequest", "Internal", "MediaUploadFailed"}
      \subseteq Answers \ {"UnknownEndpoint", "ok"}
  BY DEF Answers, Refusals
<1>4. \/ Return(s)
      \/ \E a \in {"InvalidJid", "BadRequest", "Internal", "MediaUploadFailed"} : Answer(s, a)
  <2>1. CASE resolve(s)
    BY <2>1 DEF resolve
  <2>2. CASE fetch(s) \/ get_media_data(s)
    BY <2>2 DEF fetch, get_media_data
  <2> QED
    BY <2>1, <2>2
<1>5. names \cap (Deliveries \cup {"record_outgoing"}) = {}
  BY DEF Deliveries
<1> HIDE DEF names
<1> QED
  BY <1>1, <1>2, <1>3, <1>4, <1>5, Before

LEMMA Hung ==
    ASSUME SendInv, NEW s \in Sends, Dropped(s)
    PROVE  SendInv'
<1>1. /\ req[s].pc = "run" /\ Answer(s, "none")
      /\ UNCHANGED <<runtime, messages, accepted, unindexed, moves>>
  BY DEF Dropped
<1>2. accepted[s] \in {0, 1} /\ (messages[s] # NoRow => accepted[s] = 1)
  BY <1>1, Running
<1>3. "none" \in Answers \ {"UnknownEndpoint"} /\ "none" \notin Refusals
  BY DEF Answers, Refusals
<1> QED
  BY <1>1, <1>2, <1>3, Alone, Answered

\* The index gains a row for a message WhatsApp has; requests stay.
LEMMA Echoed ==
    ASSUME SendInv, NEW s \in Sends, record_incoming(s)
    PROVE  SendInv'
<1>1. /\ accepted[s] > 0 /\ moves < MaxMoves /\ moves' = moves + 1
      /\ UNCHANGED <<runtime, req, accepted, unindexed>>
  BY DEF record_incoming, Move
<1>2. Typed /\ \A x \in Sends : Stage(x, req[x], accepted[x], messages[x], unindexed)
  BY DEF SendInv
<1>3. /\ messages' \in [Sends -> Rows] /\ messages'[s] # NoRow
      /\ \A x \in Sends : x # s => messages'[x] = messages[x]
  BY Inserted DEF record_incoming
<1>4. Typed'
  <2>1. moves' \in 0..MaxMoves
    BY <1>1, <1>2, SendPathAssumption DEF Typed
  <2> QED
    BY <1>1, <1>2, <1>3, <2>1 DEF Typed
<1>5. Stage(s, req[s], accepted[s], messages'[s], unindexed)
  <2>1. Stage(s, req[s], accepted[s], messages[s], unindexed)
    BY <1>2
  <2>2. accepted[s] = 1
    BY ONLY <1>1, <2>1 DEF Stage
  <2>3. messages'[s] \in Rows
    BY <1>3
  <2> QED
    BY ONLY <1>3, <2>1, <2>2, <2>3 DEF Stage
<1>6. ASSUME NEW x \in Sends PROVE Stage(x, req'[x], accepted'[x], messages'[x], unindexed')
  <2>1. CASE x = s
    BY <1>1, <1>5, <2>1
  <2>2. CASE x # s
    BY <1>1, <1>2, <1>3, <2>2
  <2> QED
    BY <2>1, <2>2
<1> QED
  BY <1>4, <1>6 DEF SendInv

LEMMA SendInit ==
    Init => SendInv
<1> SUFFICES ASSUME Init PROVE SendInv
  OBVIOUS
<1>1. /\ runtime \in {"absent", "offline", "live"} /\ req = [s \in Sends |-> Idle]
      /\ messages = [s \in Sends |-> NoRow] /\ accepted = [s \in Sends |-> 0]
      /\ unindexed = {} /\ moves = 0
  BY DEF Init
<1>2. Idle \in Requests
  <2>1. text \in AllCores
    BY DEF AllCores, Endpoints
  <2>2. << >> \in Seq(CallNames)
    OBVIOUS
  <2> QED
    BY <2>1, <2>2 DEF Idle, Requests, Jids, Answers
<1>3. Typed
  BY <1>1, <1>2, SendPathAssumption DEF Typed, Rows
<1>4. ASSUME NEW s \in Sends PROVE Stage(s, req[s], accepted[s], messages[s], unindexed)
  <2>1. req[s] = Idle /\ accepted[s] = 0 /\ messages[s] = NoRow
    BY <1>1
  <2>2. /\ Idle.pc = "idle" /\ Idle.left = << >> /\ Idle.answer = "none"
        /\ Idle.core = Idle.asked /\ Idle.opts = {}
    BY DEF Idle
  <2> QED
    BY <2>1, <2>2 DEF Stage, Rows
<1> QED
  BY <1>3, <1>4 DEF SendInv

LEMMA SendNext ==
    SendInv /\ [Next]_vars => SendInv'
<1> SUFFICES ASSUME SendInv, [Next]_vars PROVE SendInv'
  OBVIOUS
<1>1. CASE UNCHANGED vars
  BY <1>1 DEF vars, SendInv, Typed
<1>2. CASE RuntimeMoves
  <2>1. /\ runtime' \in {"absent", "offline", "live"} /\ moves < MaxMoves /\ moves' = moves + 1
        /\ UNCHANGED <<req, messages, accepted, unindexed>>
    BY <1>2 DEF RuntimeMoves, Move
  <2>2. moves' \in 0..MaxMoves
    BY <2>1, SendPathAssumption DEF SendInv, Typed
  <2> QED
    BY <2>1, <2>2 DEF SendInv, Typed
<1> QED
  BY <1>1, <1>2, SentNow, Scheduled, Replayed, Blasted, Prepared, Delivered, Recorded, Echoed, Hung
     DEF Next

\* The invariant holds in every state that can be reached.
THEOREM Invariant ==
    Spec => []SendInv
BY SendInit, SendNext, PTL DEF Spec

\* Every core is found again under the key its handler stores, in dispatch and in
\* validate_body, and nothing else runs for a request (ReplayedByItsCore).
THEOREM Replays ==
    Spec => []ReplayedByItsCore
<1>1. SendInv => ReplayedByItsCore
  BY DEF SendInv, Stage, ReplayedByItsCore
<1> QED
  BY <1>1, Invariant, PTL

\* A core asks WhatsApp once, after everything that may refuse a request: a refusal
\* means that nothing was sent (AnsweredTruly: the order of calls in the cores).
THEOREM Truthful ==
    Spec => []AnsweredTruly
<1>1. SendInv => AnsweredTruly
  <2> SUFFICES ASSUME SendInv, NEW s \in Sends
               PROVE  (req[s].answer \in Refusals => accepted[s] = 0) /\ accepted[s] <= 1
    BY DEF AnsweredTruly, RefusedIsUnsent, SentOnce
  <2>1. Stage(s, req[s], accepted[s], messages[s], unindexed) /\ req[s] \in Requests
    BY DEF SendInv, Typed
  <2>2. accepted[s] \in {0, 1}
    BY ONLY <2>1 DEF Stage
  <2>3. req[s].pc \in {"idle", "parked", "run", "done"}
    BY <2>1, Fields
  <2>4. "none" \notin Refusals /\ "pending" \notin Refusals
    BY DEF Refusals
  <2>5. req[s].answer \in Refusals => accepted[s] = 0
    BY ONLY <2>1, <2>3, <2>4 DEF Stage
  <2> QED
    BY <2>2, <2>5
<1> QED
  BY <1>1, Invariant, PTL

\* The index holds what WhatsApp has, and what was answered with success, whoever
\* of core and event loop writes a row first (IndexIsTrue: record_outgoing).
THEOREM Index ==
    Spec => []IndexIsTrue
<1>1. SendInv => IndexIsTrue
  <2> SUFFICES ASSUME SendInv PROVE TypeOK /\ IndexOnlySent /\ AnsweredIsIndexed
    BY DEF IndexIsTrue
  <2>1. Typed /\ \A s \in Sends : Stage(s, req[s], accepted[s], messages[s], unindexed)
    BY DEF SendInv
  <2>2. TypeOK
    <3>1. ASSUME NEW s \in Sends
          PROVE  /\ req[s].pc \in {"idle", "parked", "run", "done"}
                 /\ {req[s].asked, req[s].core} \subseteq Endpoints \cup Direct
                 /\ req[s].jid \in Jids /\ req[s].opts \subseteq req[s].asked.options
                 /\ req[s].answer \in Answers
                 /\ (req[s].pc = "run") = (req[s].left # << >>)
                 /\ messages[s] = NoRow \/ messages[s].sender \in {"", "self"}
      <4>1. req[s] \in Requests /\ messages[s] \in Rows
        BY <2>1 DEF Typed
      <4>2. Stage(s, req[s], accepted[s], messages[s], unindexed)
        BY <2>1
      <4>3. req[s].opts \subseteq req[s].asked.options /\ (req[s].pc # "run" => req[s].left = << >>)
        BY ONLY <4>2 DEF Stage
      <4>4. req[s].pc = "run" => req[s].left # << >>
        <5>1. CASE Unsent(req[s].left, req[s].core)
          BY <5>1, NextCall
        <5>2. CASE req[s].left = <<"record_outgoing">>
          BY <5>2
        <5> QED
          BY <2>1, <5>1, <5>2, Running
      <4>5. messages[s] = NoRow \/ messages[s].sender \in {"", "self"}
        BY <4>1 DEF Rows
      <4> QED
        BY <4>1, <4>3, <4>4, <4>5, Fields DEF AllCores
    <3> QED
      BY <2>1, <3>1 DEF TypeOK, Typed
  <2>3. IndexOnlySent
    BY <2>1 DEF Stage, IndexOnlySent
  <2>4. AnsweredIsIndexed
    <3> SUFFICES ASSUME NEW s \in Sends, req[s].answer = "ok", req[s].core \in Endpoints \ {comment}
                 PROVE  messages[s] # NoRow \/ s \in unindexed
      BY DEF AnsweredIsIndexed
    <3>1. Stage(s, req[s], accepted[s], messages[s], unindexed) /\ req[s] \in Requests
      BY <2>1 DEF Typed
    <3>2. req[s].pc \in {"idle", "parked", "run", "done"} /\ req[s].core \in AllCores
      BY <3>1, Fields
    <3>3. Records(req[s].core)
      BY <3>2, AnyCore
    <3> QED
      BY ONLY <3>1, <3>2, <3>3, req[s].answer = "ok" DEF Stage
  <2> QED
    BY <2>2, <2>3, <2>4
<1> QED
  BY <1>1, Invariant, PTL
=============================================================================
