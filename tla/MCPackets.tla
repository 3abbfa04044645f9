----------------------------- MODULE MCPackets -----------------------------
(* Messages for TLC: one to three packets of every kind, a packet that is not
   known between known ones, packets the code has no way past, and popularities
   that hold a single brace, or both the wrong way round, next to the echo of
   the heartbeat. *)
EXTENDS Packets

MCPopularities == {<<"x", "{">>, <<"}", "{">>, <<"}", "x">>}
MCPayload ==
    <<Plain("DANMU_MSG"), Plain("WIDGET_BANNER"), Heartbeat(<<"x", "{">>, TRUE), Plain("SEND_GIFT")>>
MCPackets ==
    {Plain("DANMU_MSG"), Plain("SEND_GIFT"), Plain(""), Other(TRUE)}
    \cup {Heartbeat(popularity, TRUE) : popularity \in MCPopularities}
    \cup {Zlib(MCPayload, TRUE), Zlib(MCPayload, FALSE), Zlib(<<>>, TRUE),
          Brotli(MCPayload, TRUE, FALSE), Brotli(MCPayload, FALSE, FALSE)}

\* Packets the code does not get past; a reply without its echo, or a packet of
\* size 0, also in a compressed body.
MCNoWayOn ==
    {Other(FALSE), Heartbeat(<<"}", "{">>, FALSE), Brotli(MCPayload, TRUE, TRUE)}
    \cup {Zlib(<<Plain("DANMU_MSG"), q>>, TRUE) : q \in {Other(FALSE), Heartbeat(<<"x", "{">>, FALSE)}}

MCMessages == {<<p>> : p \in MCPackets} \cup
    {<<Plain("DANMU_MSG"), p, Plain("SEND_GIFT")>> : p \in MCPackets} \cup
    {<<p, q>> : p \in MCPackets,
                q \in {Plain("SEND_GIFT"), Heartbeat(<<"}", "{">>, TRUE), Brotli(MCPayload, TRUE, FALSE)}} \cup
    {<<Plain("SEND_GIFT"), p>> : p \in MCNoWayOn} \cup
    {<<p, Plain("DANMU_MSG")>> : p \in {Other(FALSE), Brotli(MCPayload, TRUE, TRUE)}}
=============================================================================
