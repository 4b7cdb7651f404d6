------------------------------ MODULE MakeApdu ------------------------------
(***************************************************************************)
(* The services of mstp/make_apdu.cpp.  An APDU is its fixed first octets  *)
(* ("head") and the fields encoded behind them.                            *)
(***************************************************************************)
EXTENDS Bacdcode, SequencesExt

Apdu(head, fields) == [head |-> head, fields |-> fields]

(* npdu->data after the service's last encode call. *)
ApduOctets(a) == a.head \o FlattenSeq([i \in DOMAIN a.fields |-> Encode(a.fields[i])])

-----------------------------------------------------------------------------
apdu_simple_ack(id, service) == Apdu(<<32, id, service>>, << >>)

apdu_error(id, choice, class, code) ==
  Apdu(<<80, id, choice>>,
       <<Field("enum", Application, Small(class)),
         Field("enum", Application, Small(code))>>)

apdu_abort(id, reason) == Apdu(<<112 + 1, id, reason>>, << >>)

apdu_reject(id, reason) == Apdu(<<96, id, reason>>, << >>)

apdu_iam(instance, vendor) ==
  Apdu(<<16, 0>>,
       <<Field("object", Application, <<8, instance>>),
         Field("unsigned", Application, Small(MaxApduLen)),
         Field("enum", Application, Small(1)),
         Field("unsigned", Application, Small(vendor))>>)

(* A parameter that a service may be called without is a sequence of one   *)
(* or no value.                                                            *)
Optional(kind, tag, val) == [i \in DOMAIN val |-> Field(kind, tag, val[i])]

Property(object, property, index) ==
  <<Field("object", 0, object), Field("unsigned", 1, Small(property))>>
    \o Optional("unsigned", 2, index)

(* Segments: none are accepted (<< >>), or <<max_segs, max_seg_size>>, at  *)
(* most <<7, 15>> (otherwise there is no APDU).                            *)
apdu_read_property(id, object, property, index, segments) ==
  Apdu(IF segments = << >> THEN <<0, 0, id, 12>>
       ELSE <<2, 16 * segments[1] + segments[2], id, 12>>,
       Property(object, property, index))

apdu_write_prop(id, object, property, index, value, priority) ==
  Apdu(<<0, 0, id, 15>>,
       Property(object, property, index)
         \o <<Field("opening", 3, << >>), value, Field("closing", 3, << >>)>>
         \o Optional("unsigned", 4, priority))

Null == Field("null", Application, << >>)

apdu_write_prop_real(id, object, property, value, index, priority) ==
  apdu_write_prop(id, object, property, index,
    IF value = << >> THEN Null ELSE Field("real", Application, value[1]), priority)

apdu_write_prop_enum(id, object, property, value, index, priority) ==
  apdu_write_prop(id, object, property, index,
    IF value = << >> THEN Null ELSE Field("enum", Application, value[1]), priority)

Range32(low, high) == <<Field("unsigned", 0, low), Field("unsigned", 1, high)>>

apdu_who_is == Apdu(<<16, 8>>, << >>)

apdu_who_is_ranged(low, high) == Apdu(<<16, 8>>, Range32(low, high))

Named(object, name) ==
  IF name = << >> THEN <<Field("object", 2, object)>>
  ELSE <<Field("string", 3, name[1])>>

apdu_who_has(object, name) == Apdu(<<16, 7>>, Named(object, name))

apdu_who_has_ranged(low, high, object, name) ==
  Apdu(<<16, 7>>, Range32(low, high) \o Named(object, name))

segment_ack_pdu(id, seq, window, nak, srv) ==
  Apdu(<<64 + (IF nak THEN 2 ELSE 0) + (IF srv THEN 1 ELSE 0), id, seq, window>>,
       << >>)

=============================================================================
