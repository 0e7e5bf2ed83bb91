------------------------------ MODULE Smartbus ------------------------------
(***************************************************************************)
(* The frames of wb-homa-smartbus: a command to a relay, its length and    *)
(* its checksum.  A frame is a sequence of bytes.                          *)
(***************************************************************************)
EXTENDS Integers, Sequences, SequencesExt, Bitwise

RELAYS == (4..12) \cup {15}

crc16tab == <<
  \h0000, \h1021, \h2042, \h3063, \h4084, \h50a5, \h60c6, \h70e7,
  \h8108, \h9129, \ha14a, \hb16b, \hc18c, \hd1ad, \he1ce, \hf1ef,
  \h1231, \h0210, \h3273, \h2252, \h52b5, \h4294, \h72f7, \h62d6,
  \h9339, \h8318, \hb37b, \ha35a, \hd3bd, \hc39c, \hf3ff, \he3de,
  \h2462, \h3443, \h0420, \h1401, \h64e6, \h74c7, \h44a4, \h5485,
  \ha56a, \hb54b, \h8528, \h9509, \he5ee, \hf5cf, \hc5ac, \hd58d,
  \h3653, \h2672, \h1611, \h0630, \h76d7, \h66f6, \h5695, \h46b4,
  \hb75b, \ha77a, \h9719, \h8738, \hf7df, \he7fe, \hd79d, \hc7bc,
  \h48c4, \h58e5, \h6886, \h78a7, \h0840, \h1861, \h2802, \h3823,
  \hc9cc, \hd9ed, \he98e, \hf9af, \h8948, \h9969, \ha90a, \hb92b,
  \h5af5, \h4ad4, \h7ab7, \h6a96, \h1a71, \h0a50, \h3a33, \h2a12,
  \hdbfd, \hcbdc, \hfbbf, \heb9e, \h9b79, \h8b58, \hbb3b, \hab1a,
  \h6ca6, \h7c87, \h4ce4, \h5cc5, \h2c22, \h3c03, \h0c60, \h1c41,
  \hedae, \hfd8f, \hcdec, \hddcd, \had2a, \hbd0b, \h8d68, \h9d49,
  \h7e97, \h6eb6, \h5ed5, \h4ef4, \h3e13, \h2e32, \h1e51, \h0e70,
  \hff9f, \hefbe, \hdfdd, \hcffc, \hbf1b, \haf3a, \h9f59, \h8f78,
  \h9188, \h81a9, \hb1ca, \ha1eb, \hd10c, \hc12d, \hf14e, \he16f,
  \h1080, \h00a1, \h30c2, \h20e3, \h5004, \h4025, \h7046, \h6067,
  \h83b9, \h9398, \ha3fb, \hb3da, \hc33d, \hd31c, \he37f, \hf35e,
  \h02b1, \h1290, \h22f3, \h32d2, \h4235, \h5214, \h6277, \h7256,
  \hb5ea, \ha5cb, \h95a8, \h8589, \hf56e, \he54f, \hd52c, \hc50d,
  \h34e2, \h24c3, \h14a0, \h0481, \h7466, \h6447, \h5424, \h4405,
  \ha7db, \hb7fa, \h8799, \h97b8, \he75f, \hf77e, \hc71d, \hd73c,
  \h26d3, \h36f2, \h0691, \h16b0, \h6657, \h7676, \h4615, \h5634,
  \hd94c, \hc96d, \hf90e, \he92f, \h99c8, \h89e9, \hb98a, \ha9ab,
  \h5844, \h4865, \h7806, \h6827, \h18c0, \h08e1, \h3882, \h28a3,
  \hcb7d, \hdb5c, \heb3f, \hfb1e, \h8bf9, \h9bd8, \habbb, \hbb9a,
  \h4a75, \h5a54, \h6a37, \h7a16, \h0af1, \h1ad0, \h2ab3, \h3a92,
  \hfd2e, \hed0f, \hdd6c, \hcd4d, \hbdaa, \had8b, \h9de8, \h8dc9,
  \h7c26, \h6c07, \h5c64, \h4c45, \h3ca2, \h2c83, \h1ce0, \h0cc1,
  \hef1f, \hff3e, \hcf5d, \hdf7c, \haf9b, \hbfba, \h8fd9, \h9ff8,
  \h6e17, \h7e36, \h4e55, \h5e74, \h2e93, \h3eb2, \h0ed1, \h1ef0 >>

crc16_floating(b, seed) ==
  ((seed * 256) % 65536) ^^ crc16tab[((seed \div 256) ^^ b) + 1]

\* Slip: the bytes of the checksum are left in the order of the host.
crc16_buf_unswapped(buf) == FoldLeft(LAMBDA seed, b : crc16_floating(b, seed), 0, buf)

crc16_buf(buf) ==
  LET crc == FoldLeft(LAMBDA seed, b : crc16_floating(b, seed), 0, buf)
  IN (crc \div 256) + (crc % 256) * 256

\* pack("!H") is in network order, pack("H") in that of the host, little-endian.
NetworkOrder(n) == <<n \div 256, n % 256>>
HostOrder(n) == <<n % 256, n \div 256>>

make_packet(orig_subnet, orig_device, orig_type, opcode, target_subnet, target_device, content) ==
  LET packet == <<orig_subnet, orig_device>> \o NetworkOrder(orig_type)
                  \o NetworkOrder(opcode) \o <<target_subnet, target_device>> \o content
      sized == <<Len(packet) + 3>> \o packet
  IN <<\haa, \haa>> \o sized \o HostOrder(crc16_buf(sized))

\* What toggle_switch writes to the line.
toggle_switch(channel, on) ==
  make_packet(1, \h14, \h0095, \h31, 1, \h1c,
              <<channel, IF on THEN 100 ELSE 0>> \o NetworkOrder(0))
=============================================================================
