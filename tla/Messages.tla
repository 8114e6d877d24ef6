------------------------------ MODULE Messages ------------------------------
(***************************************************************************)
(* The protobuf messages of the application interface (and, in DataTypes,  *)
(* what they are made of), as their generated code declares, writes,       *)
(* measures, reads and compares them.  For a message M:                    *)
(*   M            its fields and their kinds;                              *)
(*   M_MarshalTo  the fields in the order written, with their tag bytes;   *)
(*   M_Size       the fields measured, with the bytes counted besides the  *)
(*                value (a bool is counted with its value);                *)
(*   M_Unmarshal  the cases of the reader: number, wire type, field;       *)
(*   M_Equal      the fields compared (and XXX_unrecognized, always).      *)
(* The four tables come from four functions that nothing keeps in step but *)
(* the generator; Wire interprets them.  A oneof has a table per arm.      *)
(***************************************************************************)
EXTENDS DataTypes

-----------------------------------------------------------------------------
(* abci/types/types.pb.go *)

Request == [Echo |-> Arm("RequestEcho"), Flush |-> Arm("RequestFlush"), Info |->
  Arm("RequestInfo"), SetOption |-> Arm("RequestSetOption"), InitChain |->
  Arm("RequestInitChain"), Query |-> Arm("RequestQuery"), BeginBlock |->
  Arm("RequestBeginBlock"), CheckTx |-> Arm("RequestCheckTx"), DeliverTx |->
  Arm("RequestDeliverTx"), EndBlock |-> Arm("RequestEndBlock"), Commit |-> Arm("RequestCommit")]
Request_MarshalTo_FromEndBlock == <<<<"EndBlock", <<90>>>>, <<"Commit", <<98>>>>, <<"DeliverTx",
  <<154, 1>>>>>>
Request_MarshalTo == <<<<"Echo", <<18>>>>, <<"Flush", <<26>>>>, <<"Info", <<34>>>>,
  <<"SetOption", <<42>>>>, <<"InitChain", <<50>>>>, <<"Query", <<58>>>>, <<"BeginBlock",
  <<66>>>>, <<"CheckTx", <<74>>>>>> \o Request_MarshalTo_FromEndBlock
Request_Size == <<<<"Echo", 1>>, <<"Flush", 1>>, <<"Info", 1>>, <<"SetOption", 1>>,
  <<"InitChain", 1>>, <<"Query", 1>>, <<"BeginBlock", 1>>, <<"CheckTx", 1>>, <<"EndBlock", 1>>,
  <<"Commit", 1>>, <<"DeliverTx", 2>>>>
Request_Equal_FromCommit == {"Commit"}
Request_Equal_FromInitChain == {"InitChain", "Query", "BeginBlock", "CheckTx", "DeliverTx",
  "EndBlock"} \union Request_Equal_FromCommit
Request_Equal == {"Echo", "Flush", "Info", "SetOption"} \union Request_Equal_FromInitChain
Request_Unmarshal_FromCheckTx == {<<9, 2, "CheckTx">>, <<11, 2, "EndBlock">>, <<12, 2,
  "Commit">>, <<19, 2, "DeliverTx">>}
Request_Unmarshal_FromSetOption == {<<5, 2, "SetOption">>, <<6, 2, "InitChain">>, <<7, 2,
  "Query">>, <<8, 2, "BeginBlock">>} \union Request_Unmarshal_FromCheckTx
Request_Unmarshal == {<<2, 2, "Echo">>, <<3, 2, "Flush">>, <<4, 2, "Info">>} \union
  Request_Unmarshal_FromSetOption

RequestEcho == [Message |-> Bytes]
RequestEcho_MarshalTo == <<<<"Message", <<10>>>>>>
RequestEcho_Size == <<<<"Message", 1>>>>
RequestEcho_Unmarshal == {<<1, 2, "Message">>}
RequestEcho_Equal == {"Message"}

RequestFlush == NoFields
RequestFlush_MarshalTo == <<>>
RequestFlush_Size == <<>>
RequestFlush_Unmarshal == {}
RequestFlush_Equal == {}

RequestInfo == [Version |-> Bytes, BlockVersion |-> Num, P2PVersion |-> Num]
RequestInfo_MarshalTo == <<<<"Version", <<10>>>>, <<"BlockVersion", <<16>>>>, <<"P2PVersion",
  <<24>>>>>>
RequestInfo_Size == <<<<"Version", 1>>, <<"BlockVersion", 1>>, <<"P2PVersion", 1>>>>
RequestInfo_Unmarshal == {<<1, 2, "Version">>, <<2, 0, "BlockVersion">>, <<3, 0, "P2PVersion">>}
RequestInfo_Equal == {"Version", "BlockVersion", "P2PVersion"}

RequestSetOption == [Key |-> Bytes, Value |-> Bytes]
RequestSetOption_MarshalTo == <<<<"Key", <<10>>>>, <<"Value", <<18>>>>>>
RequestSetOption_Size == <<<<"Key", 1>>, <<"Value", 1>>>>
RequestSetOption_Unmarshal == {<<1, 2, "Key">>, <<2, 2, "Value">>}
RequestSetOption_Equal == {"Key", "Value"}

RequestInitChain == [Time |-> Val("Timestamp"), ChainId |-> Bytes, ConsensusParams |->
  Opt("ConsensusParams"), Validators |-> Rep("ValidatorUpdate"), AppStateBytes |-> Bytes]
RequestInitChain_MarshalTo == <<<<"Time", <<10>>>>, <<"ChainId", <<18>>>>, <<"ConsensusParams",
  <<26>>>>, <<"Validators", <<34>>>>, <<"AppStateBytes", <<42>>>>>>
RequestInitChain_Size == <<<<"Time", 1>>, <<"ChainId", 1>>, <<"ConsensusParams", 1>>,
  <<"Validators", 1>>, <<"AppStateBytes", 1>>>>
RequestInitChain_Unmarshal == {<<1, 2, "Time">>, <<2, 2, "ChainId">>, <<3, 2,
  "ConsensusParams">>, <<4, 2, "Validators">>, <<5, 2, "AppStateBytes">>}
RequestInitChain_Equal == {"Time", "ChainId", "ConsensusParams", "Validators", "AppStateBytes"}

RequestQuery == [Data |-> Bytes, Path |-> Bytes, Height |-> Num, Prove |-> Bool]
RequestQuery_MarshalTo == <<<<"Data", <<10>>>>, <<"Path", <<18>>>>, <<"Height", <<24>>>>,
  <<"Prove", <<32>>>>>>
RequestQuery_Size == <<<<"Data", 1>>, <<"Path", 1>>, <<"Height", 1>>, <<"Prove", 2>>>>
RequestQuery_Unmarshal == {<<1, 2, "Data">>, <<2, 2, "Path">>, <<3, 0, "Height">>, <<4, 0,
  "Prove">>}
RequestQuery_Equal == {"Data", "Path", "Height", "Prove"}

RequestBeginBlock == [Hash |-> Bytes, Header |-> Val("Header"), LastCommitInfo |->
  Val("LastCommitInfo"), ByzantineValidators |-> Rep("Evidence")]
RequestBeginBlock_MarshalTo == <<<<"Hash", <<10>>>>, <<"Header", <<18>>>>, <<"LastCommitInfo",
  <<26>>>>, <<"ByzantineValidators", <<34>>>>>>
RequestBeginBlock_Size == <<<<"Hash", 1>>, <<"Header", 1>>, <<"LastCommitInfo", 1>>,
  <<"ByzantineValidators", 1>>>>
RequestBeginBlock_Unmarshal == {<<1, 2, "Hash">>, <<2, 2, "Header">>, <<3, 2,
  "LastCommitInfo">>, <<4, 2, "ByzantineValidators">>}
RequestBeginBlock_Equal == {"Hash", "Header", "LastCommitInfo", "ByzantineValidators"}

RequestCheckTx == [Tx |-> Bytes]
RequestCheckTx_MarshalTo == <<<<"Tx", <<10>>>>>>
RequestCheckTx_Size == <<<<"Tx", 1>>>>
RequestCheckTx_Unmarshal == {<<1, 2, "Tx">>}
RequestCheckTx_Equal == {"Tx"}

RequestDeliverTx == [Tx |-> Bytes]
RequestDeliverTx_MarshalTo == <<<<"Tx", <<10>>>>>>
RequestDeliverTx_Size == <<<<"Tx", 1>>>>
RequestDeliverTx_Unmarshal == {<<1, 2, "Tx">>}
RequestDeliverTx_Equal == {"Tx"}

RequestEndBlock == [Height |-> Num]
RequestEndBlock_MarshalTo == <<<<"Height", <<8>>>>>>
RequestEndBlock_Size == <<<<"Height", 1>>>>
RequestEndBlock_Unmarshal == {<<1, 0, "Height">>}
RequestEndBlock_Equal == {"Height"}

RequestCommit == NoFields
RequestCommit_MarshalTo == <<>>
RequestCommit_Size == <<>>
RequestCommit_Unmarshal == {}
RequestCommit_Equal == {}

Response == [Exception |-> Arm("ResponseException"), Echo |-> Arm("ResponseEcho"), Flush |->
  Arm("ResponseFlush"), Info |-> Arm("ResponseInfo"), SetOption |-> Arm("ResponseSetOption"),
  InitChain |-> Arm("ResponseInitChain"), Query |-> Arm("ResponseQuery"), BeginBlock |->
  Arm("ResponseBeginBlock"), CheckTx |-> Arm("ResponseCheckTx"), DeliverTx |->
  Arm("ResponseDeliverTx"), EndBlock |-> Arm("ResponseEndBlock"), Commit |->
  Arm("ResponseCommit")]
Response_MarshalTo_FromCheckTx == <<<<"CheckTx", <<74>>>>, <<"DeliverTx", <<82>>>>,
  <<"EndBlock", <<90>>>>, <<"Commit", <<98>>>>>>
Response_MarshalTo == <<<<"Exception", <<10>>>>, <<"Echo", <<18>>>>, <<"Flush", <<26>>>>,
  <<"Info", <<34>>>>, <<"SetOption", <<42>>>>, <<"InitChain", <<50>>>>, <<"Query", <<58>>>>,
  <<"BeginBlock", <<66>>>>>> \o Response_MarshalTo_FromCheckTx
Response_Size_FromCommit == <<<<"Commit", 1>>>>
Response_Size == <<<<"Exception", 1>>, <<"Echo", 1>>, <<"Flush", 1>>, <<"Info", 1>>,
  <<"SetOption", 1>>, <<"InitChain", 1>>, <<"Query", 1>>, <<"BeginBlock", 1>>, <<"CheckTx", 1>>,
  <<"DeliverTx", 1>>, <<"EndBlock", 1>>>> \o Response_Size_FromCommit
Response_Equal_FromEndBlock == {"EndBlock", "Commit"}
Response_Equal_FromSetOption == {"SetOption", "InitChain", "Query", "BeginBlock", "CheckTx",
  "DeliverTx"} \union Response_Equal_FromEndBlock
Response_Equal == {"Exception", "Echo", "Flush", "Info"} \union Response_Equal_FromSetOption
Response_Unmarshal_FromCommit == {<<12, 2, "Commit">>}
Response_Unmarshal_FromBeginBlock == {<<8, 2, "BeginBlock">>, <<9, 2, "CheckTx">>, <<10, 2,
  "DeliverTx">>, <<11, 2, "EndBlock">>} \union Response_Unmarshal_FromCommit
Response_Unmarshal_FromInfo == {<<4, 2, "Info">>, <<5, 2, "SetOption">>, <<6, 2, "InitChain">>,
  <<7, 2, "Query">>} \union Response_Unmarshal_FromBeginBlock
Response_Unmarshal == {<<1, 2, "Exception">>, <<2, 2, "Echo">>, <<3, 2, "Flush">>} \union
  Response_Unmarshal_FromInfo

ResponseException == [Error |-> Bytes]
ResponseException_MarshalTo == <<<<"Error", <<10>>>>>>
ResponseException_Size == <<<<"Error", 1>>>>
ResponseException_Unmarshal == {<<1, 2, "Error">>}
ResponseException_Equal == {"Error"}

ResponseEcho == [Message |-> Bytes]
ResponseEcho_MarshalTo == <<<<"Message", <<10>>>>>>
ResponseEcho_Size == <<<<"Message", 1>>>>
ResponseEcho_Unmarshal == {<<1, 2, "Message">>}
ResponseEcho_Equal == {"Message"}

ResponseFlush == NoFields
ResponseFlush_MarshalTo == <<>>
ResponseFlush_Size == <<>>
ResponseFlush_Unmarshal == {}
ResponseFlush_Equal == {}

ResponseInfo == [Data |-> Bytes, Version |-> Bytes, AppVersion |-> Num, LastBlockHeight |-> Num,
  LastBlockAppHash |-> Bytes]
ResponseInfo_MarshalTo == <<<<"Data", <<10>>>>, <<"Version", <<18>>>>, <<"AppVersion", <<24>>>>,
  <<"LastBlockHeight", <<32>>>>, <<"LastBlockAppHash", <<42>>>>>>
ResponseInfo_Size == <<<<"Data", 1>>, <<"Version", 1>>, <<"AppVersion", 1>>,
  <<"LastBlockHeight", 1>>, <<"LastBlockAppHash", 1>>>>
ResponseInfo_Unmarshal == {<<1, 2, "Data">>, <<2, 2, "Version">>, <<3, 0, "AppVersion">>, <<4,
  0, "LastBlockHeight">>, <<5, 2, "LastBlockAppHash">>}
ResponseInfo_Equal == {"Data", "Version", "AppVersion", "LastBlockHeight", "LastBlockAppHash"}

ResponseSetOption == [Code |-> Num, Log |-> Bytes, Info |-> Bytes]
ResponseSetOption_MarshalTo == <<<<"Code", <<8>>>>, <<"Log", <<26>>>>, <<"Info", <<34>>>>>>
ResponseSetOption_Size == <<<<"Code", 1>>, <<"Log", 1>>, <<"Info", 1>>>>
ResponseSetOption_Unmarshal == {<<1, 0, "Code">>, <<3, 2, "Log">>, <<4, 2, "Info">>}
ResponseSetOption_Equal == {"Code", "Log", "Info"}

ResponseInitChain == [ConsensusParams |-> Opt("ConsensusParams"), Validators |->
  Rep("ValidatorUpdate")]
ResponseInitChain_MarshalTo == <<<<"ConsensusParams", <<10>>>>, <<"Validators", <<18>>>>>>
ResponseInitChain_Size == <<<<"ConsensusParams", 1>>, <<"Validators", 1>>>>
ResponseInitChain_Unmarshal == {<<1, 2, "ConsensusParams">>, <<2, 2, "Validators">>}
ResponseInitChain_Equal == {"ConsensusParams", "Validators"}

ResponseQuery == [Code |-> Num, Log |-> Bytes, Info |-> Bytes, Index |-> Num, Key |-> Bytes,
  Value |-> Bytes, Proof |-> Opt("Proof"), Height |-> Num, Codespace |-> Bytes]
ResponseQuery_MarshalTo == <<<<"Code", <<8>>>>, <<"Log", <<26>>>>, <<"Info", <<34>>>>,
  <<"Index", <<40>>>>, <<"Key", <<50>>>>, <<"Value", <<58>>>>, <<"Proof", <<66>>>>, <<"Height",
  <<72>>>>, <<"Codespace", <<82>>>>>>
ResponseQuery_Size == <<<<"Code", 1>>, <<"Log", 1>>, <<"Info", 1>>, <<"Index", 1>>, <<"Key",
  1>>, <<"Value", 1>>, <<"Proof", 1>>, <<"Height", 1>>, <<"Codespace", 1>>>>
ResponseQuery_Unmarshal == {<<1, 0, "Code">>, <<3, 2, "Log">>, <<4, 2, "Info">>, <<5, 0,
  "Index">>, <<6, 2, "Key">>, <<7, 2, "Value">>, <<8, 2, "Proof">>, <<9, 0, "Height">>, <<10, 2,
  "Codespace">>}
ResponseQuery_Equal == {"Code", "Log", "Info", "Index", "Key", "Value", "Proof", "Height",
  "Codespace"}

ResponseBeginBlock == [Tags |-> Rep("KVPair")]
ResponseBeginBlock_MarshalTo == <<<<"Tags", <<10>>>>>>
ResponseBeginBlock_Size == <<<<"Tags", 1>>>>
ResponseBeginBlock_Unmarshal == {<<1, 2, "Tags">>}
ResponseBeginBlock_Equal == {"Tags"}

ResponseCheckTx == [Code |-> Num, Data |-> Bytes, Log |-> Bytes, Info |-> Bytes, GasWanted |->
  Num, GasUsed |-> Num, Tags |-> Rep("KVPair"), Codespace |-> Bytes]
ResponseCheckTx_MarshalTo == <<<<"Code", <<8>>>>, <<"Data", <<18>>>>, <<"Log", <<26>>>>,
  <<"Info", <<34>>>>, <<"GasWanted", <<40>>>>, <<"GasUsed", <<48>>>>, <<"Tags", <<58>>>>,
  <<"Codespace", <<66>>>>>>
ResponseCheckTx_Size == <<<<"Code", 1>>, <<"Data", 1>>, <<"Log", 1>>, <<"Info", 1>>,
  <<"GasWanted", 1>>, <<"GasUsed", 1>>, <<"Tags", 1>>, <<"Codespace", 1>>>>
ResponseCheckTx_Unmarshal == {<<1, 0, "Code">>, <<2, 2, "Data">>, <<3, 2, "Log">>, <<4, 2,
  "Info">>, <<5, 0, "GasWanted">>, <<6, 0, "GasUsed">>, <<7, 2, "Tags">>, <<8, 2, "Codespace">>}
ResponseCheckTx_Equal == {"Code", "Data", "Log", "Info", "GasWanted", "GasUsed", "Tags",
  "Codespace"}

ResponseDeliverTx == [Code |-> Num, Data |-> Bytes, Log |-> Bytes, Info |-> Bytes, GasWanted |->
  Num, GasUsed |-> Num, Tags |-> Rep("KVPair"), Codespace |-> Bytes]
ResponseDeliverTx_MarshalTo == <<<<"Code", <<8>>>>, <<"Data", <<18>>>>, <<"Log", <<26>>>>,
  <<"Info", <<34>>>>, <<"GasWanted", <<40>>>>, <<"GasUsed", <<48>>>>, <<"Tags", <<58>>>>,
  <<"Codespace", <<66>>>>>>
ResponseDeliverTx_Size == <<<<"Code", 1>>, <<"Data", 1>>, <<"Log", 1>>, <<"Info", 1>>,
  <<"GasWanted", 1>>, <<"GasUsed", 1>>, <<"Tags", 1>>, <<"Codespace", 1>>>>
ResponseDeliverTx_Unmarshal == {<<1, 0, "Code">>, <<2, 2, "Data">>, <<3, 2, "Log">>, <<4, 2,
  "Info">>, <<5, 0, "GasWanted">>, <<6, 0, "GasUsed">>, <<7, 2, "Tags">>, <<8, 2, "Codespace">>}
ResponseDeliverTx_Equal == {"Code", "Data", "Log", "Info", "GasWanted", "GasUsed", "Tags",
  "Codespace"}

ResponseEndBlock == [ValidatorUpdates |-> Rep("ValidatorUpdate"), ConsensusParamUpdates |->
  Opt("ConsensusParams"), Tags |-> Rep("KVPair")]
ResponseEndBlock_MarshalTo == <<<<"ValidatorUpdates", <<10>>>>, <<"ConsensusParamUpdates",
  <<18>>>>, <<"Tags", <<26>>>>>>
ResponseEndBlock_Size == <<<<"ValidatorUpdates", 1>>, <<"ConsensusParamUpdates", 1>>, <<"Tags",
  1>>>>
ResponseEndBlock_Unmarshal == {<<1, 2, "ValidatorUpdates">>, <<2, 2, "ConsensusParamUpdates">>,
  <<3, 2, "Tags">>}
ResponseEndBlock_Equal == {"ValidatorUpdates", "ConsensusParamUpdates", "Tags"}

ResponseCommit == [Data |-> Bytes]
ResponseCommit_MarshalTo == <<<<"Data", <<18>>>>>>
ResponseCommit_Size == <<<<"Data", 1>>>>
ResponseCommit_Unmarshal == {<<2, 2, "Data">>}
ResponseCommit_Equal == {"Data"}

-----------------------------------------------------------------------------
(* rpc/grpc/types.pb.go *)

RequestPing == NoFields
RequestPing_MarshalTo == <<>>
RequestPing_Size == <<>>
RequestPing_Unmarshal == {}
RequestPing_Equal == {}

RequestBroadcastTx == [Tx |-> Bytes]
RequestBroadcastTx_MarshalTo == <<<<"Tx", <<10>>>>>>
RequestBroadcastTx_Size == <<<<"Tx", 1>>>>
RequestBroadcastTx_Unmarshal == {<<1, 2, "Tx">>}
RequestBroadcastTx_Equal == {"Tx"}

ResponsePing == NoFields
ResponsePing_MarshalTo == <<>>
ResponsePing_Size == <<>>
ResponsePing_Unmarshal == {}
ResponsePing_Equal == {}

ResponseBroadcastTx == [CheckTx |-> Opt("ResponseCheckTx"), DeliverTx |->
  Opt("ResponseDeliverTx")]
ResponseBroadcastTx_MarshalTo == <<<<"CheckTx", <<10>>>>, <<"DeliverTx", <<18>>>>>>
ResponseBroadcastTx_Size == <<<<"CheckTx", 1>>, <<"DeliverTx", 1>>>>
ResponseBroadcastTx_Unmarshal == {<<1, 2, "CheckTx">>, <<2, 2, "DeliverTx">>}
ResponseBroadcastTx_Equal == {"CheckTx", "DeliverTx"}

-----------------------------------------------------------------------------
(* XXX_OneofFuncs: what the proto package itself uses for the arms of a oneof, written apart *)
(* from the tables above: the tag of an arm, the cases read, the bytes a tag takes.          *)

Request_OneofMarshaler == [Echo |-> 18, Flush |-> 26, Info |-> 34, SetOption |-> 42,
  InitChain |-> 50, Query |-> 58, BeginBlock |-> 66, CheckTx |-> 74, DeliverTx |-> 154,
  EndBlock |-> 90, Commit |-> 98]
Request_OneofUnmarshaler == {<<2, 2, "Echo">>, <<3, 2, "Flush">>, <<4, 2, "Info">>, <<5, 2,
  "SetOption">>, <<6, 2, "InitChain">>, <<7, 2, "Query">>, <<8, 2, "BeginBlock">>, <<9, 2,
  "CheckTx">>, <<19, 2, "DeliverTx">>, <<11, 2, "EndBlock">>, <<12, 2, "Commit">>}
Request_OneofSizer == [Echo |-> 1, Flush |-> 1, Info |-> 1, SetOption |-> 1, InitChain |->
  1, Query |-> 1, BeginBlock |-> 1, CheckTx |-> 1, DeliverTx |-> 2, EndBlock |-> 1, Commit
  |-> 1]
Response_OneofMarshaler == [Exception |-> 10, Echo |-> 18, Flush |-> 26, Info |-> 34,
  SetOption |-> 42, InitChain |-> 50, Query |-> 58, BeginBlock |-> 66, CheckTx |-> 74,
  DeliverTx |-> 82, EndBlock |-> 90, Commit |-> 98]
Response_OneofUnmarshaler == {<<1, 2, "Exception">>, <<2, 2, "Echo">>, <<3, 2, "Flush">>,
  <<4, 2, "Info">>, <<5, 2, "SetOption">>, <<6, 2, "InitChain">>, <<7, 2, "Query">>, <<8, 2,
  "BeginBlock">>, <<9, 2, "CheckTx">>, <<10, 2, "DeliverTx">>, <<11, 2, "EndBlock">>, <<12,
  2, "Commit">>}
Response_OneofSizer == [Exception |-> 1, Echo |-> 1, Flush |-> 1, Info |-> 1, SetOption |->
  1, InitChain |-> 1, Query |-> 1, BeginBlock |-> 1, CheckTx |-> 1, DeliverTx |-> 1,
  EndBlock |-> 1, Commit |-> 1]

OneofMarshaler == [Request |-> Request_OneofMarshaler, Response |-> Response_OneofMarshaler]
OneofUnmarshaler == [Request |-> Request_OneofUnmarshaler, Response |-> Response_OneofUnmarshaler]
OneofSizer == [Request |-> Request_OneofSizer, Response |-> Response_OneofSizer]

-----------------------------------------------------------------------------
(* The tables by message. *)

Declared == [Timestamp |-> Timestamp, Request |-> Request, RequestEcho |-> RequestEcho,
  RequestFlush |-> RequestFlush, RequestInfo |-> RequestInfo, RequestSetOption |->
  RequestSetOption, RequestInitChain |-> RequestInitChain, RequestQuery |-> RequestQuery,
  RequestBeginBlock |-> RequestBeginBlock, RequestCheckTx |-> RequestCheckTx, RequestDeliverTx
  |-> RequestDeliverTx, RequestEndBlock |-> RequestEndBlock, RequestCommit |-> RequestCommit,
  Response |-> Response, ResponseException |-> ResponseException, ResponseEcho |-> ResponseEcho,
  ResponseFlush |-> ResponseFlush, ResponseInfo |-> ResponseInfo, ResponseSetOption |->
  ResponseSetOption, ResponseInitChain |-> ResponseInitChain, ResponseQuery |-> ResponseQuery,
  ResponseBeginBlock |-> ResponseBeginBlock, ResponseCheckTx |-> ResponseCheckTx,
  ResponseDeliverTx |-> ResponseDeliverTx, ResponseEndBlock |-> ResponseEndBlock, ResponseCommit
  |-> ResponseCommit, ConsensusParams |-> ConsensusParams, BlockParams |-> BlockParams,
  EvidenceParams |-> EvidenceParams, ValidatorParams |-> ValidatorParams, LastCommitInfo |->
  LastCommitInfo, Header |-> Header, Version |-> Version, BlockID |-> BlockID, PartSetHeader |->
  PartSetHeader, Validator |-> Validator, ValidatorUpdate |-> ValidatorUpdate, VoteInfo |->
  VoteInfo, PubKey |-> PubKey, Evidence |-> Evidence, KVPair |-> KVPair, KI64Pair |-> KI64Pair,
  ProofOp |-> ProofOp, Proof |-> Proof, RequestPing |-> RequestPing, RequestBroadcastTx |->
  RequestBroadcastTx, ResponsePing |-> ResponsePing, ResponseBroadcastTx |->
  ResponseBroadcastTx]

MarshalTo == [Timestamp |-> Timestamp_MarshalTo, Request |-> Request_MarshalTo, RequestEcho |->
  RequestEcho_MarshalTo, RequestFlush |-> RequestFlush_MarshalTo, RequestInfo |->
  RequestInfo_MarshalTo, RequestSetOption |-> RequestSetOption_MarshalTo, RequestInitChain |->
  RequestInitChain_MarshalTo, RequestQuery |-> RequestQuery_MarshalTo, RequestBeginBlock |->
  RequestBeginBlock_MarshalTo, RequestCheckTx |-> RequestCheckTx_MarshalTo, RequestDeliverTx |->
  RequestDeliverTx_MarshalTo, RequestEndBlock |-> RequestEndBlock_MarshalTo, RequestCommit |->
  RequestCommit_MarshalTo, Response |-> Response_MarshalTo, ResponseException |->
  ResponseException_MarshalTo, ResponseEcho |-> ResponseEcho_MarshalTo, ResponseFlush |->
  ResponseFlush_MarshalTo, ResponseInfo |-> ResponseInfo_MarshalTo, ResponseSetOption |->
  ResponseSetOption_MarshalTo, ResponseInitChain |-> ResponseInitChain_MarshalTo, ResponseQuery
  |-> ResponseQuery_MarshalTo, ResponseBeginBlock |-> ResponseBeginBlock_MarshalTo,
  ResponseCheckTx |-> ResponseCheckTx_MarshalTo, ResponseDeliverTx |->
  ResponseDeliverTx_MarshalTo, ResponseEndBlock |-> ResponseEndBlock_MarshalTo, ResponseCommit
  |-> ResponseCommit_MarshalTo, ConsensusParams |-> ConsensusParams_MarshalTo, BlockParams |->
  BlockParams_MarshalTo, EvidenceParams |-> EvidenceParams_MarshalTo, ValidatorParams |->
  ValidatorParams_MarshalTo, LastCommitInfo |-> LastCommitInfo_MarshalTo, Header |->
  Header_MarshalTo, Version |-> Version_MarshalTo, BlockID |-> BlockID_MarshalTo, PartSetHeader
  |-> PartSetHeader_MarshalTo, Validator |-> Validator_MarshalTo, ValidatorUpdate |->
  ValidatorUpdate_MarshalTo, VoteInfo |-> VoteInfo_MarshalTo, PubKey |-> PubKey_MarshalTo,
  Evidence |-> Evidence_MarshalTo, KVPair |-> KVPair_MarshalTo, KI64Pair |-> KI64Pair_MarshalTo,
  ProofOp |-> ProofOp_MarshalTo, Proof |-> Proof_MarshalTo, RequestPing |->
  RequestPing_MarshalTo, RequestBroadcastTx |-> RequestBroadcastTx_MarshalTo, ResponsePing |->
  ResponsePing_MarshalTo, ResponseBroadcastTx |-> ResponseBroadcastTx_MarshalTo]

Sized == [Timestamp |-> Timestamp_Size, Request |-> Request_Size, RequestEcho |->
  RequestEcho_Size, RequestFlush |-> RequestFlush_Size, RequestInfo |-> RequestInfo_Size,
  RequestSetOption |-> RequestSetOption_Size, RequestInitChain |-> RequestInitChain_Size,
  RequestQuery |-> RequestQuery_Size, RequestBeginBlock |-> RequestBeginBlock_Size,
  RequestCheckTx |-> RequestCheckTx_Size, RequestDeliverTx |-> RequestDeliverTx_Size,
  RequestEndBlock |-> RequestEndBlock_Size, RequestCommit |-> RequestCommit_Size, Response |->
  Response_Size, ResponseException |-> ResponseException_Size, ResponseEcho |->
  ResponseEcho_Size, ResponseFlush |-> ResponseFlush_Size, ResponseInfo |-> ResponseInfo_Size,
  ResponseSetOption |-> ResponseSetOption_Size, ResponseInitChain |-> ResponseInitChain_Size,
  ResponseQuery |-> ResponseQuery_Size, ResponseBeginBlock |-> ResponseBeginBlock_Size,
  ResponseCheckTx |-> ResponseCheckTx_Size, ResponseDeliverTx |-> ResponseDeliverTx_Size,
  ResponseEndBlock |-> ResponseEndBlock_Size, ResponseCommit |-> ResponseCommit_Size,
  ConsensusParams |-> ConsensusParams_Size, BlockParams |-> BlockParams_Size, EvidenceParams |->
  EvidenceParams_Size, ValidatorParams |-> ValidatorParams_Size, LastCommitInfo |->
  LastCommitInfo_Size, Header |-> Header_Size, Version |-> Version_Size, BlockID |->
  BlockID_Size, PartSetHeader |-> PartSetHeader_Size, Validator |-> Validator_Size,
  ValidatorUpdate |-> ValidatorUpdate_Size, VoteInfo |-> VoteInfo_Size, PubKey |-> PubKey_Size,
  Evidence |-> Evidence_Size, KVPair |-> KVPair_Size, KI64Pair |-> KI64Pair_Size, ProofOp |->
  ProofOp_Size, Proof |-> Proof_Size, RequestPing |-> RequestPing_Size, RequestBroadcastTx |->
  RequestBroadcastTx_Size, ResponsePing |-> ResponsePing_Size, ResponseBroadcastTx |->
  ResponseBroadcastTx_Size]

Unmarshal == [Timestamp |-> Timestamp_Unmarshal, Request |-> Request_Unmarshal, RequestEcho |->
  RequestEcho_Unmarshal, RequestFlush |-> RequestFlush_Unmarshal, RequestInfo |->
  RequestInfo_Unmarshal, RequestSetOption |-> RequestSetOption_Unmarshal, RequestInitChain |->
  RequestInitChain_Unmarshal, RequestQuery |-> RequestQuery_Unmarshal, RequestBeginBlock |->
  RequestBeginBlock_Unmarshal, RequestCheckTx |-> RequestCheckTx_Unmarshal, RequestDeliverTx |->
  RequestDeliverTx_Unmarshal, RequestEndBlock |-> RequestEndBlock_Unmarshal, RequestCommit |->
  RequestCommit_Unmarshal, Response |-> Response_Unmarshal, ResponseException |->
  ResponseException_Unmarshal, ResponseEcho |-> ResponseEcho_Unmarshal, ResponseFlush |->
  ResponseFlush_Unmarshal, ResponseInfo |-> ResponseInfo_Unmarshal, ResponseSetOption |->
  ResponseSetOption_Unmarshal, ResponseInitChain |-> ResponseInitChain_Unmarshal, ResponseQuery
  |-> ResponseQuery_Unmarshal, ResponseBeginBlock |-> ResponseBeginBlock_Unmarshal,
  ResponseCheckTx |-> ResponseCheckTx_Unmarshal, ResponseDeliverTx |->
  ResponseDeliverTx_Unmarshal, ResponseEndBlock |-> ResponseEndBlock_Unmarshal, ResponseCommit
  |-> ResponseCommit_Unmarshal, ConsensusParams |-> ConsensusParams_Unmarshal, BlockParams |->
  BlockParams_Unmarshal, EvidenceParams |-> EvidenceParams_Unmarshal, ValidatorParams |->
  ValidatorParams_Unmarshal, LastCommitInfo |-> LastCommitInfo_Unmarshal, Header |->
  Header_Unmarshal, Version |-> Version_Unmarshal, BlockID |-> BlockID_Unmarshal, PartSetHeader
  |-> PartSetHeader_Unmarshal, Validator |-> Validator_Unmarshal, ValidatorUpdate |->
  ValidatorUpdate_Unmarshal, VoteInfo |-> VoteInfo_Unmarshal, PubKey |-> PubKey_Unmarshal,
  Evidence |-> Evidence_Unmarshal, KVPair |-> KVPair_Unmarshal, KI64Pair |-> KI64Pair_Unmarshal,
  ProofOp |-> ProofOp_Unmarshal, Proof |-> Proof_Unmarshal, RequestPing |->
  RequestPing_Unmarshal, RequestBroadcastTx |-> RequestBroadcastTx_Unmarshal, ResponsePing |->
  ResponsePing_Unmarshal, ResponseBroadcastTx |-> ResponseBroadcastTx_Unmarshal]

Equal == [Timestamp |-> Timestamp_Equal, Request |-> Request_Equal, RequestEcho |->
  RequestEcho_Equal, RequestFlush |-> RequestFlush_Equal, RequestInfo |-> RequestInfo_Equal,
  RequestSetOption |-> RequestSetOption_Equal, RequestInitChain |-> RequestInitChain_Equal,
  RequestQuery |-> RequestQuery_Equal, RequestBeginBlock |-> RequestBeginBlock_Equal,
  RequestCheckTx |-> RequestCheckTx_Equal, RequestDeliverTx |-> RequestDeliverTx_Equal,
  RequestEndBlock |-> RequestEndBlock_Equal, RequestCommit |-> RequestCommit_Equal, Response |->
  Response_Equal, ResponseException |-> ResponseException_Equal, ResponseEcho |->
  ResponseEcho_Equal, ResponseFlush |-> ResponseFlush_Equal, ResponseInfo |->
  ResponseInfo_Equal, ResponseSetOption |-> ResponseSetOption_Equal, ResponseInitChain |->
  ResponseInitChain_Equal, ResponseQuery |-> ResponseQuery_Equal, ResponseBeginBlock |->
  ResponseBeginBlock_Equal, ResponseCheckTx |-> ResponseCheckTx_Equal, ResponseDeliverTx |->
  ResponseDeliverTx_Equal, ResponseEndBlock |-> ResponseEndBlock_Equal, ResponseCommit |->
  ResponseCommit_Equal, ConsensusParams |-> ConsensusParams_Equal, BlockParams |->
  BlockParams_Equal, EvidenceParams |-> EvidenceParams_Equal, ValidatorParams |->
  ValidatorParams_Equal, LastCommitInfo |-> LastCommitInfo_Equal, Header |-> Header_Equal,
  Version |-> Version_Equal, BlockID |-> BlockID_Equal, PartSetHeader |-> PartSetHeader_Equal,
  Validator |-> Validator_Equal, ValidatorUpdate |-> ValidatorUpdate_Equal, VoteInfo |->
  VoteInfo_Equal, PubKey |-> PubKey_Equal, Evidence |-> Evidence_Equal, KVPair |-> KVPair_Equal,
  KI64Pair |-> KI64Pair_Equal, ProofOp |-> ProofOp_Equal, Proof |-> Proof_Equal, RequestPing |->
  RequestPing_Equal, RequestBroadcastTx |-> RequestBroadcastTx_Equal, ResponsePing |->
  ResponsePing_Equal, ResponseBroadcastTx |-> ResponseBroadcastTx_Equal]

-----------------------------------------------------------------------------
(* A field as it is declared, and the message with no field set. *)

Declares(t, f) == Declared[t][f]

RECURSIVE Zero(_)
Zero(t) ==
  LET Empty(d) == CASE d[1] = "int"  -> 0
                    [] d[1] = "bool" -> FALSE
                    [] d[1] = "val"  -> Zero(d[2])
                    [] OTHER         -> <<>>
  IN [f \in DOMAIN Declared[t] \union {""} |-> IF f = "" THEN <<>> ELSE Empty(Declares(t, f))]
=============================================================================
