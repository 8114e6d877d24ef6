----------------------------- MODULE DataTypes ------------------------------
(***************************************************************************)
(* The kinds of fields of a protobuf message, and the tables (explained in *)
(* Messages) of what the application's messages are made of: parameters,   *)
(* headers, validators, evidence, proofs.                                  *)
(***************************************************************************)
EXTENDS Sequences

Bytes == <<"bytes">>                \* a string or a []byte
Num == <<"int">>                    \* int32, int64, uint32, uint64, an enum
Bool == <<"bool">>
RepBytes == <<"repbytes">>          \* []string
Val(m) == <<"val", m>>              \* an embedded message, always written
Opt(m) == <<"opt", m>>              \* a pointer
Rep(m) == <<"rep", m>>              \* a slice of messages
Arm(m) == <<"arm", m>>              \* an arm of a oneof
NoFields == [f \in {} |-> Bytes]

\* google.protobuf.Timestamp, by which gogo/protobuf writes a time.Time.
Timestamp == [Seconds |-> Num, Nanos |-> Num]
Timestamp_MarshalTo == <<<<"Seconds", <<8>>>>, <<"Nanos", <<16>>>>>>
Timestamp_Size == <<<<"Seconds", 1>>, <<"Nanos", 1>>>>
Timestamp_Unmarshal == {<<1, 0, "Seconds">>, <<2, 0, "Nanos">>}
Timestamp_Equal == {"Seconds", "Nanos"}

-----------------------------------------------------------------------------
(* abci/types/types.pb.go *)

ConsensusParams == [Block |-> Opt("BlockParams"), Evidence |-> Opt("EvidenceParams"), Validator
  |-> Opt("ValidatorParams")]
ConsensusParams_MarshalTo == <<<<"Block", <<10>>>>, <<"Evidence", <<18>>>>, <<"Validator",
  <<26>>>>>>
ConsensusParams_Size == <<<<"Block", 1>>, <<"Evidence", 1>>, <<"Validator", 1>>>>
ConsensusParams_Unmarshal == {<<1, 2, "Block">>, <<2, 2, "Evidence">>, <<3, 2, "Validator">>}
ConsensusParams_Equal == {"Block", "Evidence", "Validator"}

BlockParams == [MaxBytes |-> Num, MaxGas |-> Num]
BlockParams_MarshalTo == <<<<"MaxBytes", <<8>>>>, <<"MaxGas", <<16>>>>>>
BlockParams_Size == <<<<"MaxBytes", 1>>, <<"MaxGas", 1>>>>
BlockParams_Unmarshal == {<<1, 0, "MaxBytes">>, <<2, 0, "MaxGas">>}
BlockParams_Equal == {"MaxBytes", "MaxGas"}

EvidenceParams == [MaxAge |-> Num]
EvidenceParams_MarshalTo == <<<<"MaxAge", <<8>>>>>>
EvidenceParams_Size == <<<<"MaxAge", 1>>>>
EvidenceParams_Unmarshal == {<<1, 0, "MaxAge">>}
EvidenceParams_Equal == {"MaxAge"}

ValidatorParams == [PubKeyTypes |-> RepBytes]
ValidatorParams_MarshalTo == <<<<"PubKeyTypes", <<10>>>>>>
ValidatorParams_Size == <<<<"PubKeyTypes", 1>>>>
ValidatorParams_Unmarshal == {<<1, 2, "PubKeyTypes">>}
ValidatorParams_Equal == {"PubKeyTypes"}

LastCommitInfo == [Round |-> Num, Votes |-> Rep("VoteInfo")]
LastCommitInfo_MarshalTo == <<<<"Round", <<8>>>>, <<"Votes", <<18>>>>>>
LastCommitInfo_Size == <<<<"Round", 1>>, <<"Votes", 1>>>>
LastCommitInfo_Unmarshal == {<<1, 0, "Round">>, <<2, 2, "Votes">>}
LastCommitInfo_Equal == {"Round", "Votes"}

Header == [Version |-> Val("Version"), ChainID |-> Bytes, Height |-> Num, Time |->
  Val("Timestamp"), NumTxs |-> Num, TotalTxs |-> Num, LastBlockId |-> Val("BlockID"),
  LastCommitHash |-> Bytes, DataHash |-> Bytes, ValidatorsHash |-> Bytes, NextValidatorsHash |->
  Bytes, ConsensusHash |-> Bytes, AppHash |-> Bytes, LastResultsHash |-> Bytes, EvidenceHash |->
  Bytes, ProposerAddress |-> Bytes]
Header_MarshalTo == <<<<"Version", <<10>>>>, <<"ChainID", <<18>>>>, <<"Height", <<24>>>>,
  <<"Time", <<34>>>>, <<"NumTxs", <<40>>>>, <<"TotalTxs", <<48>>>>, <<"LastBlockId", <<58>>>>,
  <<"LastCommitHash", <<66>>>>, <<"DataHash", <<74>>>>, <<"ValidatorsHash", <<82>>>>,
  <<"NextValidatorsHash", <<90>>>>, <<"ConsensusHash", <<98>>>>, <<"AppHash", <<106>>>>,
  <<"LastResultsHash", <<114>>>>, <<"EvidenceHash", <<122>>>>, <<"ProposerAddress", <<130,
  1>>>>>>
Header_Size == <<<<"Version", 1>>, <<"ChainID", 1>>, <<"Height", 1>>, <<"Time", 1>>, <<"NumTxs",
  1>>, <<"TotalTxs", 1>>, <<"LastBlockId", 1>>, <<"LastCommitHash", 1>>, <<"DataHash", 1>>,
  <<"ValidatorsHash", 1>>, <<"NextValidatorsHash", 1>>, <<"ConsensusHash", 1>>, <<"AppHash",
  1>>, <<"LastResultsHash", 1>>, <<"EvidenceHash", 1>>, <<"ProposerAddress", 2>>>>
Header_Unmarshal == {<<1, 2, "Version">>, <<2, 2, "ChainID">>, <<3, 0, "Height">>, <<4, 2,
  "Time">>, <<5, 0, "NumTxs">>, <<6, 0, "TotalTxs">>, <<7, 2, "LastBlockId">>, <<8, 2,
  "LastCommitHash">>, <<9, 2, "DataHash">>, <<10, 2, "ValidatorsHash">>, <<11, 2,
  "NextValidatorsHash">>, <<12, 2, "ConsensusHash">>, <<13, 2, "AppHash">>, <<14, 2,
  "LastResultsHash">>, <<15, 2, "EvidenceHash">>, <<16, 2, "ProposerAddress">>}
Header_Equal == {"Version", "ChainID", "Height", "Time", "NumTxs", "TotalTxs", "LastBlockId",
  "LastCommitHash", "DataHash", "ValidatorsHash", "NextValidatorsHash", "ConsensusHash",
  "AppHash", "LastResultsHash", "EvidenceHash", "ProposerAddress"}

Version == [Block |-> Num, App |-> Num]
Version_MarshalTo == <<<<"Block", <<8>>>>, <<"App", <<16>>>>>>
Version_Size == <<<<"Block", 1>>, <<"App", 1>>>>
Version_Unmarshal == {<<1, 0, "Block">>, <<2, 0, "App">>}
Version_Equal == {"Block", "App"}

BlockID == [Hash |-> Bytes, PartsHeader |-> Val("PartSetHeader")]
BlockID_MarshalTo == <<<<"Hash", <<10>>>>, <<"PartsHeader", <<18>>>>>>
BlockID_Size == <<<<"Hash", 1>>, <<"PartsHeader", 1>>>>
BlockID_Unmarshal == {<<1, 2, "Hash">>, <<2, 2, "PartsHeader">>}
BlockID_Equal == {"Hash", "PartsHeader"}

PartSetHeader == [Total |-> Num, Hash |-> Bytes]
PartSetHeader_MarshalTo == <<<<"Total", <<8>>>>, <<"Hash", <<18>>>>>>
PartSetHeader_Size == <<<<"Total", 1>>, <<"Hash", 1>>>>
PartSetHeader_Unmarshal == {<<1, 0, "Total">>, <<2, 2, "Hash">>}
PartSetHeader_Equal == {"Total", "Hash"}

Validator == [Address |-> Bytes, Power |-> Num]
Validator_MarshalTo == <<<<"Address", <<10>>>>, <<"Power", <<24>>>>>>
Validator_Size == <<<<"Address", 1>>, <<"Power", 1>>>>
Validator_Unmarshal == {<<1, 2, "Address">>, <<3, 0, "Power">>}
Validator_Equal == {"Address", "Power"}

ValidatorUpdate == [PubKey |-> Val("PubKey"), Power |-> Num]
ValidatorUpdate_MarshalTo == <<<<"PubKey", <<10>>>>, <<"Power", <<16>>>>>>
ValidatorUpdate_Size == <<<<"PubKey", 1>>, <<"Power", 1>>>>
ValidatorUpdate_Unmarshal == {<<1, 2, "PubKey">>, <<2, 0, "Power">>}
ValidatorUpdate_Equal == {"PubKey", "Power"}

VoteInfo == [Validator |-> Val("Validator"), SignedLastBlock |-> Bool]
VoteInfo_MarshalTo == <<<<"Validator", <<10>>>>, <<"SignedLastBlock", <<16>>>>>>
VoteInfo_Size == <<<<"Validator", 1>>, <<"SignedLastBlock", 2>>>>
VoteInfo_Unmarshal == {<<1, 2, "Validator">>, <<2, 0, "SignedLastBlock">>}
VoteInfo_Equal == {"Validator", "SignedLastBlock"}

PubKey == [Type |-> Bytes, Data |-> Bytes]
PubKey_MarshalTo == <<<<"Type", <<10>>>>, <<"Data", <<18>>>>>>
PubKey_Size == <<<<"Type", 1>>, <<"Data", 1>>>>
PubKey_Unmarshal == {<<1, 2, "Type">>, <<2, 2, "Data">>}
PubKey_Equal == {"Type", "Data"}

Evidence == [Type |-> Bytes, Validator |-> Val("Validator"), Height |-> Num, Time |->
  Val("Timestamp"), TotalVotingPower |-> Num]
Evidence_MarshalTo == <<<<"Type", <<10>>>>, <<"Validator", <<18>>>>, <<"Height", <<24>>>>,
  <<"Time", <<34>>>>, <<"TotalVotingPower", <<40>>>>>>
Evidence_Size == <<<<"Type", 1>>, <<"Validator", 1>>, <<"Height", 1>>, <<"Time", 1>>,
  <<"TotalVotingPower", 1>>>>
Evidence_Unmarshal == {<<1, 2, "Type">>, <<2, 2, "Validator">>, <<3, 0, "Height">>, <<4, 2,
  "Time">>, <<5, 0, "TotalVotingPower">>}
Evidence_Equal == {"Type", "Validator", "Height", "Time", "TotalVotingPower"}

-----------------------------------------------------------------------------
(* libs/common/types.pb.go *)

KVPair == [Key |-> Bytes, Value |-> Bytes]
KVPair_MarshalTo == <<<<"Key", <<10>>>>, <<"Value", <<18>>>>>>
KVPair_Size == <<<<"Key", 1>>, <<"Value", 1>>>>
KVPair_Unmarshal == {<<1, 2, "Key">>, <<2, 2, "Value">>}
KVPair_Equal == {"Key", "Value"}

KI64Pair == [Key |-> Bytes, Value |-> Num]
KI64Pair_MarshalTo == <<<<"Key", <<10>>>>, <<"Value", <<16>>>>>>
KI64Pair_Size == <<<<"Key", 1>>, <<"Value", 1>>>>
KI64Pair_Unmarshal == {<<1, 2, "Key">>, <<2, 0, "Value">>}
KI64Pair_Equal == {"Key", "Value"}

-----------------------------------------------------------------------------
(* crypto/merkle/merkle.pb.go *)

ProofOp == [Type |-> Bytes, Key |-> Bytes, Data |-> Bytes]
ProofOp_MarshalTo == <<<<"Type", <<10>>>>, <<"Key", <<18>>>>, <<"Data", <<26>>>>>>
ProofOp_Size == <<<<"Type", 1>>, <<"Key", 1>>, <<"Data", 1>>>>
ProofOp_Unmarshal == {<<1, 2, "Type">>, <<2, 2, "Key">>, <<3, 2, "Data">>}
ProofOp_Equal == {"Type", "Key", "Data"}

Proof == [Ops |-> Rep("ProofOp")]
Proof_MarshalTo == <<<<"Ops", <<10>>>>>>
Proof_Size == <<<<"Ops", 1>>>>
Proof_Unmarshal == {<<1, 2, "Ops">>}
Proof_Equal == {"Ops"}
=============================================================================
