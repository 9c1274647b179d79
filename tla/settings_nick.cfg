CONSTANTS
  Forms <- MCForms
  Answers <- MCAnswers
SPECIFICATION SettingsSpec
CHECK_DEADLOCK FALSE
INVARIANT RefusesWhatApiRefuses
